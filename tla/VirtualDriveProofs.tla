------------------------- MODULE VirtualDriveProofs -------------------------
(***************************************************************************)
(* The virtual drive's filename map is sound for every client, every bound *)
(* and every interleaving of the parts of Flush(), Close() and Pack(), and *)
(* Pack() copies every file and leaves no hole.                            *)
(***************************************************************************)
EXTENDS VirtualDrive, ProofLemmas

(***************************************************************************)
(* The filename map                                                        *)
(***************************************************************************)
NamesIn(d, lo, hi) == {d[i].name : i \in lo .. hi}

\* f is the map m after the directory's entries lo .. hi were entered in it.
Entered(f, m, d, lo, hi) ==
    /\ DOMAIN f = DOMAIN m \cup NamesIn(d, lo, hi)
    /\ \A n \in NamesIn(d, lo, hi) : f[n] \in lo .. hi /\ d[f[n]].name = n
    /\ \A n \in DOMAIN m \ NamesIn(d, lo, hi) : f[n] = m[n]

\* What entering entries into the filename map does.
LEMMA MapFromEnters ==
    ASSUME NEW m, NEW d, NEW lo \in Nat, NEW hi \in Int
    PROVE  Entered(MapFrom(m, d, lo, hi), m, d, lo, hi)
<1> DEFINE f == MapFrom(m, d, lo, hi)
           new == NamesIn(d, lo, hi)
           named(n) == {i \in lo .. hi : d[i].name = n}
           last(n) == CHOOSE i \in named(n) : \A j \in named(n) : j <= i
<1>1. f = [n \in DOMAIN m \cup new |-> IF n \in new THEN last(n) ELSE m[n]]
  BY Zenon DEF MapFrom, NamesIn
<1>2. ASSUME NEW n \in new
      PROVE  last(n) \in lo .. hi /\ d[last(n)].name = n
  <2>1. named(n) \in SUBSET (lo .. hi) /\ named(n) # {}
    BY DEF NamesIn
  <2>2. \E i \in named(n) : \A j \in named(n) : j <= i
    <3> HIDE DEF named
    <3> QED BY <2>1, MaxExists
  <2>3. last(n) \in named(n)
    <3> HIDE DEF named
    <3> QED BY <2>2
  <2> QED BY <2>3
<1> HIDE DEF f, new, last
<1>3. DOMAIN f = DOMAIN m \cup new
  BY <1>1
<1>4. \A n \in new : f[n] = last(n)
  BY <1>1
<1>5. \A n \in DOMAIN m \ new : f[n] = m[n]
  BY <1>1
<1>6. \A n \in new : f[n] \in lo .. hi /\ d[f[n]].name = n
  BY <1>2, <1>4
<1> QED BY <1>3, <1>5, <1>6 DEF f, new, Entered

\* The same from the directory's first entry on.
LEMMA MapFromFirstEnters ==
    ASSUME NEW m, NEW d, NEW hi \in Int
    PROVE  Entered(MapFrom(m, d, 1, hi), m, d, 1, hi)
<1> DEFINE one == 1
<1>1. one \in Nat
  OBVIOUS
<1> HIDE DEF one
<1>2. Entered(MapFrom(m, d, one, hi), m, d, one, hi)
  BY <1>1, MapFromEnters, Zenon
<1> QED BY <1>2, Zenon DEF one

(***************************************************************************)
(* Directories                                                             *)
(***************************************************************************)
\* What a new drive, a missing disk file and a closed handle are made of has its
\* types.
LEMMA FreshTypes ==
    /\ FreshHeader \in Header /\ NoFile \in Header
    /\ NoDir \in Directory(0) /\ FreshHeader.count = 0 /\ FreshHeader.dirOffset = 1
    /\ NoCells \in [Offsets -> Data \cup {Empty}]
    /\ DOMAIN NoMap = {}
    /\ ClosedHandle \in Handle /\ AllClosed \in [Handles -> Handle]
    /\ ~ClosedHandle.open
    /\ NoDiskDir.at \in Nat /\ NoTemp.next \in Nat \ {0}
    /\ \A i \in DOMAIN NoDiskDir.dir : NoDiskDir.dir[i] \in Entry
    /\ NoTemp.header \in Header /\ NoTemp.dir \in Directory(NoTemp.header.count)
    /\ NoTemp.cells \in [Offsets -> Data \cup {Empty}]
<1>1. /\ FreshHeader \in Header
      /\ FreshHeader.count = 0 /\ FreshHeader.dirOffset = 1
  BY BoundsAssumption DEF FreshHeader, Header, HeaderEnd
<1>2. NoFile \in Header
  BY <1>1 DEF NoFile, Header
<1>3. NoDir \in Directory(0) /\ DOMAIN NoMap = {}
  BY DEF NoDir, Directory, NoMap
<1>4. NoCells \in [Offsets -> Data \cup {Empty}]
  BY DEF NoCells
<1>5. ClosedHandle \in Handle /\ ~ClosedHandle.open
  BY DEF ClosedHandle, Handle
<1>6. AllClosed \in [Handles -> Handle]
  BY <1>5 DEF AllClosed
<1>7. /\ NoDiskDir.at \in Nat
      /\ \A i \in DOMAIN NoDiskDir.dir : NoDiskDir.dir[i] \in Entry
  BY DEF NoDiskDir, NoDir
<1>8. /\ NoTemp.header \in Header /\ NoTemp.dir \in Directory(NoTemp.header.count)
      /\ NoTemp.cells \in [Offsets -> Data \cup {Empty}] /\ NoTemp.next \in Nat \ {0}
  BY <1>1, <1>3, <1>4 DEF NoTemp
<1> QED BY <1>1, <1>2, <1>3, <1>4, <1>5, <1>6, <1>7, <1>8

\* A new entry goes behind the others, which stay where they are (FileCreate()).
LEMMA AppendType ==
    ASSUME NEW n \in Nat, NEW d \in Directory(n), NEW e \in Entry
    PROVE  /\ Append1(d, n, e) \in Directory(n + 1)
           /\ Append1(d, n, e)[n + 1] = e
           /\ \A i \in 1 .. n : Append1(d, n, e)[i] = d[i]
  BY DEF Append1, Directory

\* Erasing an entry moves those after it down by one (FileErase()).
LEMMA WithoutType ==
    ASSUME NEW n \in Nat, NEW d \in Directory(n), NEW k \in 1 .. n
    PROVE  /\ Without(d, n, k) \in Directory(n - 1)
           /\ \A i \in 1 .. n - 1 :
                 Without(d, n, k)[i] = IF i < k THEN d[i] ELSE d[i + 1]
  BY DEF Without, Directory

\* Sorting a directory gives a directory with as many entries (Flush()).
LEMMA SortedType ==
    ASSUME NEW n \in Nat, NEW d \in Directory(n), NEW e \in Sorted(d, n)
    PROVE  e \in Directory(n)
  BY DEF Sorted, Directory

\* Open() reads as many entries as the header counts, whatever is on disk.
LEMMA ParsedType ==
    ASSUME NEW n \in Nat, NEW d, \A i \in DOMAIN d : d[i] \in Entry,
           NEW e \in Parsed(d, n)
    PROVE  e \in Directory(n)
<1>1. JunkEntry \subseteq Entry
  BY BoundsAssumption DEF JunkEntry, Entry, JunkName, HeaderEnd
<1> QED BY <1>1 DEF Parsed, Directory

(***************************************************************************)
(* The inductive invariant                                                 *)
(***************************************************************************)
\* The drive is open while Flush(), Close() or Pack()'s loop is under way, and
\* closed while Pack() replaces its disk file.
Phase == /\ pc \in {"flush", "close", "pack", "copy"} => isOpen
         /\ pc = "replace" => ~isOpen

IInv == TypeOK /\ MapSound /\ Phase

\* Before any drive is created or opened the invariant holds.
LEMMA InitIInv == DriveInit => IInv
<1> SUFFICES ASSUME DriveInit PROVE IInv
  OBVIOUS
<1>1. TypeOK
  BY FreshTypes DEF DriveInit, TypeOK
<1>2. MapSound /\ Phase
  BY DEF DriveInit, MapSound, Phase
<1> QED BY <1>1, <1>2 DEF IInv

\* A step that leaves the directory, the map and the disk's shape alone.
LEMMA StutterIInv == IInv /\ UNCHANGED driveVars => IInv'
BY DEF IInv, TypeOK, MapSound, Phase, driveVars, memory, disk, Count

\* Creating, opening and closing the drive keep the invariant.
LEMMA OpenCloseIInv ==
    ASSUME IInv,
           \/ Construct \/ Create \/ (\E ro \in BOOLEAN : Open(ro) \/ OpenFails(ro))
           \/ CloseUnchanged \/ CloseHeader
    PROVE  IInv'
<1> USE DEF IInv, Idle, Ready, disk
<1>1. CASE Construct
  BY <1>1, FreshTypes DEF Construct, TypeOK, MapSound, Phase, Count
<1>2. CASE Create
  <2>1. TypeOK'
    BY <1>2, FreshTypes DEF Create, TypeOK, Count
  <2>2. MapSound' /\ Phase'
    BY <1>2, FreshTypes DEF Create, MapSound, Phase
  <2> QED BY <2>1, <2>2
<1>3. ASSUME NEW ro \in BOOLEAN, Open(ro)
      PROVE  IInv'
  <2>1. dir' \in Directory(header'.count) /\ header' \in Header /\ header'.count \in Nat
    BY <1>3, ParsedType DEF Open, TypeOK, Header
  <2>2. Entered(fmap', fmap, dir', 1, header'.count) /\ DOMAIN fmap = {}
    BY <1>3, <2>1, MapFromFirstEnters, FreshTypes DEF Open, TypeOK
  <2>3. NamesIn(dir', 1, header'.count) \subseteq Names \cup {JunkName}
    BY <2>1 DEF NamesIn, Directory, Entry
  <2>4. DOMAIN fmap' \subseteq Names \cup {JunkName}
    BY <2>2, <2>3 DEF Entered
  <2>5. TypeOK'
    <3>1. readOnly' \in BOOLEAN
      BY <1>3 DEF Open
    <3>2. /\ isOpen' = TRUE /\ changed' = FALSE /\ writer' = NoHandle
          /\ UNCHANGED <<handles, diskHeader, cells, diskDir, pc, temp>>
      BY <1>3 DEF Open
    <3> QED BY <2>1, <2>4, <3>1, <3>2 DEF TypeOK, Count
  <2>6. MapSound'
    BY <2>2 DEF MapSound, Entered, Count
  <2>7. Phase'
    BY <1>3 DEF Open, Phase
  <2> QED BY <2>5, <2>6, <2>7
<1>4. CASE CloseUnchanged
  BY <1>4, FreshTypes DEF CloseUnchanged, CloseFiles, TypeOK, MapSound, Phase
<1>5. CASE CloseHeader
  BY <1>5, FreshTypes DEF CloseHeader, CloseFiles, WriteHeader, TypeOK, MapSound, Phase
<1>6. ASSUME NEW ro \in BOOLEAN, OpenFails(ro)
      PROVE  IInv'
  BY <1>6 DEF OpenFails, TypeOK, MapSound, Phase, Count
<1> QED BY <1>1, <1>2, <1>3, <1>4, <1>5, <1>6

\* Writing the directory in Flush(), Close() or Pack() keeps it: the sorted
\* directory is entered in an empty map.
LEMMA FlushIInv ==
    ASSUME IInv, NEW next \in {"flush", "close", "pack"}, FlushDirectory(next)
    PROVE  IInv'
<1> USE DEF IInv, Idle, Ready
<1>1. Count \in Nat /\ dir \in Directory(Count) /\ isOpen /\ header.dirOffset \in Nat
  BY DEF FlushDirectory, TypeOK, Header, Count
<1>2. /\ dir' \in Directory(Count)
      /\ DOMAIN fmap' \subseteq Names \cup {JunkName}
      /\ \A n \in DOMAIN fmap' : fmap'[n] \in 1 .. Count /\ dir'[fmap'[n]].name = n
  <2>1. CASE Count > 1
    <3>1. dir' \in Directory(Count) /\ fmap' = MapFrom(NoMap, dir', 1, Count)
      BY <1>1, <2>1, SortedType DEF FlushDirectory
    <3>2. Entered(fmap', NoMap, dir', 1, Count) /\ DOMAIN NoMap = {}
      BY <1>1, <3>1, MapFromFirstEnters, FreshTypes
    <3>3. NamesIn(dir', 1, Count) \subseteq Names \cup {JunkName}
      BY <1>1, <3>1 DEF NamesIn, Directory, Entry
    <3> QED BY <3>1, <3>2, <3>3 DEF Entered
  <2>2. CASE ~(Count > 1)
    BY <1>1, <2>2 DEF FlushDirectory, TypeOK, MapSound
  <2> QED BY <2>1, <2>2
<1>3. cells' \in [Offsets -> Data \cup {Empty}]
  BY DEF FlushDirectory, TypeOK
<1>4. diskDir'.at \in Nat /\ \A i \in DOMAIN diskDir'.dir : diskDir'.dir[i] \in Entry
  BY <1>1, <1>2 DEF FlushDirectory, Directory
<1>5. TypeOK'
  BY <1>1, <1>2, <1>3, <1>4 DEF FlushDirectory, TypeOK, Count
<1>6. MapSound' /\ Phase'
  BY <1>1, <1>2 DEF FlushDirectory, MapSound, Phase, Count
<1> QED BY <1>5, <1>6

\* Writing the header keeps it.
LEMMA FlushHeaderIInv == IInv /\ FlushHeader => IInv'
<1> SUFFICES ASSUME IInv, FlushHeader PROVE IInv'
  OBVIOUS
<1>1. TypeOK'
  BY DEF IInv, FlushHeader, WriteHeader, TypeOK, Count
<1>2. MapSound' /\ Phase'
  BY DEF IInv, FlushHeader, MapSound, Phase, Count
<1> QED BY <1>1, <1>2 DEF IInv

\* What an action that looks at an open drive may use.
LEMMA OpenDrive ==
    ASSUME IInv, Ready
    PROVE  /\ isOpen /\ Count \in Nat /\ header \in Header /\ header.dirOffset \in Nat
           /\ dir \in Directory(Count)
           /\ \A i \in 1 .. Count : dir[i] \in Entry
           /\ \A n \in DOMAIN fmap : fmap[n] \in 1 .. Count /\ dir[fmap[n]].name = n
BY DEF IInv, TypeOK, MapSound, Ready, Idle, Header, Directory, Count

\* An action that only changes the drive's open files, directory, map and header
\* keeps the invariant when they keep their types and the map stays sound.
LEMMA DirectoryIInv ==
    ASSUME IInv, Ready,
           UNCHANGED <<isOpen, readOnly, diskHeader, pc, temp>>,
           changed' \in BOOLEAN,
           header' \in Header, dir' \in Directory(header'.count),
           DOMAIN fmap' \subseteq Names \cup {JunkName},
           \A n \in DOMAIN fmap' : fmap'[n] \in 1 .. header'.count /\ dir'[fmap'[n]].name = n,
           handles' \in [Handles -> Handle],
           writer' \in Handles \cup {NoHandle},
           cells' \in [Offsets -> Data \cup {Empty}],
           diskDir' \in {diskDir, NoDiskDir}
    PROVE  IInv'
<1>1. diskDir'.at \in Nat /\ \A i \in DOMAIN diskDir'.dir : diskDir'.dir[i] \in Entry
  BY FreshTypes DEF IInv, TypeOK
<1> QED BY <1>1 DEF IInv, TypeOK, MapSound, Phase, Ready, Idle, Count

\* Every operation on a virtual file keeps it.
LEMMA FileIInv ==
    ASSUME IInv, NEW h \in Handles,
           HandleSteps(h)
    PROVE  IInv'
<1> USE DEF Ready, Idle
<1>0. handles \in [Handles -> Handle] /\ handles[h] \in Handle
  BY DEF IInv, TypeOK
<1>a. /\ cells \in [Offsets -> Data \cup {Empty}] /\ changed \in BOOLEAN
      /\ writer \in Handles \cup {NoHandle}
      /\ DOMAIN fmap \subseteq Names \cup {JunkName}
  BY DEF IInv, TypeOK
<1>1. ASSUME NEW n \in Names, NEW t \in Times, FileCreate(n, t, h)
      PROVE  IInv'
  <2> DEFINE e == [name |-> n, time |-> t, offset |-> header.dirOffset, size |-> 0]
             i == IF Found(n) THEN fmap[n] ELSE Count + 1
  <2>1. Ready
    BY <1>1 DEF FileCreate
  <2>2. e \in Entry /\ e.name = n
    BY <2>1, OpenDrive DEF Entry
  <2>3. i \in 1 .. Count + 1
    BY <2>1, OpenDrive DEF Found
  <2>4. handles' \in [Handles -> Handle]
    BY <1>0, <1>1, <2>3 DEF FileCreate, OpenHandle, Handle
  <2>5. CASE Found(n)
    <3>1. /\ header' \in Header /\ header'.count = Count
          /\ dir' = [dir EXCEPT ![fmap[n]] = e] /\ fmap' = fmap
      BY <1>1, <2>1, <2>5, OpenDrive DEF FileCreate, Header, Count
    <3>2. dir' \in Directory(Count)
      BY <2>1, <2>2, <3>1, OpenDrive DEF Directory
    <3>3. \A m \in DOMAIN fmap : dir'[fmap[m]].name = m
      BY <2>1, <2>2, <2>5, <3>1, OpenDrive DEF Directory, Found
    <3> QED
      BY <1>1, <1>a, <2>1, <2>4, <3>1, <3>2, <3>3, OpenDrive, DirectoryIInv
         DEF FileCreate, disk
  <2>6. CASE ~Found(n)
    <3>1. /\ header' \in Header /\ header'.count = Count + 1
          /\ dir' = Append1(dir, Count, e)
          /\ fmap' = [m \in DOMAIN fmap \cup {n} |-> IF m = n THEN Count + 1 ELSE fmap[m]]
      BY <1>1, <2>1, <2>6, OpenDrive DEF FileCreate, Header, Count
    <3>2. /\ dir' \in Directory(Count + 1) /\ dir'[Count + 1] = e
          /\ \A k \in 1 .. Count : dir'[k] = dir[k]
      BY <2>1, <2>2, <3>1, OpenDrive, AppendType
    <3>3. \A m \in DOMAIN fmap' : fmap'[m] \in 1 .. Count + 1 /\ dir'[fmap'[m]].name = m
      BY <2>1, <2>2, <3>1, <3>2, OpenDrive
    <3> QED
      BY <1>1, <1>a, <2>1, <2>4, <3>1, <3>2, <3>3, OpenDrive, DirectoryIInv
         DEF FileCreate, disk
  <2> QED BY <2>5, <2>6
<1>2. ASSUME NEW n \in Names, FileOpen(n, h)
      PROVE  IInv'
  <2>1. Ready /\ fmap[n] \in Nat
    BY <1>2, OpenDrive DEF FileOpen, Found
  <2>2. handles' \in [Handles -> Handle]
    BY <1>0, <1>2, <2>1 DEF FileOpen, OpenHandle, Handle
  <2> QED
    BY <1>2, <1>a, <2>1, <2>2, OpenDrive, DirectoryIInv DEF FileOpen, disk, Count
<1>3. CASE FileClose(h)
  <2>1. Ready /\ handles' \in [Handles -> Handle]
    BY <1>0, <1>3, FreshTypes DEF FileClose
  <2>2. header' \in Header /\ header'.count = Count
    <3>1. ASSUME Live(h) PROVE At(h).offset + handles[h].pos \in Nat
      BY <1>0, <2>1, <3>1, OpenDrive DEF Live, At, Entry, Handle
    <3>2. Offsets \subseteq Nat
      BY BoundsAssumption DEF Offsets, HeaderEnd
    <3> QED BY <1>3, <2>1, <3>1, <3>2, OpenDrive DEF FileClose, Header, Count
  <2>3. writer' \in Handles \cup {NoHandle}
    BY <1>3, <1>a DEF FileClose
  <2> QED
    BY <1>3, <1>a, <2>1, <2>2, <2>3, OpenDrive, DirectoryIInv DEF FileClose, disk
<1>4. ASSUME NEW d \in Data, Write(h, d)
      PROVE  IInv'
  <2> DEFINE i == handles[h].idx
             p == handles[h].pos + 1
             e == [dir[i] EXCEPT !.size = p]
  <2>1. Ready /\ i \in 1 .. Count /\ p \in Nat
    BY <1>0, <1>4 DEF Write, Live, Handle
  <2>2. handles' \in [Handles -> Handle]
    BY <1>0, <1>4, <2>1 DEF Write, Handle
  <2>3. cells' \in [Offsets -> Data \cup {Empty}]
    BY <1>4, <1>a DEF Write
  <2>4. e \in Entry /\ e.name = dir[i].name
    BY <2>1, OpenDrive DEF Entry
  <2>5. dir' \in {dir, [dir EXCEPT ![i] = e]}
    BY <1>4 DEF Write, At
  <2>6. dir' \in Directory(Count) /\ \A k \in 1 .. Count : dir'[k].name = dir[k].name
    <3>1. CASE dir' = dir
      BY <2>1, <3>1, OpenDrive
    <3>2. CASE dir' = [dir EXCEPT ![i] = e]
      BY <2>1, <2>4, <3>2, OpenDrive DEF Directory
    <3> QED BY <2>5, <3>1, <3>2
  <2> QED
    BY <1>4, <1>a, <2>1, <2>2, <2>3, <2>6, OpenDrive, DirectoryIInv DEF Write, Count
<1>5. ASSUME NEW p \in Nat, Ready, MovePosition(h, p)
      PROVE  IInv'
  <2>1. handles' \in [Handles -> Handle]
    BY <1>0, <1>5 DEF MovePosition, Handle
  <2> QED
    BY <1>5, <1>a, <2>1, OpenDrive, DirectoryIInv DEF MovePosition, disk, Count
<1>6. ASSUME NEW k \in Sizes, Read(h, k) \/ Seek(h, k) \/ SeekEnd(h, k)
      PROVE  IInv'
  <2>1. Ready /\ k \in Nat /\ handles[h].pos \in Nat /\ At(h).size \in Nat
    <3>1. Ready /\ Live(h)
      BY <1>6 DEF Read, Seek, SeekEnd
    <3> QED
      BY <1>0, <3>1, OpenDrive, BoundsAssumption DEF Sizes, Live, At, Entry, Handle
  <2> QED BY <1>5, <1>6, <2>1 DEF Read, Seek, SeekEnd
<1>7. ASSUME NEW k \in Sizes, SetLength(h, k)
      PROVE  IInv'
  <2> DEFINE i == handles[h].idx
             e == [dir[i] EXCEPT !.size = k]
  <2>1. Ready /\ i \in 1 .. Count /\ k \in Nat
    BY <1>7, BoundsAssumption DEF SetLength, Live, Sizes
  <2>2. e \in Entry /\ e.name = dir[i].name
    BY <2>1, OpenDrive DEF Entry
  <2>3. dir' = [dir EXCEPT ![i] = e]
    BY <1>7 DEF SetLength
  <2>4. dir' \in Directory(Count) /\ \A j \in 1 .. Count : dir'[j].name = dir[j].name
    BY <2>1, <2>2, <2>3, OpenDrive DEF Directory
  <2>5. header' \in Header /\ header'.count = Count
    BY <1>7, <2>1, OpenDrive DEF SetLength, Header, Count
  <2> QED
    BY <1>7, <1>0, <1>a, <2>1, <2>4, <2>5, OpenDrive, DirectoryIInv DEF SetLength, disk
<1> QED BY <1>1, <1>2, <1>3, <1>4, <1>6, <1>7 DEF HandleSteps

\* Erasing, renaming and stamping a file keep it: erasing enters every entry that
\* moves again, renaming moves one name.
LEMMA DriveIInv ==
    ASSUME IInv,
           \/ \E n \in Names : FileErase(n)
           \/ \E n, m \in Names : FileRename(n, m)
           \/ \E n \in Names, t \in Times : SetTimeStamp(n, t)
           \/ \E v \in 0 .. MaxUserData : SetHeaderUserData(v)
    PROVE  IInv'
<1> USE DEF Ready, Idle
<1>0. /\ handles \in [Handles -> Handle]
      /\ cells \in [Offsets -> Data \cup {Empty}] /\ changed \in BOOLEAN
      /\ writer \in Handles \cup {NoHandle}
      /\ DOMAIN fmap \subseteq Names \cup {JunkName}
  BY DEF IInv, TypeOK
<1>1. ASSUME NEW n \in Names, FileErase(n)
      PROVE  IInv'
  <2> DEFINE i == fmap[n]
             kept == [m \in DOMAIN fmap \ {n} |-> fmap[m]]
  <2>1. Ready /\ i \in 1 .. Count /\ n \in DOMAIN fmap /\ dir[i].name = n
    BY <1>1, OpenDrive DEF FileErase, Found
  <2>2. header' \in Header /\ header'.count = Count - 1
    <3>1. Count - 1 \in Nat
      BY <2>1, OpenDrive
    <3>2. header' = [header EXCEPT !.count = Count - 1, !.needPack = TRUE]
      BY <1>1 DEF FileErase
    <3> QED BY <2>1, <3>1, <3>2, OpenDrive DEF Header
  <2>3. /\ dir' \in Directory(Count - 1)
        /\ \A k \in 1 .. Count - 1 : dir'[k] = IF k < i THEN dir[k] ELSE dir[k + 1]
    BY <1>1, <2>1, OpenDrive, WithoutType DEF FileErase
  <2>4. Entered(fmap', kept, dir', i, Count - 1)
    <3>1. fmap' = MapFrom(kept, dir', i, Count - 1)
      BY <1>1 DEF FileErase
    <3>2. i \in Nat /\ Count - 1 \in Int
      BY <2>1, OpenDrive
    <3> HIDE DEF i, kept
    <3> QED BY <3>1, <3>2, MapFromEnters
  <2>5. NamesIn(dir', i, Count - 1) \subseteq Names \cup {JunkName}
    BY <2>1, <2>3, OpenDrive DEF NamesIn, Directory, Entry
  <2>6. DOMAIN fmap' \subseteq Names \cup {JunkName}
    BY <1>0, <2>4, <2>5 DEF Entered
  <2>7. ASSUME NEW m \in DOMAIN fmap'
        PROVE  fmap'[m] \in 1 .. Count - 1 /\ dir'[fmap'[m]].name = m
    <3>1. CASE m \in NamesIn(dir', i, Count - 1)
      BY <2>1, <2>4, <3>1, OpenDrive DEF Entered
    <3>2. CASE m \notin NamesIn(dir', i, Count - 1)
      <4>1. m \in DOMAIN kept /\ m # n /\ fmap'[m] = fmap[m]
        BY <2>4, <2>7, <3>2 DEF Entered
      <4>2. fmap[m] \in 1 .. Count /\ dir[fmap[m]].name = m /\ fmap[m] # i
        BY <2>1, <4>1, OpenDrive
      <4>3. ASSUME fmap[m] > i PROVE FALSE
        <5>1. fmap[m] - 1 \in i .. Count - 1 /\ dir'[fmap[m] - 1] = dir[fmap[m]]
          BY <2>1, <2>3, <4>2, <4>3, OpenDrive, SMTT(30)
        <5> QED BY <3>2, <4>2, <5>1 DEF NamesIn
      <4> QED BY <2>1, <2>3, <4>1, <4>2, <4>3, OpenDrive
    <3> QED BY <3>1, <3>2
  <2> QED
    BY <1>0, <1>1, <2>1, <2>2, <2>3, <2>6, <2>7, DirectoryIInv DEF FileErase, disk
<1>2. ASSUME NEW n \in Names, NEW m \in Names, FileRename(n, m)
      PROVE  IInv'
  <2> DEFINE i == fmap[n]
             e == [dir[i] EXCEPT !.name = m]
  <2>1. Ready /\ i \in 1 .. Count /\ n \in DOMAIN fmap /\ dir[i].name = n
    BY <1>2, OpenDrive DEF FileRename, Found
  <2>2. e \in Entry /\ e.name = m
    BY <2>1, OpenDrive DEF Entry
  <2>3. dir' = [dir EXCEPT ![i] = e] /\ header' = header
    BY <1>2 DEF FileRename
  <2>4. dir' \in Directory(Count) /\ dir'[i] = e
        /\ \A k \in 1 .. Count : k # i => dir'[k] = dir[k]
    BY <2>1, <2>2, <2>3, OpenDrive DEF Directory
  <2>5. /\ DOMAIN fmap' = (DOMAIN fmap \ {n}) \cup {m} /\ fmap'[m] = i
        /\ \A k \in DOMAIN fmap \ {n} : k # m => fmap'[k] = fmap[k]
    BY <1>2 DEF FileRename
  <2>6. handles' \in [Handles -> Handle]
    BY <1>0, <1>2 DEF FileRename, Handle
  <2>7. \A k \in DOMAIN fmap' : fmap'[k] \in 1 .. Count /\ dir'[fmap'[k]].name = k
    BY <2>1, <2>2, <2>4, <2>5, OpenDrive, ZenonT(40)
  <2>8. DOMAIN fmap' \subseteq Names \cup {JunkName}
    BY <1>0, <2>5
  <2> QED
    BY <1>0, <1>2, <2>1, <2>3, <2>4, <2>6, <2>7, <2>8, OpenDrive, DirectoryIInv
       DEF FileRename, disk, Count
<1>3. ASSUME NEW n \in Names, NEW t \in Times, SetTimeStamp(n, t)
      PROVE  IInv'
  <2> DEFINE i == fmap[n]
             e == [dir[i] EXCEPT !.time = t]
  <2>1. Ready /\ i \in 1 .. Count
    BY <1>3, OpenDrive DEF SetTimeStamp, Found
  <2>2. e \in Entry /\ e.name = dir[i].name
    BY <2>1, OpenDrive DEF Entry
  <2>3. dir' = [dir EXCEPT ![i] = e]
    BY <1>3 DEF SetTimeStamp
  <2>4. dir' \in Directory(Count) /\ \A k \in 1 .. Count : dir'[k].name = dir[k].name
    BY <2>1, <2>2, <2>3, OpenDrive DEF Directory
  <2> QED
    BY <1>0, <1>3, <2>1, <2>4, OpenDrive, DirectoryIInv DEF SetTimeStamp, disk, Count
<1>4. ASSUME NEW v \in 0 .. MaxUserData, SetHeaderUserData(v)
      PROVE  IInv'
  <2>1. Ready
    BY <1>4 DEF SetHeaderUserData
  <2>2. header' \in Header /\ header'.count = Count
    BY <1>4, <2>1, OpenDrive DEF SetHeaderUserData, Header, Count
  <2> QED
    BY <1>0, <1>4, <2>1, <2>2, OpenDrive, DirectoryIInv DEF SetHeaderUserData, disk
<1> QED BY <1>1, <1>2, <1>3, <1>4

\* What is read from an entry is data.
LEMMA ContentsType ==
    ASSUME NEW e \in Entry, NEW c \in [Offsets -> Data \cup {Empty}]
    PROVE  Contents(e, c) \in [1 .. e.size -> Data \cup {Empty}]
BY DEF Contents, Entry

\* Copying a file into a drive leaves a drive (FileCopy()).
LEMMA CopyType ==
    ASSUME NEW v, v.next \in Nat \ {0}, v.header \in Header,
           v.dir \in Directory(v.header.count),
           v.cells \in [Offsets -> Data \cup {Empty}],
           NEW n \in Names \cup {JunkName}, NEW t \in Times \cup {0}, NEW size \in Nat,
           NEW c \in [1 .. size -> Data \cup {Empty}]
    PROVE  LET w == CopyInto(v, n, t, c, size)
           IN /\ w.next \in Nat \ {0} /\ w.header \in Header
              /\ w.dir \in Directory(w.header.count)
              /\ w.cells \in [Offsets -> Data \cup {Empty}]
<1> DEFINE count == v.header.count
           same == {k \in 1 .. count : v.dir[k].name = n}
           k == IF same = {} THEN count + 1 ELSE CHOOSE i \in same : TRUE
           fits == same # {} /\ size <= v.dir[k].size
           at == IF fits THEN v.dir[k].offset ELSE v.header.dirOffset
           e == [name |-> n, time |-> t, offset |-> at, size |-> size]
           w == CopyInto(v, n, t, c, size)
<1>1. count \in Nat /\ v.header.dirOffset \in Nat
  BY DEF Header
<1>2. same # {} => k \in 1 .. count
  OBVIOUS
<1>3. at \in Nat
  BY <1>1, <1>2 DEF Directory, Entry
<1>4. e \in Entry
  BY <1>3 DEF Entry
<1>5. /\ w.next = v.next + 1
      /\ w.header.count = IF same = {} THEN count + 1 ELSE count
      /\ w.dir = IF same = {} THEN Append1(v.dir, count, e) ELSE [v.dir EXCEPT ![k] = e]
  BY DEF CopyInto, Header
<1>6. w.header \in Header
  <2> DEFINE repack == same # {} /\ (~fits \/ size < v.dir[k].size)
             newCount == IF same = {} THEN count + 1 ELSE count
             newOffset == IF fits THEN v.header.dirOffset ELSE at + size
             newPack == v.header.needPack \/ repack
  <2>1. w.header = [v.header EXCEPT !.count = newCount, !.dirOffset = newOffset,
                                    !.needPack = newPack]
    BY DEF CopyInto
  <2>2. newCount \in Nat /\ newOffset \in Nat
    <3> HIDE DEF at, fits, same, count
    <3> QED BY <1>1, <1>3
  <2>3. newPack \in BOOLEAN
    <3> HIDE DEF repack
    <3> QED OBVIOUS
  <2> HIDE DEF w, newCount, newOffset, newPack
  <2> QED BY <2>1, <2>2, <2>3 DEF Header
<1>7. w.cells \in [Offsets -> Data \cup {Empty}]
  <2>1. w.cells = [o \in Offsets |-> IF o \in at .. at + size - 1
                                     THEN c[o - at + 1] ELSE v.cells[o]]
    BY DEF CopyInto
  <2> HIDE DEF at, w
  <2>2. ASSUME NEW o \in Offsets, o \in at .. at + size - 1
        PROVE  c[o - at + 1] \in Data \cup {Empty}
    <3>1. o - at + 1 \in 1 .. size
      BY <1>3, <2>2
    <3> QED BY <3>1
  <2> QED BY <2>1, <2>2, SMTT(30)
<1>8. w.dir \in Directory(w.header.count)
  <2>1. CASE same = {}
    <3> HIDE DEF e, same, w, count
    <3> QED BY <1>1, <1>4, <1>5, <2>1, AppendType DEF count
  <2>2. CASE same # {}
    <3> HIDE DEF e, same, w, k
    <3> QED BY <1>2, <1>4, <1>5, <2>2 DEF Directory
  <2> QED BY <2>1, <2>2
<1> HIDE DEF w, e, k, same, count
<1>9. w.next \in Nat \ {0}
  BY <1>5
<1> QED BY <1>6, <1>7, <1>8, <1>9 DEF w

\* The steps of Pack() keep the invariant.
LEMMA PackIInv ==
    ASSUME IInv,
           PackUnchanged \/ PackHeader \/ PackFile \/ PackFails \/ PackReplace \/ PackReopen
    PROVE  IInv'
<1> USE DEF Ready, Idle
<1>1. ASSUME StartCopy
      PROVE  /\ temp'.next \in Nat \ {0} /\ temp'.header \in Header
             /\ temp'.dir \in Directory(temp'.header.count)
             /\ temp'.cells \in [Offsets -> Data \cup {Empty}]
  <2>1. header.userData \in 0 .. MaxUserData
    BY DEF IInv, TypeOK, Header
  <2>2. [FreshHeader EXCEPT !.userData = header.userData] \in Header
    BY <2>1, FreshTypes DEF Header
  <2>3. [FreshHeader EXCEPT !.userData = header.userData].count = 0
    BY FreshTypes DEF Header
  <2> DEFINE fresh == [FreshHeader EXCEPT !.userData = header.userData]
  <2>4. temp' = [next |-> 1, header |-> fresh, dir |-> NoDir, cells |-> NoCells]
    BY <1>1 DEF StartCopy
  <2>5. NoDir \in Directory(fresh.count) /\ NoCells \in [Offsets -> Data \cup {Empty}]
    BY <2>3, FreshTypes
  <2>6. fresh \in Header
    BY <2>2
  <2> HIDE DEF fresh
  <2> QED BY <2>4, <2>5, <2>6
<1>2. CASE PackUnchanged
  <2>1. TypeOK'
    BY <1>1, <1>2 DEF PackUnchanged, IInv, TypeOK, memory, disk, Count
  <2>2. MapSound' /\ Phase'
    BY <1>2 DEF PackUnchanged, PackGuard, IInv, MapSound, Phase, memory, Count
  <2> QED BY <2>1, <2>2 DEF IInv
<1>3. CASE PackHeader
  <2>1. TypeOK'
    BY <1>1, <1>3 DEF PackHeader, WriteHeader, IInv, TypeOK, Count
  <2>2. MapSound' /\ Phase'
    BY <1>3 DEF PackHeader, IInv, MapSound, Phase, Count
  <2> QED BY <2>1, <2>2 DEF IInv
<1>4. CASE PackFile
  <2> DEFINE i == temp.next
             src == EntryOf(dir[i].name)
  <2>1. isOpen /\ dir \in Directory(Count) /\ i \in 1 .. Count /\ dir[i] \in Entry
    BY <1>4 DEF PackFile, IInv, TypeOK, Phase, Directory, Count, Header
  <2>2. src \in Entry
    BY <1>4, <2>1 DEF PackFile, Copyable, Found, EntryOf, IInv, MapSound, Directory
  <2>3. /\ dir[i].name \in Names \cup {JunkName} /\ dir[i].time \in Times \cup {0}
        /\ src.size \in Nat
    BY <2>1, <2>2 DEF Entry
  <2>4. Contents(src, cells) \in [1 .. src.size -> Data \cup {Empty}]
    BY <2>2, ContentsType DEF IInv, TypeOK
  <2>5. /\ temp'.next \in Nat \ {0} /\ temp'.header \in Header
        /\ temp'.dir \in Directory(temp'.header.count)
        /\ temp'.cells \in [Offsets -> Data \cup {Empty}]
    <3>1. temp' = CopyInto(temp, dir[i].name, dir[i].time, Contents(src, cells), src.size)
      BY <1>4 DEF PackFile
    <3>2. /\ temp.next \in Nat \ {0} /\ temp.header \in Header
          /\ temp.dir \in Directory(temp.header.count)
          /\ temp.cells \in [Offsets -> Data \cup {Empty}]
      BY SMTT(30) DEF IInv, TypeOK
    <3> HIDE DEF i, src
    <3> QED BY <2>3, <2>4, <3>1, <3>2, CopyType, Zenon
  <2>6. TypeOK'
    BY <1>4, <2>5 DEF PackFile, IInv, TypeOK, memory, disk, Count
  <2>7. MapSound' /\ Phase'
    BY <1>4 DEF PackFile, IInv, MapSound, Phase, memory, Count
  <2> QED BY <2>6, <2>7 DEF IInv
<1>5. CASE PackFails
  <2>1. TypeOK'
    BY <1>5, FreshTypes DEF PackFails, IInv, TypeOK, memory, disk, Count
  <2>2. MapSound' /\ Phase'
    BY <1>5 DEF PackFails, IInv, MapSound, Phase, memory, Count
  <2> QED BY <2>1, <2>2 DEF IInv
<1>6. CASE PackReplace
  <2>1. /\ temp'.next \in Nat \ {0} /\ temp'.header \in Header
        /\ temp'.dir \in Directory(temp'.header.count)
        /\ temp'.cells \in [Offsets -> Data \cup {Empty}]
        /\ diskHeader' \in Header
    <3>1. temp.header.count \in Nat
      BY DEF IInv, TypeOK, Header
    <3>2. PICK d \in Sorted(temp.dir, temp.header.count) :
              temp' = [next |-> temp.next, header |-> temp.header, dir |-> d,
                       cells |-> temp.cells]
      BY <1>6 DEF PackReplace
    <3>3. d \in Directory(temp.header.count)
      BY <3>1, SortedType DEF IInv, TypeOK
    <3> QED BY <1>6, <3>2, <3>3, FreshTypes DEF PackReplace, IInv, TypeOK
  <2>2. TypeOK'
    BY <1>6, <2>1, FreshTypes DEF PackReplace, CloseFiles, IInv, TypeOK
  <2>3. MapSound' /\ Phase'
    BY <1>6 DEF PackReplace, CloseFiles, MapSound, Phase
  <2> QED BY <2>2, <2>3 DEF IInv
<1>7. CASE PackReopen
  <2>1. /\ temp.header \in Header /\ temp.header.count \in Nat
        /\ temp.header.dirOffset \in Nat
        /\ temp.dir \in Directory(temp.header.count)
        /\ temp.cells \in [Offsets -> Data \cup {Empty}]
    BY DEF IInv, TypeOK, Header
  <2>2. header' = temp.header /\ dir' = temp.dir /\ isOpen' = TRUE
    BY <1>7 DEF PackReopen
  <2>3. Entered(fmap', fmap, dir', 1, header'.count) /\ DOMAIN fmap = {}
    BY <1>7, <2>1, <2>2, MapFromFirstEnters, FreshTypes
       DEF PackReopen, IInv, TypeOK, Phase
  <2>4. NamesIn(dir', 1, header'.count) \subseteq Names \cup {JunkName}
    BY <2>1, <2>2 DEF NamesIn, Directory, Entry
  <2>5. DOMAIN fmap' \subseteq Names \cup {JunkName}
    BY <2>3, <2>4 DEF Entered
  <2>6. diskDir'.at \in Nat /\ \A i \in DOMAIN diskDir'.dir : diskDir'.dir[i] \in Entry
    BY <1>7, <2>1 DEF PackReopen, Directory
  <2>7. TypeOK'
    BY <1>7, <2>1, <2>2, <2>5, <2>6, FreshTypes DEF PackReopen, IInv, TypeOK, Count
  <2>8. MapSound' /\ Phase'
    BY <1>7, <2>2, <2>3 DEF PackReopen, MapSound, Phase, Entered, Count
  <2> QED BY <2>7, <2>8 DEF IInv
<1> QED BY <1>2, <1>3, <1>4, <1>5, <1>6, <1>7

\* Every step keeps the invariant.
LEMMA NextIInv == IInv /\ [Next]_driveVars => IInv'
<1> SUFFICES ASSUME IInv, [Next]_driveVars PROVE IInv'
  OBVIOUS
<1>1. ASSUME NEW h \in Handles, HandleSteps(h) PROVE IInv'
  BY <1>1, FileIInv
<1>2. CASE Construct \/ Create \/ (\E ro \in BOOLEAN : Open(ro) \/ OpenFails(ro))
           \/ CloseUnchanged \/ CloseHeader
  BY <1>2, OpenCloseIInv
<1>3. CASE Flush \/ Close \/ Pack
  BY <1>3, FlushIInv DEF Flush, Close, Pack
<1>4. CASE FlushHeader
  BY <1>4, FlushHeaderIInv
<1>5. CASE \/ \E n \in Names : FileErase(n)
           \/ \E n, m \in Names : FileRename(n, m)
           \/ \E n \in Names, t \in Times : SetTimeStamp(n, t)
           \/ \E v \in 0 .. MaxUserData : SetHeaderUserData(v)
  BY <1>5, DriveIInv
<1>6. CASE PackUnchanged \/ PackHeader \/ PackFile \/ PackFails \/ PackReplace \/ PackReopen
  BY <1>6, PackIInv
<1>7. CASE UNCHANGED driveVars
  BY <1>7, StutterIInv
<1> QED BY <1>1, <1>2, <1>3, <1>4, <1>5, <1>6, <1>7 DEF Next, PackSteps

(***************************************************************************)
(* What Pack() copies                                                      *)
(***************************************************************************)
\* An injective map of 1 .. n into itself reaches every number.
LEMMA InjectionOnto ==
    ASSUME NEW n \in Nat, NEW q \in [1 .. n -> 1 .. n],
           \A i, j \in 1 .. n : q[i] = q[j] => i = j,
           NEW k \in 1 .. n
    PROVE  \E i \in 1 .. n : q[i] = k
<1>1. q \in Injection(1 .. n, 1 .. n)
  BY DEF Injection, IsInjective
<1>2. IsFiniteSet(1 .. n)
  BY FS_Interval
<1>3. q \in Surjection(1 .. n, 1 .. n)
  BY <1>1, <1>2, FS_Injection
<1> QED BY <1>3 DEF Surjection

\* A sorted directory has the entries it had before, and no others.
LEMMA SortedEntries ==
    ASSUME NEW n \in Nat, NEW d \in Directory(n), NEW e \in Sorted(d, n)
    PROVE  /\ \A i \in 1 .. n : \E k \in 1 .. n : e[i] = d[k]
           /\ \A k \in 1 .. n : \E i \in 1 .. n : e[i] = d[k]
<1>1. PICK q \in [1 .. n -> 1 .. n] : /\ \A i, j \in 1 .. n : q[i] = q[j] => i = j
                                      /\ e = [i \in 1 .. n |-> d[q[i]]]
  BY DEF Sorted
<1>2. \A i \in 1 .. n : e[i] = d[q[i]] /\ q[i] \in 1 .. n
  BY <1>1
<1>3. ASSUME NEW k \in 1 .. n PROVE \E i \in 1 .. n : q[i] = k
  BY <1>1, InjectionOnto, ZenonT(60)
<1>4. ASSUME NEW k \in 1 .. n PROVE \E i \in 1 .. n : e[i] = d[k]
  <2>1. PICK i \in 1 .. n : q[i] = k
    BY <1>3
  <2>2. e[i] = d[k]
    BY <1>2, <2>1
  <2> QED BY <2>2
<1>5. ASSUME NEW i \in 1 .. n PROVE \E k \in 1 .. n : e[i] = d[k]
  BY <1>2
<1> QED BY <1>4, <1>5

\* Every cell of the drive v between the header and the directory is a file's.
Full(v) == \A o \in HeaderEnd .. v.header.dirOffset - 1 :
              \E k \in 1 .. v.header.count : o \in Extent(v.dir[k])

\* What the temporary drive v holds: each of its files once, with the contents the
\* drive being packed has under its name, in cells below its directory, and every
\* file the loop is past.
Copies(v, k) == LET new == v.dir[k]
                    old == EntryOf(new.name)
                IN /\ new.name \in DOMAIN fmap
                   /\ new.size = old.size /\ new.offset >= HeaderEnd
                   /\ new.offset + new.size <= v.header.dirOffset
                   /\ Contents(new, v.cells) = Contents(old, cells)
CopiesAll(v) ==
    /\ \A k \in 1 .. v.header.count : Copies(v, k)
    /\ \A j, k \in 1 .. v.header.count : v.dir[j].name = v.dir[k].name => j = k
    /\ v.header.dirOffset \in HeaderEnd .. MaxOffset + 1
    /\ v.next \in 1 .. Count + 1
    /\ \A i \in 1 .. v.next - 1 : \E k \in 1 .. v.header.count : v.dir[k].name = dir[i].name
    /\ Full(v)
Drive(v) == /\ v.next \in Nat \ {0} /\ v.header \in Header
            /\ v.dir \in Directory(v.header.count)
            /\ v.cells \in [Offsets -> Data \cup {Empty}]

PackInv == /\ IInv
           /\ pc = "copy" => CopiesAll(temp)
           /\ pc = "replace" => Full(temp)

\* The drive w is v with a new entry for the file n behind the others.
Appends(w, v, n, t, size, c) ==
    LET at == v.header.dirOffset
    IN /\ w.next = v.next + 1
       /\ w.header.count = v.header.count + 1
       /\ w.header.dirOffset = at + size
       /\ w.dir = Append1(v.dir, v.header.count,
                          [name |-> n, time |-> t, offset |-> at, size |-> size])
       /\ w.cells = [o \in Offsets |-> IF o \in at .. at + size - 1
                                       THEN c[o - at + 1] ELSE v.cells[o]]

\* The drive w is v with the file n written over its entry k.
Replaces(w, v, k, n, t, size, c) ==
    LET at == v.dir[k].offset
    IN /\ w.next = v.next + 1
       /\ w.header.count = v.header.count
       /\ w.header.dirOffset = v.header.dirOffset
       /\ w.dir = [v.dir EXCEPT ![k] = [name |-> n, time |-> t, offset |-> at,
                                        size |-> size]]
       /\ w.cells = [o \in Offsets |-> IF o \in at .. at + size - 1
                                       THEN c[o - at + 1] ELSE v.cells[o]]

\* Copying a file that is not there yet puts it behind the others.
LEMMA CopyAppends ==
    ASSUME NEW v, Drive(v), NEW n, NEW t, NEW size \in Nat, NEW c,
           \A k \in 1 .. v.header.count : v.dir[k].name # n
    PROVE  Appends(CopyInto(v, n, t, c, size), v, n, t, size, c)
<1> DEFINE same == {k \in 1 .. v.header.count : v.dir[k].name = n}
<1>1. same = {}
  OBVIOUS
<1> QED BY <1>1 DEF CopyInto, Header, Drive, Appends

\* Copying a file again that fits its entry writes over it.
LEMMA CopyReplaces ==
    ASSUME NEW v, Drive(v), NEW n, NEW t, NEW size \in Nat, NEW c,
           NEW k \in 1 .. v.header.count, v.dir[k].name = n, size <= v.dir[k].size,
           \A i \in 1 .. v.header.count : v.dir[i].name = n => i = k
    PROVE  Replaces(CopyInto(v, n, t, c, size), v, k, n, t, size, c)
<1> DEFINE same == {i \in 1 .. v.header.count : v.dir[i].name = n}
           j == IF same = {} THEN v.header.count + 1 ELSE CHOOSE i \in same : TRUE
<1>1. same = {k}
  OBVIOUS
<1>2. j = k
  BY <1>1
<1> QED BY <1>1, <1>2 DEF CopyInto, Header, Drive, Replaces

\* One turn of the loop: whether the file is new to the temporary drive or its
\* entry is there already, which is then of the same size.
LEMMA CopyKeeps ==
    ASSUME IInv, isOpen, Drive(temp), CopiesAll(temp), PackFile
    PROVE  CopiesAll(temp)'
<1> DEFINE v == temp
           n == dir[temp.next].name
           t == dir[temp.next].time
           src == EntryOf(n)
           size == src.size
           c == Contents(src, cells)
           N == v.header.count
           D == v.header.dirOffset
<1>1. /\ temp.next \in 1 .. Count /\ Count \in Nat /\ MaxOffset \in Nat
      /\ n \in DOMAIN fmap /\ src \in Entry
      /\ D + size - 1 <= MaxOffset
      /\ temp' = CopyInto(v, n, t, c, size)
      /\ UNCHANGED <<dir, fmap, cells, Count>>
  <2>1. /\ temp.next <= Count /\ Copyable(n) /\ temp' = CopyInto(v, n, t, c, size)
        /\ UNCHANGED <<dir, fmap, cells, header>>
    BY DEF PackFile, memory, disk
  <2>2. Count \in Nat /\ temp.next \in Nat \ {0}
    BY DEF IInv, TypeOK, Header, Count
  <2>3. fmap[n] \in 1 .. Count /\ dir \in Directory(Count)
    BY <2>1 DEF Copyable, Found, IInv, MapSound, TypeOK
  <2> QED BY <2>1, <2>2, <2>3, BoundsAssumption DEF Copyable, Found, EntryOf, Directory, Count
<1>2. /\ N \in Nat /\ D \in HeaderEnd .. MaxOffset + 1 /\ size \in Nat /\ src.size \in Nat
      /\ v.dir \in Directory(N) /\ \A k \in 1 .. N : v.dir[k] \in Entry
      /\ HeaderEnd = 1
  BY <1>1 DEF CopiesAll, Drive, Header, Entry, Directory, HeaderEnd
<1>3. src.name = n
  BY <1>1 DEF IInv, MapSound, EntryOf
<1>4. DOMAIN c = 1 .. size
  BY DEF Contents
<1>5. \A x : EntryOf(x)' = EntryOf(x)
  BY <1>1 DEF EntryOf
<1>6. ASSUME NEW e, Contents(e, v.cells) = c, e.size = size, e.offset \in Nat, e.offset >= 1,
             e.offset + size <= D, NEW o \in e.offset .. e.offset + size - 1
      PROVE  o \in Offsets /\ v.cells[o] = c[o - e.offset + 1]
  <2> DEFINE k == o - e.offset + 1
  <2>1. k \in 1 .. size /\ e.offset + k - 1 = o /\ o \in Offsets
    BY <1>1, <1>2, <1>6 DEF Offsets
  <2> HIDE DEF k
  <2>2. Contents(e, v.cells)[k] = v.cells[o]
    BY <1>6, <2>1 DEF Contents
  <2> QED BY <1>6, <2>1, <2>2 DEF k
<1>9. n = dir[temp.next].name /\ size = EntryOf(n).size /\ c = Contents(EntryOf(n), cells)
  OBVIOUS
<1> HIDE DEF n, t, src, size, c
<1>7. CASE \E k \in 1 .. N : v.dir[k].name = n
  <2>1. PICK k \in 1 .. N : v.dir[k].name = n
    BY <1>7
  <2> DEFINE at == v.dir[k].offset
             e == [name |-> n, time |-> t, offset |-> at, size |-> size]
  <2>2. /\ v.dir[k].size = size /\ at >= 1 /\ at + size <= D /\ at \in Nat
        /\ Contents(v.dir[k], v.cells) = c
    BY <1>2, <1>9, <2>1 DEF CopiesAll, Copies, Entry
  <2>3. \A i \in 1 .. N : v.dir[i].name = n => i = k
    BY <2>1 DEF CopiesAll
  <2>4. /\ temp'.next = v.next + 1 /\ temp'.header.count = N /\ temp'.header.dirOffset = D
        /\ temp'.dir = [v.dir EXCEPT ![k] = e]
        /\ temp'.cells = [o \in Offsets |-> IF o \in at .. at + size - 1
                                            THEN c[o - at + 1] ELSE v.cells[o]]
    <3>1. size <= v.dir[k].size /\ size \in Nat /\ v.header.count = N /\ k \in 1 .. N
      BY <1>2, <2>1, <2>2
    <3>2. Replaces(CopyInto(temp, n, t, c, size), temp, k, n, t, size, c)
      <4>1. Drive(temp) /\ size \in Nat /\ k \in 1 .. temp.header.count
        BY <1>2, <2>1
      <4>2. /\ temp.dir[k].name = n /\ size <= temp.dir[k].size
            /\ \A i \in 1 .. temp.header.count : temp.dir[i].name = n => i = k
        BY <2>1, <2>3, <3>1
      <4> QED BY ONLY <4>1, <4>2, CopyReplaces, Zenon
    <3>3. temp' = CopyInto(temp, n, t, c, size)
      BY <1>1
    <3> QED BY <3>2, <3>3 DEF Replaces
  <2>5. temp'.cells = v.cells
    <3>1. \A o \in at .. at + size - 1 : o \in Offsets /\ v.cells[o] = c[o - at + 1]
      BY <1>6, <2>2
    <3> HIDE DEF c, at, size, v
    <3> QED BY <2>4, <3>1 DEF Drive, v
  <2>6. \A i \in 1 .. N : /\ temp'.dir[i].name = v.dir[i].name
                          /\ temp'.dir[i].size = v.dir[i].size
                          /\ temp'.dir[i].offset = v.dir[i].offset
    BY <1>2, <2>1, <2>2, <2>4 DEF Directory
  <2>7. ASSUME NEW i \in 1 .. N PROVE Copies(temp, i)'
    <3>1. Copies(temp, i)
      BY DEF CopiesAll
    <3>2. Contents(temp'.dir[i], temp'.cells) = Contents(v.dir[i], v.cells)
      BY <2>5, <2>6 DEF Contents
    <3> QED BY <1>1, <1>5, <2>4, <2>6, <3>1, <3>2 DEF Copies
  <2>8. Full(temp)'
    BY <2>4, <2>6 DEF CopiesAll, Full, Extent
  <2>9. \A i \in 1 .. temp'.next - 1 : \E j \in 1 .. N : temp'.dir[j].name = dir'[i].name
    <3>1. ASSUME NEW i \in 1 .. v.next - 1 PROVE \E j \in 1 .. N : temp'.dir[j].name = dir[i].name
      BY <2>6 DEF CopiesAll
    <3>2. temp'.dir[k].name = dir[v.next].name
      BY <1>9, <2>1, <2>6
    <3> QED BY <1>1, <2>1, <2>4, <3>1, <3>2
  <2>10. \A i, j \in 1 .. N : temp'.dir[i].name = temp'.dir[j].name => i = j
    BY <2>6 DEF CopiesAll
  <2>11. temp'.next \in 1 .. Count' + 1
    BY <1>1, <2>4
  <2> QED BY <1>1, <1>2, <2>4, <2>7, <2>8, <2>9, <2>10, <2>11 DEF CopiesAll
<1>8. CASE ~ \E k \in 1 .. N : v.dir[k].name = n
  <2> DEFINE e == [name |-> n, time |-> t, offset |-> D, size |-> size]
  <2>1. /\ temp'.next = v.next + 1 /\ temp'.header.count = N + 1
        /\ temp'.header.dirOffset = D + size
        /\ temp'.dir = Append1(v.dir, N, e)
        /\ temp'.cells = [o \in Offsets |-> IF o \in D .. D + size - 1
                                            THEN c[o - D + 1] ELSE v.cells[o]]
    <3>1. Appends(CopyInto(temp, n, t, c, size), temp, n, t, size, c)
      <4>1. Drive(temp) /\ size \in Nat /\ \A k \in 1 .. temp.header.count : temp.dir[k].name # n
        BY <1>2, <1>8
      <4> QED BY ONLY <4>1, CopyAppends, Zenon
    <3>2. temp' = CopyInto(temp, n, t, c, size)
      BY <1>1
    <3> QED BY <3>1, <3>2 DEF Appends
  <2>2. /\ \A i \in 1 .. N : temp'.dir[i] = v.dir[i]
        /\ temp'.dir[N + 1] = e
    BY <1>2, <2>1 DEF Append1
  <2>3. ASSUME NEW i \in 1 .. N PROVE Copies(temp, i)'
    <3>1. Copies(temp, i)
      BY DEF CopiesAll
    <3>2. Contents(v.dir[i], temp'.cells) = Contents(v.dir[i], v.cells)
      <4>1. \A o \in Offsets : o < D => temp'.cells[o] = v.cells[o]
        BY <1>2, <2>1
      <4>2. v.dir[i].offset + v.dir[i].size <= D /\ v.dir[i] \in Entry
        BY <1>2, <3>1 DEF Copies
      <4>3. \A j \in 1 .. v.dir[i].size : v.dir[i].offset + j - 1 < D
        BY <1>2, <4>2 DEF Entry
      <4> QED BY <4>1, <4>3 DEF Contents
    <3>4. v.dir[i].offset + v.dir[i].size <= D + size
      BY <1>2, <3>1 DEF Copies, Entry
    <3> QED BY <1>1, <1>5, <2>1, <2>2, <3>1, <3>2, <3>4 DEF Copies
  <2>4. ASSUME NEW i, i = N + 1 PROVE Copies(temp, i)'
    <3>1. Contents(e, temp'.cells) = c
      <4>1. ASSUME NEW j \in 1 .. size
            PROVE  /\ D + j - 1 \in Offsets /\ D + j - 1 \in D .. D + size - 1
                   /\ D + j - 1 - D + 1 = j
        BY <1>1, <1>2 DEF Offsets
      <4>2. ASSUME NEW j \in 1 .. size
            PROVE  temp'.cells[D + j - 1] = c[j]
        <5> HIDE DEF D
        <5>1. PICK o : o = D + j - 1
          OBVIOUS
        <5>2. o \in Offsets /\ o \in D .. D + size - 1 /\ o - D + 1 = j
          <6>1. D \in Nat /\ j \in Nat
            BY <1>2, <4>2 DEF HeaderEnd
          <6> QED BY <4>1, <4>2, <5>1, <6>1
        <5>3. temp'.cells[o] = c[o - D + 1]
          BY <2>1, <5>2, SMTT(30)
        <5> QED BY <5>1, <5>2, <5>3
      <4>3. c = [j \in 1 .. size |-> c[j]]
        BY <1>9 DEF Contents
      <4>4. Contents(e, temp'.cells) = [j \in 1 .. size |-> c[j]]
        BY <4>1, <4>2 DEF Contents
      <4> QED BY <4>3, <4>4
    <3>2. /\ temp'.dir[N + 1].name = n /\ temp'.dir[N + 1].size = size
          /\ temp'.dir[N + 1].offset = D /\ temp'.header.dirOffset = D + size
          /\ Contents(temp'.dir[N + 1], temp'.cells) = c
      BY <2>1, <2>2, <3>1
    <3>3. D >= HeaderEnd /\ D + size <= temp'.header.dirOffset
      BY <1>2, <3>2
    <3>4. /\ n \in DOMAIN fmap' /\ size = EntryOf(n).size
          /\ c = Contents(EntryOf(n), cells')
      BY <1>1, <1>9
    <3> HIDE DEF D, N, v
    <3> QED BY <1>5, <2>4, <3>2, <3>3, <3>4 DEF Copies
  <2>5. ASSUME NEW i \in 1 .. N + 1 PROVE Copies(temp, i)'
    <3>1. i \in 1 .. N \/ i = N + 1
      BY <1>2
    <3> QED BY <2>3, <2>4, <3>1
  <2>6. Full(temp)'
    <3>1. ASSUME NEW o \in HeaderEnd .. D - 1
          PROVE  \E k \in 1 .. N + 1 : o \in Extent(temp'.dir[k])
      BY <1>2, <2>2 DEF CopiesAll, Full
    <3>2. ASSUME NEW o \in D .. D + size - 1
          PROVE  o \in Extent(temp'.dir[N + 1])
      BY <2>2 DEF Extent
    <3> QED BY <1>2, <2>1, <3>1, <3>2 DEF Full
  <2>7. \A i \in 1 .. temp'.next - 1 :
            \E j \in 1 .. N + 1 : temp'.dir[j].name = dir'[i].name
    <3>1. ASSUME NEW i \in 1 .. v.next - 1
          PROVE  \E j \in 1 .. N + 1 : temp'.dir[j].name = dir[i].name
      BY <1>2, <2>2 DEF CopiesAll
    <3>2. temp'.dir[N + 1].name = dir[v.next].name
      BY <1>9, <2>2
    <3>3. /\ N + 1 \in 1 .. N + 1 /\ dir' = dir /\ temp'.next - 1 = v.next
          /\ v.next \in Nat /\ 1 .. v.next = (1 .. v.next - 1) \cup {v.next}
      BY <1>1, <1>2, <2>1
    <3> HIDE DEF N, v
    <3> QED BY <3>1, <3>2, <3>3
  <2>8. \A i, j \in 1 .. N + 1 : temp'.dir[i].name = temp'.dir[j].name => i = j
    <3>1. \A i \in 1 .. N : temp'.dir[i].name = v.dir[i].name /\ v.dir[i].name # n
      BY <1>8, <2>2
    <3>2. temp'.dir[N + 1].name = n
      BY <2>2
    <3>3. \A i, j \in 1 .. N : v.dir[i].name = v.dir[j].name => i = j
      BY DEF CopiesAll
    <3> HIDE DEF v, e
    <3> QED BY <1>2, <3>1, <3>2, <3>3
  <2>9. temp'.next \in 1 .. Count' + 1 /\ temp'.header.dirOffset \in HeaderEnd .. MaxOffset + 1
    BY <1>1, <1>2, <2>1
  <2> QED BY <1>1, <2>1, <2>5, <2>6, <2>7, <2>8, <2>9 DEF CopiesAll
<1> QED BY <1>7, <1>8

\* Between two turns of the loop nothing but the temporary drive changes; replacing
\* the drive sorts the directory, which keeps its entries.
LEMMA PackInvStep == PackInv /\ [Next]_driveVars => PackInv'
<1> SUFFICES ASSUME PackInv, [Next]_driveVars PROVE PackInv'
  OBVIOUS
<1>1. IInv /\ IInv'
  BY NextIInv DEF PackInv
<1>2. Drive(temp)
  BY <1>1 DEF IInv, TypeOK, Drive
<1>3. ASSUME StartCopy, isOpen, UNCHANGED header PROVE CopiesAll(temp)'
  <2>1. /\ temp'.next = 1 /\ temp'.header.count = 0 /\ temp'.header.dirOffset = HeaderEnd
    BY <1>3 DEF StartCopy, FreshHeader
  <2>2. Count' \in Nat
    BY <1>1 DEF IInv, TypeOK, Header, Count
  <2> QED BY <2>1, <2>2, BoundsAssumption DEF CopiesAll, Full, HeaderEnd
<1>4. CASE PackUnchanged \/ PackHeader
  <2>1. isOpen /\ StartCopy /\ pc' = "copy" /\ UNCHANGED header
    BY <1>1, <1>4 DEF PackUnchanged, PackGuard, Ready, PackHeader, IInv, Phase, memory
  <2> QED BY <1>1, <1>3, <2>1 DEF PackInv
<1>5. CASE PackFile
  <2>1. pc = "copy" /\ pc' = "copy" /\ isOpen
    BY <1>1, <1>5 DEF PackFile, IInv, Phase
  <2> QED BY <1>1, <1>2, <1>5, <2>1, CopyKeeps DEF PackInv
<1>6. CASE PackReplace
  <2>1. pc = "copy" /\ pc' = "replace" /\ temp.header.count \in Nat
    BY <1>2, <1>6 DEF PackReplace, Drive, Header
  <2>2. PICK d \in Sorted(temp.dir, temp.header.count) :
            temp' = [next |-> temp.next, header |-> temp.header, dir |-> d,
                     cells |-> temp.cells]
    BY <1>6 DEF PackReplace
  <2>3. \A k \in 1 .. temp.header.count : \E i \in 1 .. temp.header.count : d[i] = temp.dir[k]
    BY <1>2, <2>1, SortedEntries DEF Drive
  <2>4. temp'.header = temp.header /\ temp'.dir = d
    BY <2>2
  <2>5. Full(temp)
    BY <2>1 DEF PackInv, CopiesAll
  <2>6. Full(temp)'
    BY <2>3, <2>4, <2>5 DEF Full
  <2> QED BY <1>1, <2>1, <2>6 DEF PackInv
<1>7. CASE PackFails \/ PackReopen
  <2>1. pc' = "idle"
    BY <1>7 DEF PackFails, PackReopen
  <2> QED BY <1>1, <2>1 DEF PackInv
<1>8. ASSUME pc' # "copy", pc' # "replace" PROVE PackInv'
  BY <1>1, <1>8 DEF PackInv
<1>9. CASE UNCHANGED driveVars
  <2>1. UNCHANGED <<header, dir, fmap, cells, temp, pc>>
    BY <1>9 DEF driveVars, memory, disk
  <2>2. CopiesAll(temp) => CopiesAll(temp)'
    BY <2>1 DEF CopiesAll, Copies, Full, EntryOf, Count
  <2>3. Full(temp) => Full(temp)'
    BY <2>1 DEF Full
  <2> QED BY <1>1, <2>1, <2>2, <2>3 DEF PackInv
<1>10. CASE Flush \/ FlushHeader \/ Close \/ CloseUnchanged \/ CloseHeader \/ Pack
  <2>1. pc' \in {"idle", "flush", "close", "pack"}
    BY <1>10 DEF Flush, FlushHeader, Close, CloseUnchanged, CloseHeader, Pack,
                 FlushDirectory, Ready, Idle
  <2> QED BY <1>8, <2>1
<1>11. CASE \/ Construct \/ Create
            \/ \E ro \in BOOLEAN : Open(ro) \/ OpenFails(ro)
            \/ \E n \in Names : FileErase(n)
            \/ \E n, m \in Names : FileRename(n, m)
            \/ \E n \in Names, t \in Times : SetTimeStamp(n, t)
            \/ \E v \in 0 .. MaxUserData : SetHeaderUserData(v)
  <2>1. pc' = "idle"
    BY <1>11 DEF Construct, Create, Open, OpenFails, FileErase, FileRename, SetTimeStamp,
                 SetHeaderUserData, Ready, Idle
  <2> QED BY <1>8, <2>1
<1>12. ASSUME NEW h \in Handles, HandleSteps(h) PROVE PackInv'
  <2>1. pc' = "idle"
    BY <1>12 DEF HandleSteps, FileCreate, FileOpen, FileClose, Write, Read, Seek, SeekEnd,
                 SetLength, MovePosition, Ready, Idle
  <2> QED BY <1>8, <2>1
<1> QED BY <1>4, <1>5, <1>6, <1>7, <1>9, <1>10, <1>11, <1>12 DEF Next, PackSteps

\* The invariant holds of every drive.
LEMMA PackInvHolds == Spec => []PackInv
<1>1. DriveInit => PackInv
  BY InitIInv DEF DriveInit, PackInv
<1> QED BY <1>1, PackInvStep, PTL DEF Spec

(***************************************************************************)
(* The theorems                                                            *)
(***************************************************************************)
\* The state of every drive keeps its types: in particular the header's count
\* is always the number of entries of the directory in memory.
THEOREM DriveTypeCorrect == Spec => []TypeOK
<1>1. Spec => []IInv
  BY InitIInv, NextIInv, PTL DEF Spec
<1> QED BY <1>1, PTL DEF IInv

\* The filename map never leads to another file's entry, whatever files were
\* created, erased, renamed, sorted or packed, by any client and for any number
\* of files.
THEOREM FilenameMapSound == Spec => []MapSound
<1>1. Spec => []IInv
  BY InitIInv, NextIInv, PTL DEF Spec
<1> QED BY <1>1, PTL DEF IInv

\* Pack() copies every file it gets to, whatever names and entries the drive has.
THEOREM PackCopiesFiles == Spec => []PackKeepsContents
<1>1. PackInv => PackKeepsContents
  <2> SUFFICES ASSUME PackInv, pc = "copy", NEW i \in 1 .. temp.next - 1
               PROVE  \E k \in 1 .. temp.header.count :
                          /\ temp.dir[k].name = dir[i].name
                          /\ Contents(temp.dir[k], temp.cells)
                               = Contents(EntryOf(dir[i].name), cells)
    BY DEF PackKeepsContents
  <2>1. CopiesAll(temp)
    BY DEF PackInv
  <2>2. PICK k \in 1 .. temp.header.count : temp.dir[k].name = dir[i].name
    BY <2>1 DEF CopiesAll
  <2>3. Copies(temp, k)
    BY <2>1 DEF CopiesAll
  <2> QED BY <2>2, <2>3 DEF Copies
<1> QED BY <1>1, PackInvHolds, PTL

\* What Pack() leaves has no unused space.
THEOREM PackRemovesHoles == Spec => []PackLeavesNoHole
<1>1. PackInv => PackLeavesNoHole
  BY DEF PackInv, PackLeavesNoHole, Full
<1> QED BY <1>1, PackInvHolds, PTL
=============================================================================
