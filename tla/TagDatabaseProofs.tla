-------------------------- MODULE TagDatabaseProofs --------------------------
(***************************************************************************)
(* Proofs about module TagDatabase that hold for every project, every      *)
(* setting of the options, and every crash: the types of a save and a load *)
(* with the drive they use, files that share no cell, the note of unused   *)
(* space, and the count of tags that makes a save pack.                    *)
(*                                                                         *)
(* Nearly every step of the database is a step of its drive, whose         *)
(* invariant it keeps by the lemmas about the drive.  On top of it come    *)
(* the steps of a save and a load, and what is known of a directory        *)
(* wherever there is one: in memory, on disk, and in the temporary drive   *)
(* of Pack().  Last, the database implements TagStore.                     *)
(***************************************************************************)
EXTENDS TagDatabase, VirtualDriveProofs

(***************************************************************************)
(* The jobs and the drive                                                  *)
(***************************************************************************)
\* Between two jobs, and until a job has opened the drive, the drive is closed; a
\* refresh never opens it.  A save packs and closes after its last file; a load
\* ends with closing.
JobPhase ==
    /\ job \in {"none", "parse", "saveOpen", "saveCreate", "loadOpen"} => pc = "idle" /\ ~isOpen
    /\ job \in {"saveFile", "saveWrite", "loadFile"} => pc = "idle" /\ isOpen
    /\ job = "savePacked" => pc \in {"idle", "pack", "copy", "replace"}
    /\ job \in {"savePacked", "saveClose", "loadClose"} /\ pc # "replace" => isOpen
    /\ job = "saveClose" => pc \in {"idle", "close"}
    /\ job = "loadClose" => pc = "close"

\* A handle is only open while a file is written, on the entry of that file.
HandlesOK ==
    /\ \A h \in Handles : handles[h].open =>
          /\ job = "saveWrite" /\ cur \in todo /\ cur \in DOMAIN fmap
          /\ handles[h].idx = fmap[cur] /\ handles[h].pos <= FileSize(cur)
          /\ \A g \in Handles : handles[g].open => g = h
    /\ writer # NoHandle => writer \in Handles /\ handles[writer].open

\* A File object of the project.
FileObject == [time : Times, tags : Seq(Data), count : Nat]

ClientOK ==
    /\ src \in [Names -> Times] /\ files \subseteq Names
    /\ mem \in [Names -> FileObject]
    /\ job \in {"none", "parse", "saveOpen", "saveCreate", "saveFile", "saveWrite",
                "savePacked", "saveClose", "loadOpen", "loadFile", "loadClose"}
    /\ todo \subseteq files /\ (todo # {} => job \in {"saveFile", "saveWrite"})
    /\ cur \in Names \cup {0} /\ (job = "parse" => cur \in Names)
    /\ numTags \in 0 .. MaxUserData /\ unpacked \in 0 .. MaxUserData
    /\ idx \in Nat \ {0} /\ limit \in Int
    /\ job = "loadFile" => limit <= Count

\* The Boolean locals of Save().
SaveFlagsOK == created \in BOOLEAN /\ early \in BOOLEAN

\* What a refresh leaves to the next one, and what it left unread.
RefreshOK == queued \subseteq Names /\ unread \subseteq Names \X Times

JobInv == IInv /\ JobPhase /\ HandlesOK /\ ClientOK /\ SaveFlagsOK /\ RefreshOK

(***************************************************************************)
(* Directories                                                             *)
(***************************************************************************)
\* The entry lies between the header and the cell at, in cells that were written.
Placed(e, at, c) ==
    /\ e.offset >= HeaderEnd /\ e.offset + e.size <= at
    /\ \A o \in Extent(e) : o \in Offsets /\ c[o] \in Data

\* Two entries are of different files and share no cell.
Apart(e, f) ==
    /\ e.name # f.name
    /\ \/ e.offset + e.size <= f.offset \/ f.offset + f.size <= e.offset
       \/ e.size = 0 \/ f.size = 0

\* The files of a directory that ends before the cell at.
Sound(d, at, c) ==
    \A i \in DOMAIN d : d[i].name # JunkName =>
        /\ Placed(d[i], at, c)
        /\ \A j \in DOMAIN d : d[j].name # JunkName /\ j # i => Apart(d[i], d[j])

\* Where the data ends while a file is appended.
DataEnd == IF writer = NoHandle THEN header.dirOffset
                                ELSE header.dirOffset + handles[writer].pos

\* The file that is appended is the only one behind the place of the directory.
Appending ==
    writer # NoHandle =>
        LET i == handles[writer].idx
        IN /\ dir[i].offset = header.dirOffset /\ dir[i].size = handles[writer].pos
           /\ \A j \in DOMAIN dir \ {i} : dir[j].name # JunkName =>
                 dir[j].offset + dir[j].size <= header.dirOffset

\* A file that is written over its old data has been given its size.
InPlace == \A h \in Handles : handles[h].open /\ h # writer => dir[handles[h].idx].size = FileSize(cur)

\* The filename map knows every file.
MapKnows == \A i \in DOMAIN dir : dir[i].name # JunkName =>
               dir[i].name \in DOMAIN fmap /\ fmap[dir[i].name] = i

MemorySound ==
    isOpen => /\ header.dirOffset >= HeaderEnd
              /\ MapKnows /\ Sound(dir, DataEnd, cells) /\ Appending /\ InPlace

DiskSound ==
    /\ diskDir.dir \in Seq(Entry)
    /\ Sound(diskDir.dir, diskDir.at, cells)
    /\ diskHeader.ok => diskHeader.dirOffset >= HeaderEnd
    /\ pc = "replace" => diskDir = NoDiskDir

\* While a flush is under way the directory on disk is that in memory.
Flushing == pc \in {"close", "pack"} => diskDir = [at |-> header.dirOffset, dir |-> dir]

\* Pack() may copy an entry read from garbage, which then takes its own cells: all
\* entries of the temporary drive share no cell.
Strict(v) ==
    /\ v.header.dirOffset >= HeaderEnd
    /\ Sound(v.dir, v.header.dirOffset, v.cells)
    /\ \A i \in DOMAIN v.dir :
          /\ v.dir[i].offset >= HeaderEnd
          /\ v.dir[i].offset + v.dir[i].size <= v.header.dirOffset
          /\ \A j \in DOMAIN v.dir \ {i} : Apart(v.dir[i], v.dir[j])
TempSound == pc \in {"copy", "replace"} => Strict(temp)

PlacesInv == MemorySound /\ DiskSound /\ Flushing /\ TempSound

(***************************************************************************)
(* The count of tags                                                       *)
(***************************************************************************)
CountInv ==
    /\ Crashes => unpacked = 0
    /\ job \in {"none", "parse", "saveOpen", "loadOpen", "loadFile"} =>
          (Openable => diskHeader.userData >= unpacked)
    /\ job \in {"saveFile", "saveWrite"} => numTags >= unpacked
    /\ job \in {"loadFile", "loadClose"} => header.userData >= unpacked
    /\ job = "saveClose" => header.userData >= unpacked

(***************************************************************************)
(* Unused space                                                            *)
(***************************************************************************)
NoHoles(d, at) == \A o \in HeaderEnd .. at - 1 : \E i \in DOMAIN d : o \in Extent(d[i])
HolesInv ==
    /\ isOpen /\ ~header.needPack => NoHoles(dir, header.dirOffset)
    /\ Openable /\ ~diskHeader.needPack /\ job \in {"none", "parse", "saveOpen", "loadOpen", "loadFile"} =>
          IF diskHeader.count = 0 THEN diskHeader.dirOffset = HeaderEnd
          ELSE diskHeader.count = Len(diskDir.dir) /\ NoHoles(diskDir.dir, diskHeader.dirOffset)
    /\ pc = "replace" => NoHoles(temp.dir, temp.header.dirOffset)

(***************************************************************************)
(* The data of a virtual file                                              *)
(***************************************************************************)
\* The tags of a version are data that a virtual file can hold.
LEMMA TagsAreData ==
    /\ FormatCell \in Data /\ OldCell \in Data
    /\ \A n \in Names, v \in Times : /\ Tags(n, v) \in Seq(Data) /\ Len(Tags(n, v)) = TagCount[n][v]
                                     /\ TagCount[n][v] \in Nat
<1>1. ASSUME NEW n \in Names, NEW v \in Times
      PROVE  Tags(n, v) \in Seq(Data) /\ Len(Tags(n, v)) = TagCount[n][v] /\ TagCount[n][v] \in Nat
  <2>1. TagCount[n][v] \in Nat
    BY DatabaseAssumption
  <2>2. ASSUME NEW k \in 1 .. TagCount[n][v] PROVE <<n, v, k>> \in TagCells
    <3> DEFINE V(m, w) == {<<m, w, j>> : j \in 1 .. TagCount[m][w]}
    <3>1. <<n, v, k>> \in V(n, v)
      OBVIOUS
    <3>2. TagCells = UNION {V(m, w) : m \in Names, w \in Times}
      BY DEF TagCells
    <3> HIDE DEF V
    <3>3. V(n, v) \in {V(m, w) : m \in Names, w \in Times}
      OBVIOUS
    <3>4. ASSUME NEW x, NEW W, NEW S, x \in W, W \in S PROVE x \in UNION S
      BY <3>4
    <3> QED BY <3>1, <3>2, <3>3, <3>4
  <2>3. \A k \in 1 .. TagCount[n][v] : <<n, v, k>> \in Data
    BY <2>2, CellAssumption
  <2>4. Tags(n, v) \in [1 .. TagCount[n][v] -> Data]
    BY <2>3 DEF Tags
  <2> QED BY <2>1, <2>4
<1> QED BY <1>1, CellAssumption

\* What the parser and a new File object hold.
LEMMA ListedType ==
    /\ 0 \in Times /\ << >> \in Seq(Data)
    /\ Unparsed \in FileObject
    /\ \A v \in Times, t \in Seq(Data) : Listed(v, t) \in FileObject
    /\ \A n \in Names, v \in Times : Listed(v, Tags(n, v)) \in FileObject
<1>1. 0 \in Times /\ << >> \in Seq(Data)
  BY DatabaseAssumption
<1>2. Unparsed \in FileObject
  <2>1. 0 \in Nat
    OBVIOUS
  <2> QED BY <1>1, <2>1, Zenon DEF Unparsed, FileObject
<1>3. ASSUME NEW v \in Times, NEW t \in Seq(Data)
      PROVE  Listed(v, t) \in FileObject
  BY DEF Listed, FileObject
<1>4. ASSUME NEW n \in Names, NEW v \in Times
      PROVE  Listed(v, Tags(n, v)) \in FileObject
  BY <1>3, TagsAreData
<1> QED BY <1>1, <1>2, <1>3, <1>4

\* What Save() writes for a file: as many cells as FileSize() says.
LEMMA FileContentsType ==
    ASSUME ClientOK, NEW n \in Names
    PROVE  /\ FileContents(n) \in Seq(Data) /\ Len(FileContents(n)) = FileSize(n)
           /\ FileSize(n) \in Nat /\ FileSize(n) >= 1
           /\ \A k \in 1 .. FileSize(n) : FileContents(n)[k] \in Data
<1>0. FormatCell \in Data
  BY TagsAreData
<1>a. <<FormatCell>> \in Seq(Data) /\ Len(<<FormatCell>>) = 1
  <2> HIDE DEF FormatCell
  <2> QED BY <1>0
<1>1. mem[n].tags \in Seq(Data) /\ <<FormatCell>> \in Seq(Data) /\ Len(<<FormatCell>>) = 1
  BY <1>a DEF ClientOK, FileObject
<1>2. FileContents(n) \in Seq(Data) /\ Len(FileContents(n)) = FileSize(n)
  BY <1>1 DEF FileContents, FileSize
<1>3. FileSize(n) \in Nat /\ FileSize(n) >= 1
  BY <1>1 DEF FileSize
<1> QED BY <1>2, <1>3

(***************************************************************************)
(* The drive under the database                                            *)
(***************************************************************************)
\* Copying over a file's old data keeps the drive's invariant.
LEMMA CopyInPlaceIInv ==
    ASSUME JobInv, NEW n \in Names, NEW h \in Handles, CopyInPlace(n, h)
    PROVE  IInv'
<1> DEFINE i == fmap[n]
           size == FileSize(n)
           e == [dir[i] EXCEPT !.time = mem[n].time, !.size = size]
<1>1. IInv /\ ClientOK /\ Ready /\ i \in 1 .. Count /\ dir[i].name = n
  BY OpenDrive DEF JobInv, CopyInPlace, Found
<1>2. size \in Nat /\ mem[n].time \in Times
  BY <1>1, FileContentsType DEF ClientOK, FileObject
<1>3. e \in Entry /\ e.name = n
  BY <1>1, <1>2, OpenDrive DEF Entry
<1>4. dir' = [dir EXCEPT ![i] = e]
  BY DEF CopyInPlace
<1>5. dir' \in Directory(Count) /\ \A k \in 1 .. Count : dir'[k].name = dir[k].name
  BY <1>1, <1>3, <1>4, OpenDrive DEF Directory
<1>6. header' \in Header /\ header'.count = Count
  BY <1>1, OpenDrive DEF CopyInPlace, NotePack, Header, Count
<1>7. /\ handles \in [Handles -> Handle] /\ writer \in Handles \cup {NoHandle}
      /\ DOMAIN fmap \subseteq Names \cup {JunkName}
      /\ cells \in [Offsets -> Data \cup {Empty}]
  BY <1>1 DEF IInv, TypeOK
<1>8. handles' \in [Handles -> Handle]
  BY <1>1, <1>7, OpenDrive DEF CopyInPlace, OpenHandle, Handle
<1>9. /\ UNCHANGED <<isOpen, readOnly, diskHeader, pc, temp, fmap, writer, cells, diskDir>>
      /\ changed' = TRUE
  BY DEF CopyInPlace, disk
<1> QED BY <1>1, <1>5, <1>6, <1>7, <1>8, <1>9, OpenDrive, DirectoryIInv

\* A refresh leaves the drive, and all of a save and a load, alone.
LEMMA RefreshShape ==
    ASSUME RefreshSteps
    PROVE  /\ job \in {"none", "parse"} /\ job' \in {"none", "parse"}
           /\ UNCHANGED <<driveVars, src, files, todo, created, early, numTags, loadVars, unpacked>>
BY DEF RefreshSteps, Detect, Requeued, Parse, Misparse, NotParsed, ParseEnd, refreshVars

\* The steps of the database that leave its drive to the lemmas about drives.
DriveOnly == [Next]_driveVars

LEMMA TagNextDrives ==
    ASSUME JobInv, [TagNext]_vars
    PROVE  \/ DriveOnly \/ Crash \/ SaveUnlink
           \/ \E n \in Names, h \in Handles : SaveFile(n, h) /\ CopyInPlace(n, h)
<1> USE DEF DriveOnly
<1>1. CASE \/ \E n \in Names : Edit(n) \/ ChangeProject(n) \/ SaveSkip(n)
           \/ RemoveAll \/ LoadSkip \/ LoadTags \/ UNCHANGED vars
  BY <1>1 DEF Edit, ChangeProject, SaveSkip, RemoveAll, LoadSkip, LoadTags, vars
<1>2. CASE (\E f \in BOOLEAN : SaveStart(f)) \/ LoadStart
  BY <1>2 DEF SaveStart, LoadStart, Next
<1>3. CASE SaveOpen \/ SaveOpenFails \/ (\E ro \in BOOLEAN : LoadOpen(ro) \/ LoadFails(ro))
  <2>1. \E ro \in BOOLEAN : Open(ro) \/ OpenFails(ro)
    BY <1>3 DEF SaveOpen, SaveOpenFails, LoadOpen, LoadFails
  <2> QED BY <2>1 DEF Next
<1>4. CASE SaveCreate
  BY <1>4 DEF SaveCreate, Next
<1>5. ASSUME NEW n \in Names, NEW h \in Handles, SaveFile(n, h)
      PROVE  DriveOnly \/ CopyInPlace(n, h)
  <2>1. CASE CopyToEnd(n, h)
    <3>1. mem[n].time \in Times
      BY DEF JobInv, ClientOK, FileObject
    <3> QED BY <2>1, <3>1 DEF CopyToEnd, HandleSteps, Next
  <2> QED BY <1>5, <2>1 DEF SaveFile
<1>6. ASSUME NEW h \in Handles, SaveWrite(h) PROVE DriveOnly
  <2>1. /\ cur \in Names /\ handles[h].pos < FileSize(cur) /\ handles[h].pos \in Nat
        /\ Write(h, FileContents(cur)[handles[h].pos + 1])
    BY <1>6 DEF SaveWrite, JobInv, HandlesOK, ClientOK, IInv, TypeOK, Handle
  <2>2. FileContents(cur)[handles[h].pos + 1] \in Data
    BY <2>1, FileContentsType DEF JobInv
  <2> QED BY <2>1, <2>2 DEF HandleSteps, Next
<1>7. ASSUME NEW h \in Handles, SaveFileClose(h) PROVE DriveOnly
  BY <1>7 DEF SaveFileClose, HandleSteps, Next
<1>8. CASE SavePack \/ SavePacking
  BY <1>8 DEF SavePack, SavePacking, PackSteps, Next
<1>9. CASE SavePacked \/ SaveCount
  <2>1. CountedTags \in 0 .. MaxUserData /\ 0 \in 0 .. MaxUserData
    <3>1. header.userData \in 0 .. MaxUserData /\ numTags \in 0 .. MaxUserData
      BY DEF JobInv, IInv, TypeOK, Header, ClientOK
    <3> QED BY <3>1, BoundsAssumption DEF CountedTags, AtMost
  <2>2. \E v \in 0 .. MaxUserData : SetHeaderUserData(v)
    BY <1>9, <2>1 DEF SavePacked, SaveCount
  <2> QED BY <2>2 DEF Next
<1>10. CASE SaveClose \/ SaveClosed \/ LoadEnd \/ LoadClosed
  BY <1>10 DEF SaveClose, SaveClosed, LoadEnd, LoadClosed, Next
<1>11. CASE LoadErase
  <2>1. LoadEntry.name \in Names
    BY <1>11 DEF LoadErase, NotLoaded, JobInv, ClientOK
  <2> QED BY <1>11, <2>1 DEF LoadErase, Next
<1>12. CASE RefreshSteps
  BY <1>12, RefreshShape
<1> QED BY <1>1, <1>2, <1>3, <1>4, <1>5, <1>6, <1>7, <1>8, <1>9, <1>10, <1>11, <1>12
        DEF TagNext, JobSteps, SaveSteps

\* A crash, and deleting the database, keep the drive's invariant.
LEMMA CrashIInv == IInv /\ (Crash \/ (SaveUnlink /\ JobPhase)) => IInv'
<1> SUFFICES ASSUME IInv, Crash \/ (SaveUnlink /\ JobPhase) PROVE IInv'
  OBVIOUS
<1>1. CASE Crash
  <2>1. TypeOK'
    BY <1>1, FreshTypes DEF Crash, CloseFiles, disk, IInv, TypeOK
  <2>2. MapSound' /\ Phase'
    BY <1>1 DEF Crash, CloseFiles, MapSound, Phase
  <2> QED BY <2>1, <2>2 DEF IInv
<1>2. CASE SaveUnlink /\ JobPhase
  <2>1. TypeOK'
    BY <1>2, FreshTypes DEF SaveUnlink, memory, IInv, TypeOK, Count
  <2>2. MapSound' /\ Phase'
    BY <1>2 DEF SaveUnlink, memory, IInv, MapSound, Phase, Count
  <2> QED BY <2>1, <2>2 DEF IInv
<1> QED BY <1>1, <1>2

\* Every step of the database keeps the invariant of its drive.
LEMMA TagNextIInv == ASSUME JobInv, [TagNext]_vars PROVE IInv'
<1>1. IInv /\ JobPhase
  BY DEF JobInv
<1> QED BY <1>1, TagNextDrives, NextIInv, CrashIInv, CopyInPlaceIInv DEF DriveOnly

(***************************************************************************)
(* The initial states                                                      *)
(***************************************************************************)
\* The database an older version has left: a file for every name, one cell each,
\* behind each other.
LEMMA OldEntries ==
    ASSUME OldDatabase, OldFormat
    PROVE  \E N \in Nat :
              /\ N <= MaxOffset
              /\ diskHeader = [FreshHeader EXCEPT !.count = N, !.dirOffset = HeaderEnd + N]
              /\ cells = [o \in Offsets |-> IF o < HeaderEnd + N THEN OldCell ELSE Empty]
              /\ diskDir.at = HeaderEnd + N /\ diskDir.dir \in [1 .. N -> Entry]
              /\ \A i \in 1 .. N : diskDir.dir[i].offset = i /\ diskDir.dir[i].size = 1
              /\ \A i, j \in 1 .. N : diskDir.dir[i].name = diskDir.dir[j].name => i = j
<1> DEFINE Order(s) == \A i, j \in DOMAIN s : i < j => s[i] < s[j]
           order == CHOOSE s \in SetToSeqs(Names) : Order(s)
           N == Cardinality(Names)
           d == [i \in 1 .. N |-> [name |-> order[i], time |-> 1,
                                   offset |-> HeaderEnd + i - 1, size |-> 1]]
<1>1. /\ diskHeader = [FreshHeader EXCEPT !.count = N, !.dirOffset = HeaderEnd + N]
      /\ cells = [o \in Offsets |-> IF o < HeaderEnd + N THEN OldCell ELSE Empty]
      /\ diskDir = [at |-> HeaderEnd + N, dir |-> d]
  BY DEF OldDatabase
<1>2. N \in Nat /\ N <= MaxOffset /\ IsFiniteSet(Names) /\ Names \in SUBSET Nat
  BY DatabaseAssumption, NamesAssumption, FS_CardinalityType
<1>3. \E s \in SetToSeqs(Names) : Order(s)
  BY <1>2, GrowingOrder DEF Growing
<1>4. order \in SetToSeqs(Names)
  <2> HIDE DEF Order
  <2> QED BY <1>3
<1>5. order \in [1 .. N -> Names] /\ \A i, j \in 1 .. N : i # j => order[i] # order[j]
  <2> HIDE DEF order
  <2> QED BY <1>4 DEF SetToSeqs
<1> HIDE DEF order
<1>6. 1 \in Times
  BY DatabaseAssumption
<1>7. d \in [1 .. N -> Entry] /\ \A i \in 1 .. N : d[i].name = order[i] /\ d[i].offset = i /\ d[i].size = 1
  <2> HIDE DEF N
  <2> QED BY <1>2, <1>5, <1>6 DEF Entry, HeaderEnd
<1>8. \A i, j \in 1 .. N : d[i].name = d[j].name => i = j
  <2> HIDE DEF d, N
  <2> QED BY <1>5, <1>7
<1> HIDE DEF d, N
<1>9. diskDir.at = HeaderEnd + N /\ diskDir.dir = d
  BY <1>1
<1> QED BY <1>1, <1>2, <1>7, <1>8, <1>9

\* What a missing disk file, and an old database, leave on disk.
LEMMA InitDisk ==
    ASSUME Init
    PROVE  /\ diskHeader \in Header /\ cells \in [Offsets -> Data \cup {Empty}]
           /\ diskHeader.userData = 0
           /\ diskDir.at \in Nat /\ \A i \in DOMAIN diskDir.dir : diskDir.dir[i] \in Entry
           /\ DiskSound /\ (diskHeader.ok => diskHeader.count = Len(diskDir.dir))
           /\ diskHeader.dirOffset = HeaderEnd + Len(diskDir.dir)
           /\ NoHoles(diskDir.dir, diskHeader.dirOffset)
<1>0. pc = "idle" /\ FreshHeader \in Header /\ FreshHeader.dirOffset = 1 /\ FreshHeader.userData = 0
  BY FreshTypes DEF Init, FreshHeader
<1>1. CASE OldFormat
  <2>1. PICK N \in Nat :
           /\ N <= MaxOffset
           /\ diskHeader = [FreshHeader EXCEPT !.count = N, !.dirOffset = HeaderEnd + N]
           /\ cells = [o \in Offsets |-> IF o < HeaderEnd + N THEN OldCell ELSE Empty]
           /\ diskDir.at = HeaderEnd + N /\ diskDir.dir \in [1 .. N -> Entry]
           /\ \A i \in 1 .. N : diskDir.dir[i].offset = i /\ diskDir.dir[i].size = 1
           /\ \A i, j \in 1 .. N : diskDir.dir[i].name = diskDir.dir[j].name => i = j
    BY <1>1, OldEntries, Zenon DEF Init
  <2> DEFINE d == diskDir.dir
  <2>2. /\ diskHeader \in Header /\ diskHeader.count = N /\ diskHeader.dirOffset = HeaderEnd + N
        /\ diskHeader.userData = 0
    <3>1. /\ diskHeader = [ok |-> TRUE, count |-> N, dirOffset |-> HeaderEnd + N, needPack |-> FALSE,
                           userData |-> 0]
      BY <2>1 DEF FreshHeader
    <3>2. HeaderEnd + N \in Nat /\ 0 \in 0 .. MaxUserData
      BY BoundsAssumption DEF HeaderEnd
    <3> QED BY <3>1, <3>2 DEF Header
  <2>3. cells \in [Offsets -> Data \cup {Empty}]
    BY <2>1, TagsAreData
  <2>4. /\ d \in Seq(Entry) /\ Len(d) = N /\ DOMAIN d = 1 .. N
    BY <2>1
  <2>5. Sound(d, diskDir.at, cells)
    <3>1. ASSUME NEW i \in 1 .. N PROVE Placed(d[i], diskDir.at, cells)
      <4>1. OldCell \in Data
        BY TagsAreData
      <4>2. d[i].offset = i /\ d[i].size = 1 /\ i <= MaxOffset /\ diskDir.at = HeaderEnd + N
        BY <2>1, BoundsAssumption
      <4>3. Extent(d[i]) = {i} /\ i \in Offsets
        BY <4>2, BoundsAssumption DEF Extent, Offsets, HeaderEnd
      <4>4. cells[i] = OldCell
        BY <2>1, <4>3 DEF HeaderEnd
      <4> QED BY <4>1, <4>2, <4>3, <4>4 DEF Placed, HeaderEnd
    <3>2. ASSUME NEW i \in 1 .. N, NEW j \in 1 .. N, i # j PROVE Apart(d[i], d[j])
      <4>1. /\ d[i].offset = i /\ d[i].size = 1 /\ d[j].offset = j /\ d[j].size = 1
            /\ d[i].name # d[j].name
        BY <2>1, <3>2
      <4> QED BY <3>2, <4>1 DEF Apart
    <3> QED BY <2>4, <3>1, <3>2 DEF Sound
  <2>6. NoHoles(d, diskHeader.dirOffset)
    <3>1. ASSUME NEW o \in HeaderEnd .. diskHeader.dirOffset - 1 PROVE \E i \in DOMAIN d : o \in Extent(d[i])
      <4>1. o \in 1 .. N
        BY <2>2 DEF HeaderEnd
      <4>2. d[o].offset = o /\ d[o].size = 1
        BY <2>1, <4>1
      <4> QED BY <2>4, <4>1, <4>2 DEF Extent
    <3> QED BY <3>1 DEF NoHoles
  <2>7. diskDir.at \in Nat /\ \A i \in DOMAIN d : d[i] \in Entry
    BY <2>1, <2>4 DEF HeaderEnd
  <2>8. DiskSound
    BY <1>0, <2>2, <2>4, <2>5 DEF DiskSound, HeaderEnd
  <2> QED BY <2>2, <2>3, <2>4, <2>6, <2>7, <2>8
<1>2. CASE ~OldFormat
  <2>1. diskHeader = NoFile /\ cells = NoCells /\ diskDir = NoDiskDir
    BY <1>2 DEF Init
  <2>2. /\ NoFile \in Header /\ NoFile.dirOffset = 1 /\ ~NoFile.ok /\ NoFile.userData = 0
    BY <1>0, FreshTypes DEF NoFile, FreshHeader
  <2>3. diskDir.at = 0 /\ diskDir.dir \in [1 .. 0 -> Entry] /\ Len(diskDir.dir) = 0
    BY <2>1 DEF NoDiskDir, NoDir
  <2>4. diskDir.dir \in Seq(Entry) /\ DOMAIN diskDir.dir = {}
    BY <2>3
  <2>5. Sound(diskDir.dir, diskDir.at, cells) /\ NoHoles(diskDir.dir, 1)
    BY <2>4 DEF Sound, NoHoles, HeaderEnd
  <2> QED BY <1>0, <2>1, <2>2, <2>3, <2>4, <2>5, FreshTypes DEF DiskSound, HeaderEnd
<1> QED BY <1>1, <1>2

LEMMA InitJobInv == Init => JobInv
<1> SUFFICES ASSUME Init PROVE JobInv
  OBVIOUS
<1>1. TypeOK
  BY InitDisk, FreshTypes DEF Init, TypeOK
<1>2. MapSound /\ Phase /\ JobPhase
  BY DEF Init, MapSound, Phase, JobPhase
<1>3. HandlesOK
  BY FreshTypes DEF Init, HandlesOK, AllClosed
<1>4. ClientOK
  <2>1. 0 \in Times /\ 1 \in Times /\ 0 \in 0 .. MaxUserData
    BY DatabaseAssumption, BoundsAssumption
  <2>2. mem = [n \in Names |-> Unparsed] /\ Unparsed \in FileObject
    BY ListedType DEF Init
  <2>3. /\ src \in [Names -> Times] /\ files \subseteq Names
        /\ job = "none" /\ todo = {} /\ cur = 0 /\ numTags = 0 /\ unpacked = 0 /\ idx = 1 /\ limit = 0
    BY <2>1 DEF Init
  <2> QED BY <2>1, <2>2, <2>3 DEF ClientOK
<1>5. SaveFlagsOK /\ RefreshOK
  BY DEF Init, SaveFlagsOK, RefreshOK
<1> QED BY <1>1, <1>2, <1>3, <1>4, <1>5 DEF JobInv, IInv

\* The other parts of the invariant hold there too.
LEMMA InitPlacesInv == Init => PlacesInv
<1> SUFFICES ASSUME Init PROVE PlacesInv
  OBVIOUS
<1>1. MemorySound /\ Flushing /\ TempSound
  BY DEF Init, MemorySound, Flushing, TempSound
<1> QED BY <1>1, InitDisk DEF PlacesInv

LEMMA InitCountInv == Init => CountInv
<1> SUFFICES ASSUME Init PROVE CountInv
  OBVIOUS
<1>1. diskHeader.userData = 0 /\ unpacked = 0 /\ job = "none"
  BY InitDisk DEF Init
<1> QED BY <1>1 DEF CountInv

LEMMA InitHolesInv == Init => HolesInv
<1> SUFFICES ASSUME Init PROVE HolesInv
  OBVIOUS
<1>1. diskHeader.ok => diskHeader.count = Len(diskDir.dir)
  BY InitDisk
<1>2. diskHeader.dirOffset = HeaderEnd + Len(diskDir.dir) /\ NoHoles(diskDir.dir, diskHeader.dirOffset)
  BY InitDisk
<1> QED BY <1>1, <1>2 DEF Init, HolesInv, Openable, HeaderEnd

(***************************************************************************)
(* The steps of the jobs                                                   *)
(***************************************************************************)
JobParts == JobPhase /\ HandlesOK /\ ClientOK /\ SaveFlagsOK

\* Outside the writing of a file no handle is open.
LEMMA NothingOpen ==
    ASSUME HandlesOK, job # "saveWrite"
    PROVE  /\ writer = NoHandle /\ \A h \in Handles : ~handles[h].open
BY DEF HandlesOK

\* Handles that stay as they are while nothing is written.
LEMMA HandlesStay ==
    ASSUME HandlesOK, job # "saveWrite" \/ job' = "saveWrite",
           \/ UNCHANGED <<handles, writer, fmap, mem, cur, todo>>
           \/ handles' = AllClosed /\ writer' = NoHandle
           \/ job # "saveWrite" /\ UNCHANGED handles /\ writer' \in {writer, NoHandle}
    PROVE  HandlesOK'
<1>1. CASE handles' = AllClosed /\ writer' = NoHandle
  BY <1>1 DEF HandlesOK, AllClosed, ClosedHandle
<1>2. CASE job # "saveWrite" /\ UNCHANGED handles /\ writer' \in {writer, NoHandle}
  BY <1>2, NothingOpen DEF HandlesOK
<1>3. CASE UNCHANGED <<handles, writer, fmap, mem, cur, todo>>
  <2>1. \A n : FileSize(n)' = FileSize(n)
    BY <1>3 DEF FileSize
  <2>2. CASE job = "saveWrite"
    BY <1>3, <2>1, <2>2 DEF HandlesOK
  <2>3. CASE job # "saveWrite"
    BY <1>3, <2>3, NothingOpen DEF HandlesOK
  <2> QED BY <2>2, <2>3
<1> QED BY <1>1, <1>2, <1>3

\* A placed entry holds data only.
LEMMA PlacedContents ==
    ASSUME NEW e \in Entry, NEW at \in Nat, NEW c, Placed(e, at, c)
    PROVE  Contents(e, c) \in Seq(Data) /\ Len(Contents(e, c)) = e.size
<1>1. e.size \in Nat /\ e.offset \in Nat
  BY DEF Entry
<1>2. ASSUME NEW k \in 1 .. e.size
      PROVE  e.offset + k - 1 \in Extent(e)
  BY <1>1 DEF Extent
<1>3. \A k \in 1 .. e.size : e.offset + k - 1 \in Offsets /\ c[e.offset + k - 1] \in Data
  BY <1>2 DEF Placed
<1>4. Contents(e, c) \in [1 .. e.size -> Data]
  BY <1>3 DEF Contents
<1> QED BY <1>1, <1>4

\* Where the data ends is behind the header.
LEMMA DataEndType ==
    ASSUME JobInv, PlacesInv, isOpen
    PROVE  DataEnd \in Nat /\ header.dirOffset \in Nat /\ DataEnd >= header.dirOffset
<1>1. header.dirOffset \in Nat
  BY DEF JobInv, IInv, TypeOK, Header
<1>2. writer # NoHandle => handles[writer].pos \in Nat
  BY DEF JobInv, IInv, TypeOK, Handle
<1> QED BY <1>1, <1>2 DEF DataEnd

\* The tags a load reads are data.
LEMMA LoadTagsType ==
    ASSUME JobInv, PlacesInv, LoadTags
    PROVE  mem' \in [Names -> FileObject]
<1> DEFINE n == LoadEntry.name
           e == EntryOf(n)
           tags == SubSeq(LoadContents, 2, Len(LoadContents))
<1>1. /\ Ready /\ idx \in 1 .. Count /\ n \in files /\ n \in Names /\ Found(n)
      /\ IInv /\ LoadContents # << >>
  <2>1. Ready /\ IInv /\ idx <= limit /\ job = "loadFile" /\ n \in files /\ Found(n) /\ LoadContents # << >>
    BY DEF LoadTags, LoadFile, NotLoaded, GoodFormat, JobInv
  <2>2. idx \in Nat \ {0} /\ limit \in Int /\ limit <= Count /\ files \subseteq Names /\ Count \in Nat
    BY <2>1, OpenDrive DEF JobInv, ClientOK
  <2>3. idx \in 1 .. Count
    <3>1. idx <= limit /\ limit <= Count
      BY <2>1, <2>2
    <3>2. idx \in Nat /\ idx # 0 /\ limit \in Int /\ Count \in Nat
      BY <2>2
    <3> HIDE DEF Count
    <3> QED BY <3>1, <3>2
  <2>4. n \in Names
    BY <2>1, <2>2
  <2> QED BY <2>1, <2>3, <2>4
<1>2. e \in Entry /\ LoadEntry \in Entry /\ n # JunkName /\ e.name = n /\ fmap[n] \in DOMAIN dir
  <2>1. fmap[n] \in 1 .. Count /\ dir[fmap[n]].name = n /\ DOMAIN dir = 1 .. Count
        /\ \A i \in 1 .. Count : dir[i] \in Entry
    BY <1>1, OpenDrive DEF Found, Directory
  <2> QED BY <1>1, <2>1, NamesAssumption DEF EntryOf, LoadEntry, JunkName
<1>3. Placed(e, DataEnd, cells) /\ DataEnd \in Nat
  <2>1. isOpen
    BY <1>1 DEF Ready
  <2>2. Sound(dir, DataEnd, cells)
    BY <2>1 DEF PlacesInv, MemorySound
  <2> QED BY <1>2, <2>1, <2>2, DataEndType DEF Sound, EntryOf
<1>4. LoadContents \in Seq(Data)
  BY <1>2, <1>3, PlacedContents DEF LoadContents
<1>5. tags \in Seq(Data) /\ Len(tags) \in Nat
  BY <1>1, <1>4
<1>6. LoadEntry.time \in Times
  BY <1>2, ListedType DEF Entry
<1>7. \/ mem' = [mem EXCEPT ![n] = Listed(LoadEntry.time, tags)]
      \/ mem' = [mem EXCEPT ![n].tags = << >>, ![n].count = 0]
  BY DEF LoadTags
<1>8. mem \in [Names -> FileObject]
  BY DEF JobInv, ClientOK
<1>9. CASE mem' = [mem EXCEPT ![n] = Listed(LoadEntry.time, tags)]
  <2>1. Listed(LoadEntry.time, tags) \in FileObject
    BY <1>5, <1>6, ListedType
  <2> QED BY <1>8, <1>9, <2>1
<1>10. CASE mem' = [mem EXCEPT ![n].tags = << >>, ![n].count = 0]
  BY <1>8, <1>10, ListedType DEF FileObject
<1> QED BY <1>7, <1>9, <1>10

\* A refresh gives a file a new time stamp, or the tags the parser found.
LEMMA RefreshParts ==
    ASSUME JobInv, RefreshSteps
    PROVE  JobParts'
<1>1. /\ job \in {"none", "parse"} /\ job' \in {"none", "parse"}
      /\ UNCHANGED <<driveVars, src, files, todo, created, early, numTags, loadVars, unpacked>>
  BY RefreshShape
<1>2. JobPhase' /\ SaveFlagsOK'
  BY <1>1 DEF driveVars, memory, JobInv, JobPhase, SaveFlagsOK
<1>3. HandlesOK'
  BY <1>1, HandlesStay DEF driveVars, memory, JobInv
<1>4. /\ cur' \in Names \cup {0} /\ (job' = "parse" => cur' \in Names)
      /\ job = "parse" => cur \in Names
  BY DEF RefreshSteps, Detect, Requeued, Parse, Misparse, NotParsed, ParseEnd, JobInv, ClientOK
<1>5. mem \in [Names -> FileObject] /\ src \in [Names -> Times]
  BY DEF JobInv, ClientOK
<1>6. ASSUME NEW n \in Names, NEW t \in Seq(Data) PROVE Listed(mem[n].time, t) \in FileObject
  <2>1. mem[n].time \in Times
    BY <1>5 DEF FileObject
  <2> QED BY <2>1, ListedType
<1>7. \A n, m \in Names : /\ Tags(n, src[n]) \in Seq(Data) /\ << >> \in Seq(Data)
                          /\ Tags(n, src[n]) \o Tags(m, src[m]) \in Seq(Data)
  <2>1. \A n \in Names : Tags(n, src[n]) \in Seq(Data)
    BY <1>5, TagsAreData
  <2> HIDE DEF Tags
  <2> QED BY <2>1, ListedType
<1>8. mem' \in [Names -> FileObject]
  <2>1. ASSUME NEW n \in Names, Detect(n) PROVE mem' \in [Names -> FileObject]
    <3>1. [mem[n] EXCEPT !.time = src[n], !.count = 0] \in FileObject
      BY <1>5 DEF FileObject
    <3>2. mem' = [mem EXCEPT ![n] = [mem[n] EXCEPT !.time = src[n], !.count = 0]]
      BY <2>1, <1>5 DEF Detect
    <3> QED BY <1>5, <3>1, <3>2
  <2>2. CASE NotParsed \/ \E n \in Names : Requeued(n)
    BY <1>5, <2>2 DEF NotParsed, Requeued
  <2>3. CASE Parse
    <3>1. cur \in Names /\ mem' = [mem EXCEPT ![cur] = Listed(mem[cur].time, Tags(cur, src[cur]))]
      BY <1>4, <2>3 DEF Parse, ParseEnd
    <3> QED BY <1>5, <1>6, <1>7, <3>1
  <2>4. CASE Misparse
    <3>1. cur \in Names
      BY <1>4, <2>4 DEF Misparse, ParseEnd
    <3>2. PICK t \in {<< >>} \cup {Tags(cur, src[cur]) \o Tags(m, src[m]) : m \in Names \ {cur}} :
             mem' = [mem EXCEPT ![cur] = Listed(mem[cur].time, t)]
      BY <2>4 DEF Misparse
    <3>3. t \in Seq(Data)
      BY <1>7, <3>1
    <3> QED BY <1>5, <1>6, <3>1, <3>2, <3>3
  <2> QED BY <2>1, <2>2, <2>3, <2>4 DEF RefreshSteps
<1>9. ClientOK'
  BY <1>1, <1>4, <1>8 DEF driveVars, memory, JobInv, ClientOK, loadVars, Count
<1> QED BY <1>2, <1>3, <1>9 DEF JobParts

\* What was left unread stays so, and the sets keep their types.
LEMMA RefreshOKStep ==
    ASSUME JobInv, [TagNext]_vars
    PROVE  RefreshOK' /\ unread \subseteq unread'
<1>1. queued \subseteq Names /\ unread \subseteq Names \X Times
  BY DEF JobInv, RefreshOK
<1>2. \A n \in Names : mem[n].time \in Times
  BY DEF JobInv, ClientOK, FileObject
<1>3. CASE UNCHANGED refreshVars
  BY <1>1, <1>3 DEF RefreshOK, refreshVars
<1>4. CASE Parse \/ Misparse \/ NotParsed
  <2>1. cur \in Names /\ unread' \in {unread, unread \cup {Stamp}} /\ queued' \in {queued \ {cur}, queued \cup {cur}}
    BY <1>4 DEF Parse, Misparse, NotParsed, NoteUnread, ParseEnd, JobInv, ClientOK
  <2>2. Stamp \in Names \X Times
    BY <1>2, <2>1 DEF Stamp
  <2> QED BY <1>1, <2>1, <2>2 DEF RefreshOK
<1>5. CASE (\E n \in Names : ChangeProject(n)) \/ Crash
  BY <1>1, <1>5 DEF ChangeProject, Crash, RefreshOK
<1>6. CASE \/ \E n \in Names : Edit(n) \/ Detect(n) \/ Requeued(n)
           \/ RemoveAll \/ SaveSteps \/ LoadStart
  BY <1>3, <1>6 DEF Edit, Detect, Requeued, RemoveAll, SaveSteps, SaveStart, SaveUnlink, LoadStart
<1>7. CASE JobSteps
  <2>1. UNCHANGED refreshVars
    BY <1>7 DEF JobSteps, SaveOpen, SaveCreate, SaveBegin, SaveOpenFails, SaveSkip, SaveFile, SaveWrite, SaveFileClose,
                SavePack, SavePacking, SavePacked, SaveCount, SaveClose, SaveClosed, LoadOpen, LoadFails, LoadSkip,
                LoadErase, LoadTags, LoadEnd, LoadClosed, clientVars
  <2> QED BY <1>3, <2>1
<1>8. CASE UNCHANGED vars
  BY <1>3, <1>8 DEF vars, clientVars
<1> QED BY <1>4, <1>5, <1>6, <1>7, <1>8 DEF TagNext, RefreshSteps

\* The user's edits, the project file, and the steps of a job that only look at the
\* drive.
LEMMA ClientParts ==
    ASSUME JobInv, PlacesInv,
           \/ \E n \in Names : Edit(n) \/ ChangeProject(n) \/ SaveSkip(n)
           \/ RemoveAll \/ LoadSkip \/ LoadTags \/ UNCHANGED vars
    PROVE  JobParts'
<1> USE DEF JobInv
<1>1. ASSUME NEW n \in Names, Edit(n) PROVE JobParts'
  <2>1. UNCHANGED <<driveVars, files, mem, job, saveVars, loadVars, unpacked>>
    BY <1>1 DEF Edit
  <2>2. JobPhase' /\ SaveFlagsOK'
    BY <2>1 DEF driveVars, memory, JobPhase, SaveFlagsOK, saveVars
  <2>3. HandlesOK'
    BY <2>1, HandlesStay DEF driveVars, memory, saveVars
  <2>4. src' \in [Names -> Times]
    <3>1. src \in [Names -> Times] /\ src[n] + 1 \in Times
      <4>1. src \in [Names -> Times] /\ src[n] < MaxTime
        BY <1>1 DEF Edit, ClientOK
      <4>2. MaxTime \in Nat /\ Times = 0 .. MaxTime
        BY DatabaseAssumption
      <4> QED BY <4>1, <4>2
    <3> QED BY <1>1, <3>1 DEF Edit
  <2>5. ClientOK'
    BY <2>1, <2>4 DEF driveVars, memory, ClientOK, saveVars, loadVars, Count
  <2> QED BY <2>2, <2>3, <2>5 DEF JobParts
<1>2. ASSUME NEW n \in Names, ChangeProject(n) PROVE JobParts'
  <2>1. UNCHANGED <<driveVars, src, job, saveVars, loadVars, unpacked>> /\ job = "none"
    BY <1>2 DEF ChangeProject
  <2>2. JobPhase' /\ SaveFlagsOK'
    BY <2>1 DEF driveVars, memory, JobPhase, SaveFlagsOK, saveVars
  <2>3. HandlesOK'
    BY <2>1, HandlesStay DEF driveVars, memory
  <2>4. todo = {} /\ files' \subseteq Names
    BY <1>2, <2>1 DEF ChangeProject, ClientOK
  <2>5. mem' \in [Names -> FileObject]
    <3>1. mem \in [Names -> FileObject] /\ Unparsed \in FileObject
      BY ListedType DEF ClientOK
    <3> QED BY <1>2, <3>1 DEF ChangeProject
  <2>6. ClientOK'
    BY <2>1, <2>4, <2>5 DEF driveVars, memory, ClientOK, saveVars, loadVars, Count
  <2> QED BY <2>2, <2>3, <2>6 DEF JobParts
<1>3. CASE RemoveAll
  <2>1. UNCHANGED <<driveVars, src, files, job, saveVars, loadVars, unpacked>> /\ job = "none"
    BY <1>3 DEF RemoveAll
  <2>2. JobPhase' /\ SaveFlagsOK'
    BY <2>1 DEF driveVars, memory, JobPhase, SaveFlagsOK, saveVars
  <2>3. HandlesOK'
    BY <2>1, HandlesStay DEF driveVars, memory
  <2>4. mem' \in [Names -> FileObject]
    <3>1. mem \in [Names -> FileObject] /\ 0 \in Times
      BY ListedType DEF ClientOK
    <3>2. \A m \in Names : [mem[m] EXCEPT !.time = 0, !.count = 0] \in FileObject
      BY <3>1 DEF FileObject
    <3> QED BY <1>3, <3>1, <3>2 DEF RemoveAll
  <2>6. ClientOK'
    BY <2>1, <2>4 DEF driveVars, memory, ClientOK, saveVars, loadVars, Count
  <2> QED BY <2>2, <2>3, <2>6 DEF JobParts
<1>4. ASSUME NEW n \in Names, SaveSkip(n) PROVE JobParts'
  <2>1. /\ UNCHANGED <<driveVars, src, files, mem, job, cur, created, early, numTags, loadVars, unpacked>>
        /\ job = "saveFile" /\ todo' \subseteq todo
    BY <1>4 DEF SaveSkip
  <2>2. JobPhase' /\ SaveFlagsOK'
    BY <2>1 DEF driveVars, memory, JobPhase, SaveFlagsOK
  <2>3. HandlesOK'
    BY <2>1, HandlesStay DEF driveVars, memory
  <2>4. ClientOK'
    BY <2>1 DEF driveVars, memory, ClientOK, loadVars, Count
  <2> QED BY <2>2, <2>3, <2>4 DEF JobParts
<1>5. CASE LoadSkip \/ LoadTags
  <2>1. /\ UNCHANGED <<driveVars, src, files, job, saveVars, limit, unpacked>> /\ job = "loadFile"
        /\ idx' = idx + 1
    BY <1>5 DEF LoadSkip, LoadTags, LoadFile
  <2>2. JobPhase' /\ SaveFlagsOK'
    BY <2>1 DEF driveVars, memory, JobPhase, SaveFlagsOK, saveVars
  <2>3. HandlesOK'
    BY <2>1, HandlesStay DEF driveVars, memory
  <2>4. mem' \in [Names -> FileObject]
    BY <1>5, LoadTagsType DEF LoadSkip, ClientOK
  <2>5. idx' \in Nat \ {0}
    <3>1. idx \in Nat \ {0}
      BY DEF ClientOK
    <3>2. idx' = idx + 1
      BY <2>1
    <3> QED BY <3>1, <3>2
  <2>6. ClientOK'
    BY <2>1, <2>4, <2>5 DEF driveVars, memory, ClientOK, saveVars, Count
  <2> QED BY <2>2, <2>3, <2>6 DEF JobParts
<1>6. CASE UNCHANGED vars
  <2>1. JobPhase' /\ SaveFlagsOK'
    BY <1>6 DEF vars, clientVars, driveVars, memory, JobPhase, SaveFlagsOK, saveVars
  <2>2. HandlesOK'
    BY <1>6, HandlesStay DEF vars, clientVars, driveVars, memory, saveVars
  <2>3. ClientOK'
    BY <1>6 DEF vars, clientVars, driveVars, memory, ClientOK, saveVars, loadVars, Count
  <2> QED BY <2>1, <2>2, <2>3 DEF JobParts
<1> QED BY <1>1, <1>2, <1>3, <1>4, <1>5, <1>6

\* A job begins, opens its drive, or is cut off.
LEMMA OpeningParts ==
    ASSUME JobInv,
           \/ \E f \in BOOLEAN : SaveStart(f) \/ LoadOpen(f) \/ LoadFails(f)
           \/ LoadStart \/ SaveUnlink \/ SaveOpen \/ SaveCreate \/ SaveOpenFails \/ Crash
    PROVE  JobParts'
<1> USE DEF JobInv
<1>0. 0 \in 0 .. MaxUserData /\ header.userData \in 0 .. MaxUserData /\ diskHeader.userData \in 0 .. MaxUserData
  BY BoundsAssumption DEF IInv, TypeOK, Header
<1>1. CASE (\E f \in BOOLEAN : SaveStart(f)) \/ LoadStart
  <2>1. /\ job = "none" /\ Construct /\ job' \in {"saveCreate", "saveOpen", "loadOpen"}
        /\ UNCHANGED <<src, files, mem, saveVars, loadVars, unpacked>>
    BY <1>1 DEF SaveStart, LoadStart
  <2>2. JobPhase' /\ SaveFlagsOK'
    BY <2>1 DEF Construct, Idle, JobPhase, SaveFlagsOK, saveVars
  <2>3. HandlesOK'
    BY <2>1, HandlesStay DEF Construct
  <2>4. ClientOK'
    BY <2>1 DEF ClientOK, saveVars, loadVars
  <2> QED BY <2>2, <2>3, <2>4 DEF JobParts
<1>2. CASE SaveUnlink
  <2>1. /\ job = "none" /\ UNCHANGED <<memory, pc, src, files, mem, job, saveVars, loadVars>> /\ unpacked' = 0
    BY <1>2 DEF SaveUnlink
  <2>2. JobPhase' /\ SaveFlagsOK'
    BY <2>1 DEF memory, JobPhase, SaveFlagsOK, saveVars
  <2>3. HandlesOK'
    BY <2>1, HandlesStay DEF memory
  <2>4. ClientOK'
    BY <1>0, <2>1 DEF ClientOK, saveVars, loadVars, memory
  <2> QED BY <2>2, <2>3, <2>4 DEF JobParts
<1>3. CASE SaveOpen \/ SaveCreate
  <2>1. /\ job \in {"saveOpen", "saveCreate"} /\ job' = "saveFile" /\ isOpen' /\ pc' = "idle"
        /\ UNCHANGED <<src, files, mem, loadVars, handles>> /\ writer' = NoHandle
        /\ todo' = files /\ cur' = 0 /\ numTags' = header'.userData /\ early' = FALSE
        /\ created' \in BOOLEAN /\ unpacked' \in {0, unpacked} /\ header' \in {diskHeader, FreshHeader}
    BY <1>3 DEF SaveOpen, SaveCreate, Open, Create, SaveBegin, Idle
  <2>2. JobPhase' /\ SaveFlagsOK'
    BY <2>1 DEF JobPhase, SaveFlagsOK
  <2>3. HandlesOK'
    BY <2>1, HandlesStay
  <2>4. numTags' \in 0 .. MaxUserData
    <3>1. FreshHeader.userData = 0
      BY DEF FreshHeader
    <3> QED BY <1>0, <2>1, <3>1, Zenon
  <2>5. ClientOK'
    BY <1>0, <2>1, <2>4 DEF ClientOK, loadVars
  <2> QED BY <2>2, <2>3, <2>5 DEF JobParts
<1>4. CASE SaveOpenFails \/ (\E f \in BOOLEAN : LoadFails(f))
  <2>1. /\ job \in {"saveOpen", "loadOpen"} /\ job' \in {"saveCreate", "none"}
        /\ UNCHANGED <<src, files, mem, saveVars, loadVars, unpacked, handles, writer, pc, isOpen, fmap>>
    BY <1>4 DEF SaveOpenFails, LoadFails, OpenFails
  <2>2. JobPhase' /\ SaveFlagsOK'
    BY <2>1 DEF JobPhase, SaveFlagsOK, saveVars
  <2>3. HandlesOK'
    BY <2>1, HandlesStay DEF saveVars
  <2>4. ClientOK'
    BY <2>1 DEF ClientOK, saveVars, loadVars
  <2> QED BY <2>2, <2>3, <2>4 DEF JobParts
<1>5. ASSUME NEW ro \in BOOLEAN, LoadOpen(ro) PROVE JobParts'
  <2>1. /\ job = "loadOpen" /\ job' = "loadFile" /\ isOpen' /\ pc' = "idle"
        /\ UNCHANGED <<src, files, mem, saveVars, unpacked, handles>> /\ writer' = NoHandle
        /\ idx' = 1 /\ limit' = header'.count /\ header' = diskHeader
    BY <1>5 DEF LoadOpen, Open, Idle
  <2>2. JobPhase' /\ SaveFlagsOK'
    BY <2>1 DEF JobPhase, SaveFlagsOK, saveVars
  <2>3. HandlesOK'
    BY <2>1, HandlesStay
  <2>4. limit' = Count' /\ limit' \in Nat /\ idx' \in Nat \ {0}
    <3>1. diskHeader.count \in Nat /\ 1 \in Nat \ {0}
      BY DEF IInv, TypeOK, Header
    <3> QED BY <2>1, <3>1, Zenon DEF Count
  <2>5. limit' \in Int /\ limit' <= Count'
    BY <2>4
  <2>6. ClientOK'
    BY <2>1, <2>4, <2>5 DEF ClientOK, saveVars
  <2> QED BY <2>2, <2>3, <2>6 DEF JobParts
<1>6. CASE Crash
  <2>1. /\ handles' = AllClosed /\ writer' = NoHandle /\ isOpen' = FALSE /\ pc' = "idle" /\ job' = "none"
        /\ mem' = [n \in Names |-> Unparsed] /\ UNCHANGED <<src, files, unpacked>> /\ EndSave /\ EndLoad
    BY <1>6 DEF Crash, CloseFiles
  <2>2. JobPhase' /\ SaveFlagsOK'
    BY <2>1 DEF JobPhase, SaveFlagsOK, EndSave
  <2>3. HandlesOK'
    BY <2>1 DEF HandlesOK, AllClosed, ClosedHandle
  <2>4. mem' \in [Names -> FileObject]
    BY <2>1, ListedType
  <2>5. idx' \in Nat \ {0} /\ limit' \in Int /\ numTags' \in 0 .. MaxUserData
    BY <1>0, <2>1 DEF EndSave, EndLoad
  <2>6. ClientOK'
    BY <2>1, <2>4, <2>5 DEF ClientOK, EndSave
  <2> QED BY <2>2, <2>3, <2>6 DEF JobParts
<1> QED BY <1>1, <1>2, <1>3, <1>4, <1>5, <1>6

\* A file is written: its handle opens, moves on by one cell, and closes.
LEMMA WritingParts ==
    ASSUME JobInv,
           \E h \in Handles : SaveWrite(h) \/ SaveFileClose(h) \/ \E n \in Names : SaveFile(n, h)
    PROVE  JobParts'
<1> USE DEF JobInv
<1>0. handles \in [Handles -> Handle]
  BY DEF IInv, TypeOK
<1>1. ASSUME NEW h \in Handles, NEW n \in Names, SaveFile(n, h) PROVE JobParts'
  <2> DEFINE i == handles'[h].idx
  <2>1. /\ job = "saveFile" /\ n \in todo /\ job' = "saveWrite" /\ cur' = n /\ early' \in BOOLEAN
        /\ UNCHANGED <<src, files, mem, todo, created, numTags, loadVars, unpacked>>
    BY <1>1 DEF SaveFile, FirstFile
  <2>2. /\ Ready /\ UNCHANGED <<isOpen, pc>> /\ n \in DOMAIN fmap' /\ writer' \in {h, writer}
        /\ \E k : OpenHandle(h, n, k) /\ k = fmap'[n]
    <3>1. CASE CopyInPlace(n, h)
      BY <3>1 DEF CopyInPlace, Found
    <3>2. CASE FileCreate(n, mem[n].time, h)
      <4>1. CASE Found(n)
        BY <3>2, <4>1 DEF FileCreate, Found
      <4>2. CASE ~Found(n)
        BY <3>2, <4>2 DEF FileCreate
      <4> QED BY <3>2, <4>1, <4>2
    <3> QED BY <1>1, <3>1, <3>2 DEF SaveFile, CopyToEnd
  <2>3. JobPhase' /\ SaveFlagsOK'
    BY <2>1, <2>2 DEF JobPhase, SaveFlagsOK, Ready, Idle
  <2>4. /\ writer = NoHandle /\ \A g \in Handles : ~handles[g].open
    BY <2>1, NothingOpen
  <2>5. /\ handles'[h].open /\ handles'[h].idx = fmap'[n] /\ handles'[h].pos = 0
        /\ \A g \in Handles \ {h} : handles'[g] = handles[g]
    BY <1>0, <2>2 DEF OpenHandle
  <2>6. handles'[h].pos <= FileSize(cur)'
    <3>1. FileSize(cur)' = FileSize(n) /\ FileSize(n) \in Nat
      BY <2>1, FileContentsType DEF FileSize
    <3> QED BY <2>5, <3>1
  <2>7. HandlesOK'
    BY <2>1, <2>2, <2>4, <2>5, <2>6 DEF HandlesOK
  <2>8. ClientOK'
    BY <2>1 DEF ClientOK, loadVars
  <2> QED BY <2>3, <2>7, <2>8 DEF JobParts
<1>2. ASSUME NEW h \in Handles, SaveWrite(h) PROVE JobParts'
  <2>1. /\ job = "saveWrite" /\ handles[h].open /\ handles[h].pos < FileSize(cur) /\ UNCHANGED clientVars
        /\ UNCHANGED <<isOpen, pc, fmap, writer>>
        /\ handles' = [handles EXCEPT ![h].pos = handles[h].pos + 1]
    BY <1>2 DEF SaveWrite, Write
  <2>2. JobPhase' /\ SaveFlagsOK' /\ ClientOK'
    BY <2>1 DEF JobPhase, SaveFlagsOK, ClientOK, clientVars, saveVars, loadVars
  <2>3. FileSize(cur)' = FileSize(cur) /\ FileSize(cur) \in Nat /\ cur \in Names
    <3>1. cur \in Names
      BY <2>1 DEF HandlesOK, ClientOK
    <3> QED BY <2>1, <3>1, FileContentsType DEF FileSize, clientVars, saveVars
  <2>4. handles[h] \in Handle /\ handles[h].pos \in Nat
    BY <1>0 DEF Handle
  <2>5. /\ handles'[h] = [handles[h] EXCEPT !.pos = handles[h].pos + 1]
        /\ \A g \in Handles \ {h} : handles'[g] = handles[g]
    BY <1>0, <2>1
  <2>6. /\ handles'[h].open = handles[h].open /\ handles'[h].idx = handles[h].idx
        /\ handles'[h].pos = handles[h].pos + 1
    BY <2>4, <2>5 DEF Handle
  <2>7. handles'[h].pos <= FileSize(cur)
    <3>1. handles[h].pos < FileSize(cur)
      BY <2>1
    <3> QED BY <2>3, <2>4, <2>6, <3>1
  <2>8. UNCHANGED <<job, cur, todo, fmap, writer>>
    BY <2>1 DEF clientVars, saveVars
  <2>9. HandlesOK'
    BY <2>1, <2>3, <2>5, <2>6, <2>7, <2>8 DEF HandlesOK
  <2> QED BY <2>2, <2>9 DEF JobParts
<1>3. ASSUME NEW h \in Handles, SaveFileClose(h) PROVE JobParts'
  <2>1. /\ job = "saveWrite" /\ handles[h].open /\ job' = "saveFile" /\ FileClose(h)
        /\ numTags' = AtMost(numTags + mem[cur].count, MaxUserData)
        /\ unpacked' = IF Crashes THEN 0 ELSE AtMost(unpacked + mem[cur].count, MaxUserData)
        /\ todo' \subseteq todo
        /\ UNCHANGED <<src, files, mem, cur, created, early, loadVars>>
    BY <1>3 DEF SaveFileClose
  <2>2. JobPhase' /\ SaveFlagsOK'
    BY <2>1 DEF JobPhase, SaveFlagsOK, FileClose
  <2>3. /\ \A g \in Handles : handles[g].open => g = h
        /\ writer # NoHandle => writer \in Handles /\ handles[writer].open
        /\ cur \in Names
    BY <2>1 DEF HandlesOK, ClientOK
  <2>4. writer' = NoHandle /\ \A g \in Handles : ~handles'[g].open
    BY <1>0, <2>1, <2>3 DEF FileClose, ClosedHandle
  <2>5. HandlesOK'
    BY <2>4 DEF HandlesOK
  <2>6. mem[cur].count \in Nat
    BY <2>3 DEF ClientOK, FileObject
  <2>7. numTags' \in 0 .. MaxUserData /\ unpacked' \in 0 .. MaxUserData
    <3>1. numTags \in 0 .. MaxUserData /\ unpacked \in 0 .. MaxUserData /\ MaxUserData \in Nat
      BY BoundsAssumption DEF ClientOK
    <3>2. \A k \in 0 .. MaxUserData : AtMost(k + mem[cur].count, MaxUserData) \in 0 .. MaxUserData
      BY <2>6, <3>1 DEF AtMost
    <3>3. 0 \in 0 .. MaxUserData
      BY <3>1
    <3> QED BY <2>1, <3>1, <3>2, <3>3, Zenon
  <2>8. ClientOK'
    BY <2>1, <2>7 DEF ClientOK, loadVars
  <2> QED BY <2>2, <2>5, <2>8 DEF JobParts
<1> QED BY <1>1, <1>2, <1>3

\* A save or a load ends: it packs, counts its tags, and closes its drive.
LEMMA EndingParts ==
    ASSUME JobInv,
           \/ SavePack \/ SavePacking \/ SavePacked \/ SaveCount \/ SaveClose \/ SaveClosed
           \/ LoadErase \/ LoadEnd \/ LoadClosed
    PROVE  JobParts'
<1> USE DEF JobInv
<1>0. 0 \in 0 .. MaxUserData
  BY BoundsAssumption
<1>1. CASE SavePack
  <2>1. /\ job = "saveFile" /\ job' = "savePacked" /\ todo = {}
        /\ UNCHANGED <<src, files, mem, saveVars, loadVars, unpacked, handles, writer>>
        /\ isOpen' = isOpen /\ pc' \in {pc, "pack", "copy"}
    BY <1>1 DEF SavePack, Pack, PackUnchanged, FlushDirectory, driveVars, memory
  <2>2. JobPhase' /\ SaveFlagsOK'
    BY <2>1 DEF JobPhase, SaveFlagsOK, saveVars
  <2>3. HandlesOK'
    BY <2>1, HandlesStay
  <2>4. ClientOK'
    BY <2>1 DEF ClientOK, saveVars, loadVars
  <2> QED BY <2>2, <2>3, <2>4 DEF JobParts
<1>2. CASE SavePacking
  <2>1. job = "savePacked" /\ UNCHANGED clientVars
    BY <1>2 DEF SavePacking
  <2>2. /\ pc' \in {"copy", "idle", "replace"} /\ (pc' # "replace" => isOpen')
        /\ \/ UNCHANGED <<handles, writer, fmap>>
           \/ handles' = AllClosed /\ writer' = NoHandle
           \/ UNCHANGED <<handles, writer>>
    <3>1. CASE PackHeader \/ PackFile \/ PackFails
      BY <2>1, <3>1 DEF PackHeader, PackFile, PackFails, memory, JobPhase
    <3>2. CASE PackReplace
      BY <3>2 DEF PackReplace, CloseFiles
    <3>3. CASE PackReopen
      BY <3>3 DEF PackReopen
    <3> QED BY <1>2, <3>1, <3>2, <3>3 DEF SavePacking
  <2>3. JobPhase' /\ SaveFlagsOK'
    BY <2>1, <2>2 DEF JobPhase, SaveFlagsOK, clientVars, saveVars
  <2>4. HandlesOK'
    BY <2>1, <2>2, HandlesStay
  <2>5. ClientOK'
    BY <2>1 DEF ClientOK, clientVars, saveVars, loadVars
  <2> QED BY <2>3, <2>4, <2>5 DEF JobParts
<1>3. CASE SavePacked \/ SaveCount
  <2>1. /\ job \in {"savePacked", "saveFile"} /\ job' = "saveClose" /\ (job = "saveFile" => todo = {})
        /\ UNCHANGED <<src, files, mem, saveVars, loadVars, handles, writer, isOpen, pc>>
        /\ isOpen /\ pc = "idle" /\ unpacked' \in {0, unpacked}
    BY <1>3 DEF SavePacked, SaveCount, SetHeaderUserData, Ready, Idle
  <2>2. JobPhase' /\ SaveFlagsOK'
    BY <2>1 DEF JobPhase, SaveFlagsOK, saveVars
  <2>3. HandlesOK'
    BY <2>1, HandlesStay
  <2>4. ClientOK'
    BY <1>0, <2>1 DEF ClientOK, saveVars, loadVars
  <2> QED BY <2>2, <2>3, <2>4 DEF JobParts
<1>4. CASE SaveClose
  <2>1. /\ job = "saveClose" /\ UNCHANGED clientVars /\ isOpen /\ isOpen' = isOpen /\ pc' = "close"
        /\ UNCHANGED <<handles, writer>>
    BY <1>4 DEF SaveClose, Close, FlushDirectory, Ready
  <2>2. JobPhase' /\ SaveFlagsOK'
    BY <2>1 DEF JobPhase, SaveFlagsOK, clientVars, saveVars
  <2>3. HandlesOK'
    BY <2>1, HandlesStay
  <2>4. ClientOK'
    BY <2>1 DEF ClientOK, clientVars, saveVars, loadVars
  <2> QED BY <2>2, <2>3, <2>4 DEF JobParts
<1>5. CASE SaveClosed \/ LoadClosed
  <2>1. /\ job \in {"saveClose", "loadClose"} /\ job' = "none" /\ isOpen' = FALSE /\ pc' = "idle"
        /\ handles' = AllClosed /\ writer' = NoHandle /\ UNCHANGED <<src, files, mem, unpacked>>
    BY <1>5 DEF SaveClosed, LoadClosed, CloseHeader, CloseFiles
  <2>2. (EndSave /\ UNCHANGED loadVars) \/ (EndLoad /\ UNCHANGED saveVars)
    BY <1>5 DEF SaveClosed, LoadClosed
  <2>3. JobPhase' /\ SaveFlagsOK'
    BY <2>1, <2>2 DEF JobPhase, SaveFlagsOK, EndSave, saveVars
  <2>4. HandlesOK'
    BY <2>1, HandlesStay
  <2>5. /\ idx' \in Nat \ {0} /\ limit' \in Int /\ numTags' \in 0 .. MaxUserData
        /\ todo' = {} /\ cur' \in Names \cup {0}
    <3>1. /\ idx \in Nat \ {0} /\ limit \in Int /\ numTags \in 0 .. MaxUserData
          /\ cur \in Names \cup {0} /\ (todo # {} => job \in {"saveFile", "saveWrite"})
      BY DEF ClientOK
    <3>2. todo = {}
      BY <2>1, <3>1
    <3>3. CASE EndSave /\ UNCHANGED loadVars
      BY <1>0, <3>1, <3>3 DEF EndSave, loadVars
    <3>4. CASE EndLoad /\ UNCHANGED saveVars
      BY <3>1, <3>2, <3>4 DEF EndLoad, saveVars
    <3> QED BY <2>2, <3>3, <3>4
  <2>6. ClientOK'
    BY <2>1, <2>5 DEF ClientOK
  <2> QED BY <2>3, <2>4, <2>6 DEF JobParts
<1>6. CASE LoadErase
  <2>1. /\ job = "loadFile" /\ Ready /\ UNCHANGED <<src, files, job, saveVars, idx, unpacked>>
        /\ limit' = limit - 1
        /\ UNCHANGED <<isOpen, pc, handles, writer>>
        /\ header'.count \in {Count, Count - 1}
    <3>1. header \in Header /\ Count = header.count
      BY DEF IInv, TypeOK, Count
    <3>2. header' = header \/ header' = [header EXCEPT !.count = Count - 1, !.needPack = TRUE]
      BY <1>6 DEF LoadErase, FileErase, driveVars, memory
    <3>3. header'.count \in {Count, Count - 1}
      BY <3>1, <3>2 DEF Header
    <3> QED BY <1>6, <3>3 DEF LoadErase, LoadFile, FileErase, driveVars, memory
  <2>2. JobPhase' /\ SaveFlagsOK'
    BY <2>1 DEF JobPhase, SaveFlagsOK, saveVars
  <2>3. HandlesOK'
    BY <2>1, HandlesStay
  <2>4. mem' \in [Names -> FileObject]
    <3>1. mem \in [Names -> FileObject]
      BY DEF ClientOK
    <3> QED BY <1>6, <3>1, ListedType DEF LoadErase, FileObject
  <2>5. limit' \in Int /\ limit' <= Count'
    <3>1. limit \in Int /\ limit <= Count /\ Count \in Nat
      BY <2>1, OpenDrive DEF ClientOK
    <3>2. Count' \in {Count, Count - 1}
      BY <2>1 DEF Count
    <3>3. limit' = limit - 1
      BY <2>1
    <3> QED BY <3>1, <3>2, <3>3
  <2>6. ClientOK'
    BY <2>1, <2>4, <2>5 DEF ClientOK, saveVars
  <2> QED BY <2>2, <2>3, <2>6 DEF JobParts
<1>7. CASE LoadEnd
  <2>1. /\ job = "loadFile" /\ UNCHANGED <<src, files, mem, saveVars, unpacked>>
        /\ \/ CloseUnchanged /\ job' = "none" /\ EndLoad
           \/ Close /\ job' = "loadClose" /\ UNCHANGED loadVars
    BY <1>7 DEF LoadEnd
  <2>2. /\ (handles' = AllClosed /\ writer' = NoHandle) \/ UNCHANGED <<handles, writer>>
        /\ \/ isOpen' = FALSE /\ pc' = "idle" /\ job' = "none"
           \/ isOpen' /\ pc' = "close" /\ job' = "loadClose"
    <3>1. CASE CloseUnchanged /\ job' = "none"
      BY <3>1 DEF CloseUnchanged, CloseFiles, Ready, Idle
    <3>2. CASE Close /\ job' = "loadClose"
      BY <3>2 DEF Close, FlushDirectory, Ready, Idle
    <3> QED BY <2>1, <3>1, <3>2
  <2>3. JobPhase' /\ SaveFlagsOK'
    BY <2>1, <2>2 DEF JobPhase, SaveFlagsOK, saveVars
  <2>4. HandlesOK'
    BY <2>1, <2>2, HandlesStay
  <2>5. idx' \in Nat \ {0} /\ limit' \in Int
    <3>1. idx \in Nat \ {0} /\ limit \in Int
      BY DEF ClientOK
    <3>2. CASE EndLoad
      BY <3>2 DEF EndLoad
    <3>3. CASE UNCHANGED loadVars
      BY <3>1, <3>3 DEF loadVars
    <3> QED BY <2>1, <3>2, <3>3
  <2>6. ClientOK'
    BY <2>1, <2>2, <2>5 DEF ClientOK, saveVars
  <2> QED BY <2>3, <2>4, <2>6 DEF JobParts
<1> QED BY <1>1, <1>2, <1>3, <1>4, <1>5, <1>6, <1>7

LEMMA JobInvStep == ASSUME JobInv, PlacesInv, [TagNext]_vars PROVE JobInv'
<1>1. JobParts'
  BY ClientParts, RefreshParts, OpeningParts, WritingParts, EndingParts DEF TagNext, JobSteps, SaveSteps
<1> QED BY <1>1, TagNextIInv, RefreshOKStep DEF JobInv, JobParts

(***************************************************************************)
(* Directories whose files share no cell                                   *)
(***************************************************************************)
\* Cells behind the data, and data in place of data, do not matter.
LEMMA SoundCells ==
    ASSUME NEW d, \A i \in DOMAIN d : d[i] \in Entry, NEW at \in Nat, NEW c, Sound(d, at, c), NEW b,
           \A o \in Offsets : o < at => b[o] = c[o] \/ b[o] \in Data
    PROVE  Sound(d, at, b)
<1>1. ASSUME NEW i \in DOMAIN d, d[i].name # JunkName PROVE Placed(d[i], at, b)
  <2>1. Placed(d[i], at, c) /\ d[i].offset \in Nat /\ d[i].size \in Nat
    BY <1>1 DEF Sound, Entry
  <2>2. ASSUME NEW o \in Extent(d[i]) PROVE o \in Offsets /\ b[o] \in Data
    <3>1. o < at /\ o \in Offsets /\ c[o] \in Data
      BY <2>1 DEF Placed, Extent
    <3> QED BY <3>1
  <2> QED BY <2>1, <2>2 DEF Placed
<1> QED BY <1>1 DEF Sound

\* The place of the directory may move up.
LEMMA SoundMore ==
    ASSUME NEW d, \A i \in DOMAIN d : d[i] \in Entry, NEW at \in Nat, NEW c, Sound(d, at, c),
           NEW to \in Nat, at <= to
    PROVE  Sound(d, to, c)
<1>1. ASSUME NEW i \in DOMAIN d, d[i].name # JunkName PROVE Placed(d[i], to, c)
  <2>1. Placed(d[i], at, c) /\ d[i].offset \in Nat /\ d[i].size \in Nat
    BY <1>1 DEF Sound, Entry
  <2> QED BY <2>1 DEF Placed
<1> QED BY <1>1 DEF Sound

\* No directory is sound more easily than one without entries.
LEMMA SoundEmpty == ASSUME NEW d, DOMAIN d = {}, NEW at, NEW c PROVE Sound(d, at, c)
BY DEF Sound

\* The filename map of a sound directory, entered from its first entry on.
LEMMA SoundMap ==
    ASSUME NEW n \in Nat, NEW d \in Directory(n), NEW at, NEW c, Sound(d, at, c),
           NEW f, NEW m, Entered(f, m, d, 1, n), NEW i \in 1 .. n, d[i].name # JunkName
    PROVE  d[i].name \in DOMAIN f /\ f[d[i].name] = i
<1> DEFINE k == f[d[i].name]
<1>1. d[i].name \in NamesIn(d, 1, n)
  BY DEF NamesIn
<1>2. d[i].name \in DOMAIN f /\ k \in 1 .. n /\ d[k].name = d[i].name
  BY <1>1 DEF Entered
<1>3. k = i
  BY <1>2 DEF Sound, Apart, Directory
<1> QED BY <1>2, <1>3

\* A sorted directory is as sound as before.
LEMMA SoundSorted ==
    ASSUME NEW n \in Nat, NEW d \in Directory(n), NEW at, NEW c, Sound(d, at, c), NEW e \in Sorted(d, n)
    PROVE  Sound(e, at, c)
<1>1. PICK q \in [1 .. n -> 1 .. n] : /\ \A i, j \in 1 .. n : q[i] = q[j] => i = j
                                      /\ e = [i \in 1 .. n |-> d[q[i]]]
  BY DEF Sorted
<1>2. DOMAIN d = 1 .. n /\ DOMAIN e = 1 .. n
  BY <1>1 DEF Directory
<1>3. \A i \in DOMAIN e : e[i].name # JunkName => q[i] \in DOMAIN d /\ e[i] = d[q[i]]
  BY <1>1, <1>2
<1>4. \A i, j \in DOMAIN e : q[i] = q[j] => i = j
  BY <1>1, <1>2
<1>5. \A i \in DOMAIN e : e[i].name # JunkName => Placed(e[i], at, c)
  BY <1>3 DEF Sound
<1>6. ASSUME NEW i \in DOMAIN e, NEW j \in DOMAIN e, e[i].name # JunkName, e[j].name # JunkName, j # i
      PROVE  Apart(e[i], e[j])
  <2>1. q[i] \in DOMAIN d /\ e[i] = d[q[i]] /\ q[j] \in DOMAIN d /\ e[j] = d[q[j]] /\ q[i] # q[j]
    BY <1>3, <1>4, <1>6
  <2>2. Apart(d[q[i]], d[q[j]])
    BY <1>6, <2>1 DEF Sound
  <2> QED BY <2>1, <2>2
<1> QED BY <1>5, <1>6 DEF Sound

(***************************************************************************)
(* Files that share no cell, step by step                                  *)
(***************************************************************************)
\* While no file is written, the drive's data ends where its directory goes.
LEMMA QuietNow ==
    ASSUME JobInv, MemorySound, isOpen, job # "saveWrite"
    PROVE  /\ header.dirOffset \in Nat /\ header.dirOffset >= HeaderEnd /\ writer = NoHandle
           /\ \A h \in Handles : ~handles[h].open
           /\ MapKnows /\ Sound(dir, header.dirOffset, cells)
           /\ Count \in Nat /\ dir \in Directory(Count) /\ DOMAIN dir = 1 .. Count
           /\ \A i \in 1 .. Count : dir[i] \in Entry
           /\ DataEnd = header.dirOffset
<1>1. writer = NoHandle /\ \A h \in Handles : ~handles[h].open
  BY NothingOpen DEF JobInv
<1>2. DataEnd = header.dirOffset
  BY <1>1 DEF DataEnd
<1>3. header.dirOffset \in Nat /\ Count \in Nat /\ dir \in Directory(Count)
  BY DEF JobInv, IInv, TypeOK, Header, Count
<1> QED BY <1>1, <1>2, <1>3 DEF MemorySound, Directory

LEMMA QuietNext ==
    ASSUME HandlesOK', job' # "saveWrite",
           isOpen' => /\ header'.dirOffset >= HeaderEnd /\ MapKnows'
                      /\ Sound(dir', header'.dirOffset, cells')
    PROVE  MemorySound'
<1>1. writer' = NoHandle /\ \A h \in Handles : ~handles'[h].open
  BY DEF HandlesOK
<1>2. DataEnd' = header'.dirOffset
  BY <1>1 DEF DataEnd
<1>3. Appending' /\ InPlace'
  BY <1>1 DEF Appending, InPlace
<1> QED BY <1>1, <1>2, <1>3 DEF MemorySound

\* Steps that leave the drive as it is, but for the tags its header counts.
LEMMA DriveStays ==
    ASSUME JobInv, JobInv', PlacesInv,
           UNCHANGED <<isOpen, dir, fmap, handles, writer, diskHeader, cells, diskDir, pc, temp>>,
           isOpen => header'.dirOffset = header.dirOffset,
           job # "saveWrite" \/ UNCHANGED <<job, mem, cur, header>>
    PROVE  PlacesInv'
<1>1. MemorySound'
  <2>1. CASE job = "saveWrite"
    <3>1. UNCHANGED <<job, mem, cur, header>>
      BY <2>1
    <3>2. FileSize(cur)' = FileSize(cur) /\ DataEnd' = DataEnd
      BY <3>1 DEF FileSize, DataEnd
    <3> QED BY <3>1, <3>2 DEF PlacesInv, MemorySound, MapKnows, Appending, InPlace
  <2>2. CASE job # "saveWrite"
    <3>1. writer = NoHandle /\ \A h \in Handles : ~handles[h].open
      BY <2>2, NothingOpen DEF JobInv
    <3>2. isOpen => DataEnd' = DataEnd
      BY <3>1 DEF DataEnd
    <3>3. Appending' /\ InPlace'
      BY <3>1 DEF Appending, InPlace
    <3> QED BY <3>2, <3>3 DEF PlacesInv, MemorySound, MapKnows
  <2> QED BY <2>1, <2>2
<1>2. pc \in {"close", "pack"} => isOpen
  BY DEF JobInv, IInv, Phase
<1> QED BY <1>1, <1>2 DEF PlacesInv, DiskSound, Flushing, TempSound

\* Steps between which the drive is closed, and those that create it or close it.
LEMMA PlacesClosed ==
    ASSUME JobInv, JobInv', PlacesInv,
           \/ \E f \in BOOLEAN : SaveStart(f) \/ LoadFails(f)
           \/ LoadStart \/ SaveOpenFails \/ SaveUnlink \/ Crash \/ SaveCreate
           \/ SaveClosed \/ LoadClosed \/ (LoadEnd /\ CloseUnchanged)
    PROVE  PlacesInv'
<1> USE DEF JobInv, PlacesInv
<1>0. /\ FreshHeader.dirOffset = 1 /\ DOMAIN NoDir = {} /\ DOMAIN NoMap = {} /\ ~NoFile.ok
      /\ NoDiskDir.dir \in Seq(Entry) /\ DOMAIN NoDiskDir.dir = {} /\ HeaderEnd = 1
  BY DEF FreshHeader, NoDir, NoMap, NoFile, NoDiskDir, HeaderEnd
<1>1. CASE (\E f \in BOOLEAN : SaveStart(f) \/ LoadFails(f)) \/ LoadStart \/ SaveOpenFails
  <2>1. /\ ~isOpen /\ pc = "idle" /\ UNCHANGED <<isOpen, disk, pc>>
    BY <1>1 DEF SaveStart, LoadStart, LoadFails, SaveOpenFails, Construct, OpenFails, Idle
  <2> QED BY <2>1 DEF disk, MemorySound, DiskSound, Flushing, TempSound
<1>2. CASE SaveUnlink
  <2>1. /\ ~isOpen /\ pc = "idle" /\ UNCHANGED <<isOpen, pc>> /\ diskHeader' = NoFile /\ diskDir' = NoDiskDir
    BY <1>2 DEF SaveUnlink, memory, JobPhase
  <2>2. Sound(diskDir'.dir, diskDir'.at, cells')
    BY <1>0, <2>1, SoundEmpty
  <2> QED BY <1>0, <2>1, <2>2 DEF MemorySound, DiskSound, Flushing, TempSound
<1>3. CASE Crash
  <2>1. /\ ~isOpen' /\ pc' = "idle" /\ UNCHANGED disk
    BY <1>3 DEF Crash, CloseFiles
  <2> QED BY <2>1 DEF disk, MemorySound, DiskSound, Flushing, TempSound
<1>4. CASE SaveCreate
  <2>1. /\ header' = FreshHeader /\ dir' = NoDir /\ fmap' = NoMap /\ pc' = "idle" /\ job' = "saveFile"
        /\ diskHeader' = FreshHeader /\ diskDir' = NoDiskDir
    BY <1>4 DEF SaveCreate, Create, SaveBegin, Idle
  <2>2. Sound(diskDir'.dir, diskDir'.at, cells') /\ Sound(dir', header'.dirOffset, cells')
    BY <1>0, <2>1, SoundEmpty
  <2>3. MapKnows'
    BY <1>0, <2>1 DEF MapKnows
  <2>4. header'.dirOffset >= HeaderEnd /\ diskHeader'.dirOffset >= HeaderEnd /\ job' # "saveWrite"
    <3>1. header'.dirOffset = 1 /\ diskHeader'.dirOffset = 1 /\ HeaderEnd = 1
      BY <1>0, <2>1, Zenon
    <3> QED BY <2>1, <3>1
  <2>5. MemorySound'
    <3>1. HandlesOK'
      OBVIOUS
    <3> QED BY <2>2, <2>3, <2>4, <3>1, QuietNext
  <2>6. DiskSound'
    BY <1>0, <2>1, <2>2, <2>4 DEF DiskSound
  <2>7. Flushing' /\ TempSound'
    BY <2>1 DEF Flushing, TempSound
  <2> QED BY <2>5, <2>6, <2>7
<1>5. CASE SaveClosed \/ LoadClosed \/ (LoadEnd /\ CloseUnchanged)
  <2>1. /\ isOpen /\ ~isOpen' /\ pc' = "idle" /\ UNCHANGED <<cells, diskDir>> /\ diskHeader' \in {diskHeader, header}
    BY <1>5 DEF SaveClosed, LoadClosed, CloseHeader, CloseUnchanged, CloseFiles, WriteHeader, Ready,
                Idle, disk, IInv, Phase
  <2> QED BY <2>1 DEF MemorySound, DiskSound, Flushing, TempSound
<1> QED BY <1>1, <1>2, <1>3, <1>4, <1>5

\* Open() reads files that share no cell, and enters each in the filename map.
LEMMA PlacesOpen ==
    ASSUME JobInv, JobInv', PlacesInv, NEW ro \in BOOLEAN, SaveOpen \/ LoadOpen(ro)
    PROVE  PlacesInv'
<1> DEFINE n == diskHeader.count
           d == diskDir.dir
<1>1. /\ Openable /\ header' = diskHeader /\ pc' = "idle" /\ job' # "saveWrite"
      /\ dir' \in Parsed(d, n) /\ fmap' = MapFrom(fmap, dir', 1, n) /\ UNCHANGED disk
  BY DEF SaveOpen, LoadOpen, Open, Idle, SaveBegin
<1>2. /\ n \in Nat /\ diskHeader.dirOffset \in Nat /\ d \in Seq(Entry) /\ Sound(d, diskDir.at, cells)
      /\ diskHeader.ok /\ diskHeader.dirOffset >= HeaderEnd
  BY <1>1 DEF JobInv, IInv, TypeOK, Header, PlacesInv, DiskSound, Openable
<1>3. PICK j \in JunkEntry : dir' = [i \in 1 .. n |-> IF i \in DOMAIN d THEN d[i] ELSE j]
  BY <1>1 DEF Parsed
<1>4. dir' \in Directory(n)
  <2>1. \A i \in DOMAIN d : d[i] \in Entry
    BY <1>2
  <2> QED BY <1>1, <1>2, <2>1, ParsedType, Zenon
<1>5. j.name = JunkName
  BY DEF JunkEntry
<1>6. Sound(dir', diskHeader.dirOffset, cells)
  <2>1. CASE n = 0
    <3>1. DOMAIN dir' = {}
      BY <1>4, <2>1 DEF Directory
    <3> QED BY <3>1, SoundEmpty
  <2>2. CASE n # 0
    <3>0. diskHeader.count > 0
      BY <1>2, <2>2
    <3>1. diskDir.at = diskHeader.dirOffset
      BY <1>1, <3>0 DEF Openable
    <3>2. DOMAIN dir' = 1 .. n /\ \A i \in DOMAIN dir' : dir'[i].name # JunkName => i \in DOMAIN d /\ dir'[i] = d[i]
      BY <1>3, <1>5
    <3>3. \A i \in DOMAIN dir' : dir'[i].name # JunkName => Placed(dir'[i], diskDir.at, cells)
      BY <1>2, <3>2 DEF Sound
    <3>4. \A i, k \in DOMAIN dir' : dir'[i].name # JunkName /\ dir'[k].name # JunkName /\ k # i
                                     => Apart(dir'[i], dir'[k])
      BY <1>2, <3>2 DEF Sound
    <3> QED BY <3>1, <3>3, <3>4 DEF Sound
  <2> QED BY <2>1, <2>2
<1>7. MapKnows'
  <2>1. Entered(fmap', fmap, dir', 1, n)
    <3>1. n \in Int
      BY <1>2
    <3>2. Entered(MapFrom(fmap, dir', 1, n), fmap, dir', 1, n)
      BY <3>1, MapFromFirstEnters, Zenon
    <3> QED BY <1>1, <3>2, Zenon
  <2>2. \A i \in 1 .. n : dir'[i].name # JunkName => dir'[i].name \in DOMAIN fmap' /\ fmap'[dir'[i].name] = i
    BY <1>2, <1>4, <1>6, <2>1, SoundMap
  <2> QED BY <1>4, <2>2 DEF MapKnows, Directory
<1>8. MemorySound'
  <2>1. HandlesOK' /\ header'.dirOffset = diskHeader.dirOffset /\ cells' = cells
    BY <1>1 DEF JobInv, disk
  <2> QED BY <1>1, <1>2, <1>6, <1>7, <2>1, QuietNext
<1> QED BY <1>1, <1>8 DEF PlacesInv, DiskSound, Flushing, TempSound, disk

\* Writing the directory keeps the files before it.
LEMMA PlacesFlush ==
    ASSUME JobInv, JobInv', PlacesInv, NEW next \in {"close", "pack"}, FlushDirectory(next),
           job # "saveWrite", job' # "saveWrite"
    PROVE  PlacesInv'
<1> DEFINE D == header.dirOffset
<1>0. JobInv /\ MemorySound /\ isOpen /\ pc' = next /\ UNCHANGED <<isOpen, header, diskHeader>>
  BY DEF PlacesInv, FlushDirectory, Ready
<1>1. /\ D \in Nat /\ D >= HeaderEnd /\ writer = NoHandle
      /\ MapKnows /\ Sound(dir, D, cells)
      /\ Count \in Nat /\ dir \in Directory(Count) /\ DOMAIN dir = 1 .. Count
      /\ \A i \in 1 .. Count : dir[i] \in Entry
  BY <1>0, QuietNow
<1>2. /\ dir' \in Directory(Count) /\ Sound(dir', D, cells) /\ MapKnows'
  <2>1. CASE Count > 1
    <3>1. dir' \in Sorted(dir, Count) /\ fmap' = MapFrom(NoMap, dir', 1, Count)
      BY <2>1 DEF FlushDirectory
    <3>2. dir' \in Directory(Count) /\ Sound(dir', D, cells)
      BY <1>1, <3>1, SortedType, SoundSorted
    <3>3. Entered(fmap', NoMap, dir', 1, Count)
      <4>0. Count \in Nat
        BY <1>1
      <4>1. Count \in Int
        BY <4>0
      <4>2. Entered(MapFrom(NoMap, dir', 1, Count), NoMap, dir', 1, Count)
        BY <4>1, MapFromFirstEnters, Zenon
      <4> QED BY <3>1, <4>2, Zenon
    <3>4. \A i \in 1 .. Count : dir'[i].name # JunkName => dir'[i].name \in DOMAIN fmap' /\ fmap'[dir'[i].name] = i
      <4>1. Count \in Nat /\ dir' \in Directory(Count) /\ Sound(dir', D, cells)
        BY <1>1, <3>2
      <4> QED BY ONLY <3>3, <4>1, SoundMap
    <3> QED BY <3>2, <3>4 DEF MapKnows, Directory
  <2>2. CASE ~(Count > 1)
    BY <1>1, <2>2 DEF FlushDirectory, MapKnows
  <2> QED BY <2>1, <2>2
<1>3. /\ diskDir' = [at |-> D, dir |-> dir']
      /\ cells' = [o \in Offsets |-> IF o < D THEN cells[o] ELSE Empty]
  BY DEF FlushDirectory
<1>4. \A i \in DOMAIN dir' : dir'[i] \in Entry
  BY <1>2 DEF Directory
<1>5. Sound(dir', D, cells')
  <2>1. \A o \in Offsets : o < D => cells'[o] = cells[o] \/ cells'[o] \in Data
    BY <1>3
  <2> QED BY <1>1, <1>2, <1>4, <2>1, SoundCells
<1>6. MemorySound'
  <2>1. HandlesOK' /\ header'.dirOffset = D
    BY <1>0 DEF JobInv
  <2> QED BY <1>1, <1>2, <1>5, <2>1, QuietNext
<1>7. DiskSound'
  <2>1. dir' \in Seq(Entry)
    BY <1>1, <1>2 DEF Directory
  <2>2. diskDir'.dir = dir' /\ diskDir'.at = D
    BY <1>3
  <2> QED BY <1>0, <1>5, <2>1, <2>2 DEF PlacesInv, DiskSound
<1>8. Flushing' /\ TempSound'
  BY <1>0, <1>3 DEF Flushing, TempSound
<1> QED BY <1>6, <1>7, <1>8 DEF PlacesInv

\* A file that is gone leaves the others where they are (FileErase()).
LEMMA PlacesErase ==
    ASSUME JobInv, JobInv', PlacesInv, NEW n \in Names, FileErase(n), job = "loadFile", job' = job
    PROVE  PlacesInv'
<1> DEFINE D == header.dirOffset
           i == fmap[n]
           kept == [m \in DOMAIN fmap \ {n} |-> fmap[m]]
           q == [k \in 1 .. Count - 1 |-> IF k < i THEN k ELSE k + 1]
<1>0. JobInv /\ MemorySound /\ isOpen /\ pc = "idle" /\ UNCHANGED <<isOpen, disk, pc, temp>>
  BY DEF PlacesInv, FileErase, Ready, Idle
<1>1. /\ D \in Nat /\ D >= HeaderEnd /\ MapKnows /\ Sound(dir, D, cells)
      /\ Count \in Nat /\ dir \in Directory(Count) /\ DOMAIN dir = 1 .. Count
      /\ \A k \in 1 .. Count : dir[k] \in Entry
  BY <1>0, QuietNow
<1>2. /\ i \in 1 .. Count /\ dir[i].name = n /\ dir' = Without(dir, Count, i)
      /\ fmap' = MapFrom(kept, dir', i, Count - 1) /\ header'.dirOffset = D
  <2>1. Found(n) /\ Ready /\ IInv
    BY DEF FileErase, JobInv
  <2>2. header \in Header
    BY DEF JobInv, IInv, TypeOK
  <2> QED BY <2>1, <2>2, OpenDrive DEF FileErase, Found, Header
<1>3. /\ dir' \in Directory(Count - 1) /\ \A k \in 1 .. Count - 1 : dir'[k] = dir[q[k]] /\ q[k] \in 1 .. Count
      /\ \A k \in 1 .. Count - 1 : q[k] # i
      /\ \A j, k \in 1 .. Count - 1 : q[j] = q[k] => j = k
  <2>1. /\ dir' \in Directory(Count - 1)
        /\ \A k \in 1 .. Count - 1 : dir'[k] = IF k < i THEN dir[k] ELSE dir[k + 1]
    BY <1>1, <1>2, WithoutType
  <2>2. i \in Nat /\ Count \in Nat /\ i <= Count
    BY <1>1, <1>2
  <2>3. \A k \in 1 .. Count - 1 : q[k] = IF k < i THEN k ELSE k + 1
    OBVIOUS
  <2> HIDE DEF q, i
  <2>4. \A k \in 1 .. Count - 1 : q[k] \in 1 .. Count /\ q[k] # i /\ dir'[k] = dir[q[k]]
    BY <2>1, <2>2, <2>3
  <2>5. \A j, k \in 1 .. Count - 1 : q[j] = q[k] => j = k
    BY <2>2, <2>3
  <2> QED BY <2>1, <2>4, <2>5
<1> HIDE DEF q
<1>4. DOMAIN dir' = 1 .. Count - 1
  BY <1>3 DEF Directory
<1>5. Sound(dir', D, cells)
  <2>1. \A k \in DOMAIN dir' : dir'[k].name # JunkName => Placed(dir'[k], D, cells)
    BY <1>1, <1>3, <1>4 DEF Sound
  <2>2. \A j, k \in DOMAIN dir' : dir'[j].name # JunkName /\ dir'[k].name # JunkName /\ k # j
                                   => Apart(dir'[j], dir'[k])
    <3>1. \A j, k \in 1 .. Count : dir[j].name # JunkName /\ dir[k].name # JunkName /\ k # j => Apart(dir[j], dir[k])
      BY <1>1 DEF Sound
    <3> QED BY <1>3, <1>4, <3>1
  <2> QED BY <2>1, <2>2 DEF Sound
<1>6. MapKnows'
  <2>1. Entered(fmap', kept, dir', i, Count - 1)
    <3>1. i \in Nat /\ Count - 1 \in Int
      BY <1>1, <1>2
    <3>2. Entered(MapFrom(kept, dir', i, Count - 1), kept, dir', i, Count - 1)
      BY <3>1, MapFromEnters, Zenon
    <3> QED BY <1>2, <3>2, Zenon
  <2>2. \A j, k \in 1 .. Count - 1 : dir'[j].name # JunkName /\ dir'[j].name = dir'[k].name => j = k
    BY <1>4, <1>5 DEF Sound, Apart
  <2>3. ASSUME NEW k \in 1 .. Count - 1, dir'[k].name # JunkName
        PROVE  dir'[k].name \in DOMAIN fmap' /\ fmap'[dir'[k].name] = k
    <3> DEFINE m == dir'[k].name
    <3>1. CASE m \in NamesIn(dir', i, Count - 1)
      <4>1. m \in DOMAIN fmap' /\ fmap'[m] \in i .. Count - 1 /\ dir'[fmap'[m]].name = m
        BY <2>1, <3>1 DEF Entered
      <4>2. fmap'[m] \in 1 .. Count - 1
        BY <1>1, <1>2, <4>1
      <4> QED BY <2>2, <2>3, <4>1, <4>2
    <3>2. CASE m \notin NamesIn(dir', i, Count - 1)
      <4>1. k < i
        BY <1>1, <1>2, <3>2 DEF NamesIn
      <4>2. q[k] = k
        BY <4>1 DEF q
      <4>3. dir[k].name = m /\ m # n /\ k \in 1 .. Count
        <5>1. dir'[k] = dir[k] /\ k \in 1 .. Count
          BY <1>3, <4>2
        <5>2. dir[k].name # dir[i].name
          <6>1. dir[i].name # JunkName /\ dir[k].name # JunkName /\ k # i
            BY <1>2, <2>3, <4>1, <5>1, NamesAssumption DEF JunkName
          <6>2. Apart(dir[k], dir[i])
            BY <1>1, <1>2, <5>1, <6>1 DEF Sound
          <6> QED BY <6>2 DEF Apart
        <5> QED BY <1>2, <5>1, <5>2
      <4>4. m \in DOMAIN fmap /\ fmap[m] = k
        BY <1>1, <2>3, <4>3 DEF MapKnows
      <4>5. m \in DOMAIN kept /\ kept[m] = k
        BY <4>3, <4>4
      <4> QED BY <2>1, <3>2, <4>5 DEF Entered
    <3> QED BY <3>1, <3>2
  <2> QED BY <1>4, <2>3 DEF MapKnows
<1>7. MemorySound'
  <2>1. HandlesOK' /\ job' # "saveWrite" /\ cells' = cells
    BY <1>0 DEF JobInv, disk
  <2> QED BY <1>1, <1>2, <1>5, <1>6, <2>1, QuietNext
<1> QED BY <1>0, <1>7 DEF PlacesInv, DiskSound, Flushing, TempSound, disk

\* Copying over a file's old data makes its entry no longer.
LEMMA PlacesCopyInPlace ==
    ASSUME JobInv, JobInv', PlacesInv, NEW n \in Names, NEW h \in Handles, SaveFile(n, h), CopyInPlace(n, h)
    PROVE  PlacesInv'
<1> DEFINE D == header.dirOffset
           i == fmap[n]
           size == FileSize(n)
           e == [dir[i] EXCEPT !.time = mem[n].time, !.size = size]
<1>0. /\ IInv /\ HandlesOK /\ ClientOK /\ MemorySound /\ Ready /\ isOpen /\ pc = "idle" /\ job = "saveFile"
      /\ JobInv /\ job # "saveWrite"
  BY DEF JobInv, PlacesInv, CopyInPlace, SaveFile, Ready, Idle
<1>1. /\ D \in Nat /\ D >= HeaderEnd /\ writer = NoHandle /\ \A g \in Handles : ~handles[g].open
      /\ MapKnows /\ Sound(dir, D, cells)
      /\ Count \in Nat /\ dir \in Directory(Count) /\ DOMAIN dir = 1 .. Count
      /\ \A k \in 1 .. Count : dir[k] \in Entry
  BY <1>0, QuietNow
<1>2. /\ UNCHANGED <<isOpen, fmap, writer, disk, pc, temp>> /\ header'.dirOffset = D
      /\ UNCHANGED mem /\ cur' = n /\ job' = "saveWrite"
      /\ Fits(n) /\ OpenHandle(h, n, i) /\ Found(n)
      /\ dir' = [dir EXCEPT ![i] = e]
  <2>1. header \in Header
    BY <1>0 DEF IInv, TypeOK
  <2>2. header'.dirOffset = D
    BY <2>1 DEF CopyInPlace, NotePack, Header
  <2> QED BY <2>2 DEF CopyInPlace, SaveFile
<1>3. /\ i \in 1 .. Count /\ dir[i].name = n /\ n # JunkName /\ dir[i] \in Entry
      /\ size \in Nat /\ size <= dir[i].size /\ mem[n].time \in Times
  <2>1. i \in 1 .. Count /\ dir[i].name = n
    BY <1>0, <1>2, OpenDrive DEF Found
  <2>2. size \in Nat
    BY <1>0, FileContentsType
  <2>3. size <= dir[i].size
    BY <1>2 DEF Fits, EntryOf
  <2>4. mem[n].time \in Times /\ n # JunkName
    BY <1>0, NamesAssumption DEF ClientOK, FileObject, JunkName
  <2> QED BY <1>1, <2>1, <2>2, <2>3, <2>4
<1>4. /\ e.name = n /\ e.offset = dir[i].offset /\ e.size = size
      /\ dir[i].offset \in Nat /\ dir[i].size \in Nat
  BY <1>3 DEF Entry
<1> HIDE DEF e, size
<1>5. /\ DOMAIN dir' = 1 .. Count /\ dir'[i] = e /\ \A k \in 1 .. Count \ {i} : dir'[k] = dir[k]
  BY <1>1, <1>2, <1>3
<1>6. Placed(e, D, cells)
  <2>1. Placed(dir[i], D, cells)
    BY <1>1, <1>3 DEF Sound
  <2>2. Extent(e) \subseteq Extent(dir[i])
    BY <1>3, <1>4 DEF Extent
  <2> QED BY <1>1, <1>3, <1>4, <2>1, <2>2 DEF Placed
<1>7. ASSUME NEW k \in 1 .. Count \ {i}, dir[k].name # JunkName
      PROVE  Apart(e, dir[k]) /\ Apart(dir[k], e)
  <2>1. Apart(dir[i], dir[k])
    BY <1>1, <1>3, <1>7 DEF Sound
  <2>2. dir[k].offset \in Nat /\ dir[k].size \in Nat
    BY <1>1 DEF Entry
  <2> QED BY <1>3, <1>4, <2>1, <2>2 DEF Apart
<1>8. Sound(dir', D, cells)
  <2>1. \A k \in DOMAIN dir' : dir'[k].name # JunkName => Placed(dir'[k], D, cells)
    BY <1>1, <1>5, <1>6 DEF Sound
  <2>2. \A j, k \in DOMAIN dir' : dir'[j].name # JunkName /\ dir'[k].name # JunkName /\ k # j
                                   => Apart(dir'[j], dir'[k])
    BY <1>1, <1>5, <1>7 DEF Sound
  <2> QED BY <2>1, <2>2 DEF Sound
<1>9. MapKnows'
  <2>1. \A k \in 1 .. Count : dir'[k].name = dir[k].name
    BY <1>3, <1>4, <1>5
  <2> QED BY <1>1, <1>2, <1>5, <2>1 DEF MapKnows
<1>10. /\ handles'[h].idx = i /\ \A g \in Handles : handles'[g].open => g = h
  <2>1. handles \in [Handles -> Handle]
    BY <1>0 DEF IInv, TypeOK
  <2> QED BY <1>1, <1>2, <2>1 DEF OpenHandle
<1>11. writer' = NoHandle /\ DataEnd' = D /\ cells' = cells
  BY <1>1, <1>2 DEF DataEnd, disk
<1>12. FileSize(cur)' = size
  BY <1>2 DEF FileSize, size
<1>13. Appending' /\ InPlace'
  <2>1. Appending'
    BY <1>11 DEF Appending
  <2>2. InPlace'
    BY <1>4, <1>5, <1>10, <1>12 DEF InPlace
  <2> QED BY <2>1, <2>2
<1>14. MemorySound'
  BY <1>1, <1>2, <1>8, <1>9, <1>11, <1>13 DEF MemorySound
<1> QED BY <1>0, <1>2, <1>14 DEF PlacesInv, DiskSound, Flushing, TempSound, disk

\* A file that is created, or moved, begins behind all others.
LEMMA PlacesCreate ==
    ASSUME JobInv, JobInv', PlacesInv, NEW n \in Names, NEW h \in Handles, SaveFile(n, h), CopyToEnd(n, h)
    PROVE  PlacesInv'
<1> DEFINE D == header.dirOffset
           i == IF Found(n) THEN fmap[n] ELSE Count + 1
           e == [name |-> n, time |-> mem[n].time, offset |-> D, size |-> 0]
<1>0. /\ IInv /\ ClientOK /\ MemorySound /\ Ready /\ isOpen /\ pc = "idle" /\ job = "saveFile"
      /\ JobInv /\ job # "saveWrite" /\ FileCreate(n, mem[n].time, h)
  BY DEF JobInv, PlacesInv, CopyToEnd, FileCreate, SaveFile, Ready, Idle
<1>1. /\ D \in Nat /\ D >= HeaderEnd /\ \A g \in Handles : ~handles[g].open
      /\ MapKnows /\ Sound(dir, D, cells)
      /\ Count \in Nat /\ dir \in Directory(Count) /\ DOMAIN dir = 1 .. Count
      /\ \A k \in 1 .. Count : dir[k] \in Entry
  BY <1>0, QuietNow
<1>2. /\ UNCHANGED <<isOpen, disk, pc, temp>> /\ header'.dirOffset = D /\ OpenHandle(h, n, i) /\ writer' = h
  <2>1. header \in Header
    BY <1>0 DEF IInv, TypeOK
  <2>2. header'.dirOffset = D
    BY <1>0, <2>1 DEF FileCreate, Header
  <2> QED BY <1>0, <2>2 DEF FileCreate
<1>3. /\ DOMAIN dir' = DOMAIN dir \cup {i} /\ dir'[i] = e
      /\ \A k \in DOMAIN dir' \ {i} : k \in 1 .. Count /\ dir'[k] = dir[k]
      /\ n \in DOMAIN fmap' /\ fmap'[n] = i
      /\ \A m \in DOMAIN fmap : m # n => m \in DOMAIN fmap' /\ fmap'[m] = fmap[m]
  <2>1. CASE Found(n)
    <3>1. i = fmap[n] /\ i \in 1 .. Count /\ n \in DOMAIN fmap
      BY <1>0, <2>1, OpenDrive DEF Found
    <3>2. dir' = [dir EXCEPT ![i] = e] /\ fmap' = fmap
      BY <1>0, <2>1 DEF FileCreate
    <3> HIDE DEF i, e
    <3> QED BY <1>1, <3>1, <3>2 DEF i
  <2>2. CASE ~Found(n)
    <3>1. i = Count + 1
      BY <2>2
    <3>2. /\ dir' = Append1(dir, Count, e)
          /\ fmap' = [m \in DOMAIN fmap \cup {n} |-> IF m = n THEN i ELSE fmap[m]]
      BY <1>0, <2>2 DEF FileCreate
    <3> HIDE DEF i, e
    <3>3. DOMAIN dir' = 1 .. Count + 1 /\ dir'[Count + 1] = e /\ \A k \in 1 .. Count : dir'[k] = dir[k]
      BY <1>1, <3>2 DEF Append1
    <3>4. 1 .. Count + 1 = 1 .. Count \cup {i}
      BY <1>1, <3>1
    <3> QED BY <1>1, <3>1, <3>2, <3>3, <3>4
  <2> QED BY <2>1, <2>2
<1>4. n # JunkName /\ e.name = n /\ e.offset = D /\ e.size = 0
  BY NamesAssumption DEF JunkName
<1>5. ASSUME NEW k \in DOMAIN dir' \ {i}, dir'[k].name # JunkName
      PROVE  /\ dir'[k].name # n /\ dir[k] = dir'[k] /\ k \in 1 .. Count
             /\ dir[k].name \in DOMAIN fmap /\ fmap[dir[k].name] = k
             /\ dir[k].offset + dir[k].size <= D
  <2>1. dir[k] = dir'[k] /\ k \in 1 .. Count
    BY <1>3
  <2>2. dir[k].name \in DOMAIN fmap /\ fmap[dir[k].name] = k
    BY <1>1, <1>5, <2>1 DEF MapKnows
  <2>3. dir[k].name # n
    <3>1. CASE Found(n)
      BY <1>5, <2>2, <3>1
    <3>2. CASE ~Found(n)
      BY <1>1, <2>1, <2>2, <3>2 DEF Found
    <3> QED BY <3>1, <3>2
  <2>4. dir[k].offset + dir[k].size <= D
    BY <1>1, <1>5, <2>1 DEF Sound, Placed
  <2> QED BY <2>1, <2>2, <2>3, <2>4
<1> HIDE DEF i, e
<1>6. Placed(e, D, cells)
  <2>1. Extent(e) = {}
    BY <1>1, <1>4 DEF Extent
  <2> QED BY <1>1, <1>4, <2>1 DEF Placed
<1>7. Sound(dir', D, cells)
  <2>1. \A k \in DOMAIN dir' : dir'[k].name # JunkName => Placed(dir'[k], D, cells)
    BY <1>1, <1>3, <1>5, <1>6 DEF Sound
  <2>2. \A k \in DOMAIN dir' \ {i} : dir'[k].name # JunkName => Apart(e, dir'[k]) /\ Apart(dir'[k], e)
    BY <1>4, <1>5 DEF Apart
  <2>3. \A j, k \in DOMAIN dir' : dir'[j].name # JunkName /\ dir'[k].name # JunkName /\ k # j
                                   => Apart(dir'[j], dir'[k])
    BY <1>1, <1>3, <1>5, <2>2 DEF Sound
  <2> QED BY <2>1, <2>3 DEF Sound
<1>8. MapKnows'
  <2>1. ASSUME NEW k \in DOMAIN dir', dir'[k].name # JunkName
        PROVE  dir'[k].name \in DOMAIN fmap' /\ fmap'[dir'[k].name] = k
    <3>1. CASE k = i
      BY <1>3, <1>4, <3>1
    <3>2. CASE k # i
      BY <1>3, <1>5, <2>1, <3>2
    <3> QED BY <3>1, <3>2
  <2> QED BY <2>1 DEF MapKnows
<1>9. /\ handles'[h].idx = i /\ handles'[h].pos = 0 /\ \A g \in Handles : handles'[g].open => g = h
      /\ h # NoHandle
  <2>1. handles \in [Handles -> Handle]
    BY <1>0 DEF IInv, TypeOK
  <2> QED BY <1>1, <1>2, <2>1, SentinelAssumption DEF OpenHandle
<1>10. DataEnd' = D /\ cells' = cells
  BY <1>1, <1>2, <1>9 DEF DataEnd, disk
<1>11. Appending'
  BY <1>2, <1>3, <1>4, <1>5, <1>9 DEF Appending
<1>12. InPlace'
  BY <1>2, <1>9 DEF InPlace
<1>13. MemorySound'
  BY <1>1, <1>2, <1>7, <1>8, <1>10, <1>11, <1>12 DEF MemorySound
<1> QED BY <1>0, <1>2, <1>13 DEF PlacesInv, DiskSound, Flushing, TempSound, disk

\* What is known of the file being written.
LEMMA FileInHand ==
    ASSUME JobInv, PlacesInv, NEW h \in Handles, handles[h].open
    PROVE  /\ job = "saveWrite" /\ isOpen /\ pc = "idle" /\ cur \in Names /\ cur \in todo /\ cur # JunkName
           /\ handles[h].idx \in 1 .. Count /\ handles[h].idx = fmap[cur]
           /\ dir[handles[h].idx] \in Entry /\ dir[handles[h].idx].name = cur
           /\ handles[h].pos \in Nat /\ FileSize(cur) \in Nat /\ handles[h].pos <= FileSize(cur)
           /\ \A g \in Handles : handles[g].open => g = h
           /\ writer \in {h, NoHandle} /\ h # NoHandle
           /\ Count \in Nat /\ dir \in Directory(Count) /\ DOMAIN dir = 1 .. Count
           /\ \A i \in 1 .. Count : dir[i] \in Entry
           /\ header.dirOffset \in Nat /\ header.dirOffset >= HeaderEnd
           /\ MapKnows /\ Sound(dir, DataEnd, cells) /\ DataEnd \in Nat
<1>1. /\ job = "saveWrite" /\ cur \in todo /\ cur \in DOMAIN fmap /\ handles[h].idx = fmap[cur]
      /\ handles[h].pos <= FileSize(cur) /\ \A g \in Handles : handles[g].open => g = h
      /\ writer # NoHandle => writer \in Handles /\ handles[writer].open
  BY DEF JobInv, HandlesOK
<1>2. isOpen /\ pc = "idle" /\ cur \in Names
  BY <1>1 DEF JobInv, JobPhase, ClientOK
<1>3. IInv /\ Ready
  BY <1>2 DEF JobInv, Ready, Idle
<1>4. /\ Count \in Nat /\ dir \in Directory(Count) /\ header.dirOffset \in Nat /\ DOMAIN dir = 1 .. Count
      /\ \A i \in 1 .. Count : dir[i] \in Entry
      /\ fmap[cur] \in 1 .. Count /\ dir[fmap[cur]].name = cur
  BY <1>1, <1>3, OpenDrive DEF Directory
<1>5. handles[h].pos \in Nat
  BY DEF JobInv, IInv, TypeOK, Handle
<1>6. FileSize(cur) \in Nat
  BY <1>2, FileContentsType DEF JobInv
<1>7. cur # JunkName /\ h # NoHandle
  BY <1>2, NamesAssumption, SentinelAssumption DEF JunkName
<1>8. DataEnd \in Nat
  BY <1>2, DataEndType
<1> QED BY <1>1, <1>2, <1>4, <1>5, <1>6, <1>7, <1>8 DEF PlacesInv, MemorySound

\* Writing a cell of a file: behind all data, or over the file's own.
LEMMA PlacesWrite ==
    ASSUME JobInv, JobInv', PlacesInv, NEW h \in Handles, SaveWrite(h)
    PROVE  PlacesInv'
<1> DEFINE i == handles[h].idx
           pos == handles[h].pos
           o == dir[i].offset + pos
           D == header.dirOffset
           c == FileContents(cur)[pos + 1]
<1>0. handles[h].open /\ pos < FileSize(cur) /\ Write(h, c)
  BY DEF SaveWrite
<1>1. /\ job = "saveWrite" /\ isOpen /\ pc = "idle" /\ cur \in Names /\ cur # JunkName
      /\ i \in 1 .. Count /\ dir[i] \in Entry /\ dir[i].name = cur
      /\ pos \in Nat /\ FileSize(cur) \in Nat
      /\ \A g \in Handles : handles[g].open => g = h
      /\ writer \in {h, NoHandle} /\ h # NoHandle
      /\ Count \in Nat /\ dir \in Directory(Count) /\ DOMAIN dir = 1 .. Count
      /\ \A k \in 1 .. Count : dir[k] \in Entry
      /\ D \in Nat /\ D >= HeaderEnd
      /\ MapKnows /\ Sound(dir, DataEnd, cells) /\ DataEnd \in Nat
  BY <1>0, FileInHand
<1>2. c \in Data
  <2>1. \A k \in 1 .. FileSize(cur) : FileContents(cur)[k] \in Data
    BY <1>1, FileContentsType DEF JobInv
  <2> QED BY <1>0, <1>1, <2>1
<1>3. /\ cells' = [cells EXCEPT ![o] = c] /\ o <= MaxOffset
      /\ handles' = [handles EXCEPT ![h].pos = pos + 1]
      /\ dir' = IF pos + 1 > dir[i].size THEN [dir EXCEPT ![i].size = pos + 1] ELSE dir
      /\ diskDir' \in {NoDiskDir, diskDir}
      /\ UNCHANGED <<isOpen, header, fmap, writer, diskHeader, pc, temp>>
  BY <1>0 DEF Write, At
<1>4. /\ dir[i].offset \in Nat /\ dir[i].size \in Nat /\ Placed(dir[i], DataEnd, cells) /\ dir[i].offset >= HeaderEnd
      /\ o \in Offsets
  <2>1. dir[i].offset \in Nat /\ dir[i].size \in Nat
    BY <1>1 DEF Entry
  <2>2. Placed(dir[i], DataEnd, cells)
    BY <1>1 DEF Sound
  <2>3. dir[i].offset >= HeaderEnd
    BY <2>2 DEF Placed
  <2>4. o >= HeaderEnd /\ o <= MaxOffset /\ o \in Nat
    BY <1>1, <1>3, <2>1, <2>3 DEF HeaderEnd
  <2> HIDE DEF o
  <2> QED BY <2>1, <2>2, <2>3, <2>4, BoundsAssumption DEF Offsets, HeaderEnd
<1> HIDE DEF c, o
<1>5. cells'[o] \in Data /\ \A x \in Offsets : cells'[x] = cells[x] \/ cells'[x] \in Data
  <2>1. cells \in [Offsets -> Data \cup {Empty}]
    BY DEF JobInv, IInv, TypeOK
  <2> QED BY <1>2, <1>3, <1>4, <2>1
<1>6. DiskSound'
  <2>1. \A k \in DOMAIN diskDir.dir : diskDir.dir[k] \in Entry
    BY DEF JobInv, IInv, TypeOK
  <2>2. diskDir.at \in Nat /\ diskDir.dir \in Seq(Entry) /\ Sound(diskDir.dir, diskDir.at, cells)
    BY DEF JobInv, IInv, TypeOK, PlacesInv, DiskSound
  <2>3. Sound(diskDir.dir, diskDir.at, cells')
    <3>1. \A x \in Offsets : x < diskDir.at => cells'[x] = cells[x] \/ cells'[x] \in Data
      BY <1>5
    <3> QED BY <2>1, <2>2, <3>1, SoundCells
  <2>4. NoDiskDir.dir \in Seq(Entry) /\ DOMAIN NoDiskDir.dir = {}
    BY DEF NoDiskDir, NoDir
  <2>5. Sound(NoDiskDir.dir, NoDiskDir.at, cells')
    BY <2>4, SoundEmpty
  <2>6. diskDir'.dir \in Seq(Entry) /\ Sound(diskDir'.dir, diskDir'.at, cells')
    BY <1>3, <2>2, <2>3, <2>4, <2>5
  <2> QED BY <1>1, <1>3, <2>6 DEF PlacesInv, DiskSound
<1>7. /\ handles'[h].pos = pos + 1 /\ handles'[h].idx = i /\ handles'[h].open
      /\ \A g \in Handles : handles'[g].open => g = h
  <2>1. handles \in [Handles -> Handle]
    BY DEF JobInv, IInv, TypeOK
  <2>2. handles'[h].pos = pos + 1 /\ handles'[h].idx = i /\ handles'[h].open = handles[h].open
    BY <1>3, <2>1 DEF Handle
  <2>3. \A g \in Handles \ {h} : handles'[g] = handles[g]
    BY <1>3, <2>1
  <2> QED BY <1>0, <1>1, <2>2, <2>3
<1>8. DOMAIN dir' = 1 .. Count /\ \A k \in 1 .. Count : dir'[k].name = dir[k].name
  <2>1. CASE dir' = dir
    BY <1>1, <2>1
  <2>2. CASE dir' = [dir EXCEPT ![i].size = pos + 1]
    <3>1. dir'[i] = [dir[i] EXCEPT !.size = pos + 1] /\ \A k \in 1 .. Count \ {i} : dir'[k] = dir[k]
      BY <1>1, <2>2
    <3>2. dir'[i].name = dir[i].name
      BY <1>1, <3>1 DEF Entry
    <3> QED BY <1>1, <2>2, <3>1, <3>2
  <2> QED BY <1>3, <2>1, <2>2
<1>9. MapKnows'
  BY <1>1, <1>3, <1>8 DEF MapKnows
<1>10. MemorySound'
  <2>1. CASE writer = h
    <3>1. dir[i].offset = D /\ dir[i].size = pos
      BY <1>1, <2>1 DEF PlacesInv, MemorySound, Appending
    <3>2. \A k \in 1 .. Count \ {i} : dir[k].name # JunkName => dir[k].offset + dir[k].size <= D
      BY <1>1, <2>1 DEF PlacesInv, MemorySound, Appending
    <3>3. DataEnd = D + pos /\ DataEnd' = D + pos + 1
      BY <1>1, <1>3, <1>7, <2>1 DEF DataEnd
    <3> DEFINE e == [dir[i] EXCEPT !.size = pos + 1]
    <3>4. e.offset = D /\ e.size = pos + 1 /\ e.name = cur
      BY <1>1, <3>1 DEF Entry
    <3>5. dir'[i] = e /\ \A k \in 1 .. Count \ {i} : dir'[k] = dir[k]
      <4>1. dir' = [dir EXCEPT ![i].size = pos + 1]
        BY <1>1, <1>3, <3>1
      <4> QED BY <1>1, <4>1
    <3> HIDE DEF e
    <3>6. Sound(dir, DataEnd', cells')
      <4>1. \A k \in DOMAIN dir : dir[k] \in Entry
        BY <1>1
      <4>2. Sound(dir, DataEnd, cells')
        BY <1>1, <1>5, <4>1, SoundCells
      <4>3. DataEnd' \in Nat /\ DataEnd <= DataEnd' /\ DataEnd \in Nat
        BY <1>1, <3>3
      <4> QED BY <4>1, <4>2, <4>3, SoundMore
    <3>7. Placed(e, DataEnd', cells')
      <4>1. ASSUME NEW x \in Extent(e) PROVE x \in Offsets /\ cells'[x] \in Data
        <5>1. CASE x = o
          BY <1>4, <1>5, <5>1
        <5>2. CASE x # o
          <6>1. x \in Extent(dir[i])
            <7>1. x \in D .. D + pos /\ x # D + pos
              <8>1. e.offset + e.size - 1 = D + pos /\ o = D + pos
                BY <1>1, <3>1, <3>4 DEF o
              <8> QED BY <3>4, <4>1, <5>2, <8>1 DEF Extent
            <7>2. Extent(dir[i]) = D .. D + pos - 1
              BY <3>1 DEF Extent
            <7>3. D \in Nat /\ pos \in Nat
              BY <1>1
            <7> QED BY <7>1, <7>2, <7>3
          <6>2. Placed(dir[i], DataEnd', cells')
            BY <1>1, <3>6 DEF Sound
          <6> QED BY <6>1, <6>2 DEF Placed
        <5> QED BY <5>1, <5>2
      <4>2. e.offset >= HeaderEnd /\ e.offset + e.size <= DataEnd'
        BY <1>1, <3>3, <3>4
      <4> QED BY <4>1, <4>2 DEF Placed
    <3>8. \A k \in 1 .. Count \ {i} : dir[k].name # JunkName => Apart(e, dir[k]) /\ Apart(dir[k], e)
      <4>1. ASSUME NEW k \in 1 .. Count \ {i}, dir[k].name # JunkName
            PROVE  Apart(e, dir[k]) /\ Apart(dir[k], e)
        <5>1. dir[k].name # cur
          <6>1. Apart(dir[k], dir[i])
            BY <1>1, <4>1 DEF Sound
          <6> QED BY <1>1, <6>1 DEF Apart
        <5>2. dir[k].offset + dir[k].size <= D
          BY <3>2, <4>1
        <5> QED BY <3>4, <5>1, <5>2 DEF Apart
      <4> QED BY <4>1
    <3>9. Sound(dir', DataEnd', cells')
      <4>1. \A k \in DOMAIN dir' : dir'[k].name # JunkName => Placed(dir'[k], DataEnd', cells')
        BY <1>1, <1>8, <3>5, <3>6, <3>7 DEF Sound
      <4>2. \A j, k \in DOMAIN dir' : dir'[j].name # JunkName /\ dir'[k].name # JunkName /\ k # j
                                       => Apart(dir'[j], dir'[k])
        BY <1>1, <1>8, <3>5, <3>6, <3>8 DEF Sound
      <4> QED BY <4>1, <4>2 DEF Sound
    <3>10. Appending'
      BY <1>3, <1>7, <1>8, <2>1, <3>2, <3>4, <3>5 DEF Appending
    <3>11. InPlace'
      BY <1>3, <1>7, <2>1 DEF InPlace
    <3> QED BY <1>1, <1>3, <1>9, <3>9, <3>10, <3>11 DEF MemorySound
  <2>2. CASE writer = NoHandle
    <3>1. dir[i].size = FileSize(cur)
      BY <1>0, <1>1, <2>2 DEF PlacesInv, MemorySound, InPlace
    <3>2. dir' = dir
      BY <1>0, <1>1, <1>3, <3>1
    <3>3. DataEnd' = DataEnd
      BY <1>3, <2>2 DEF DataEnd
    <3>4. Sound(dir', DataEnd', cells')
      <4>1. \A k \in DOMAIN dir : dir[k] \in Entry
        BY <1>1
      <4>2. Sound(dir, DataEnd, cells')
        BY <1>1, <1>5, <4>1, SoundCells
      <4> QED BY <3>2, <3>3, <4>2
    <3>5. FileSize(cur)' = FileSize(cur)
      BY DEF SaveWrite, clientVars, saveVars, FileSize
    <3>6. Appending' /\ InPlace'
      BY <1>3, <1>7, <2>2, <3>1, <3>2, <3>5 DEF Appending, InPlace
    <3> QED BY <1>1, <1>3, <1>9, <3>4, <3>6 DEF MemorySound
  <2> QED BY <1>1, <2>1, <2>2
<1> QED BY <1>1, <1>3, <1>6, <1>10 DEF PlacesInv, Flushing, TempSound

\* Closing the file that was appended puts the directory behind it.
LEMMA PlacesFileClose ==
    ASSUME JobInv, JobInv', PlacesInv, NEW h \in Handles, SaveFileClose(h)
    PROVE  PlacesInv'
<1> DEFINE i == handles[h].idx
           pos == handles[h].pos
           D == header.dirOffset
<1>0. handles[h].open /\ FileClose(h) /\ job' = "saveFile"
  BY DEF SaveFileClose
<1>1. /\ isOpen /\ pc = "idle" /\ i \in 1 .. Count /\ pos \in Nat
      /\ writer \in {h, NoHandle} /\ h # NoHandle
      /\ D \in Nat /\ D >= HeaderEnd
      /\ MapKnows /\ Sound(dir, DataEnd, cells)
  BY <1>0, FileInHand
<1>2. UNCHANGED <<isOpen, dir, fmap, disk, pc, temp>>
  BY <1>0 DEF FileClose
<1>3. header'.dirOffset = DataEnd
  <2>1. CASE writer = h
    <3>1. dir[i].offset = D
      BY <1>1, <2>1 DEF PlacesInv, MemorySound, Appending
    <3>2. Live(h)
      BY <1>0, <1>1 DEF Live
    <3>3. header \in Header
      BY DEF JobInv, IInv, TypeOK
    <3>4. header' = [header EXCEPT !.dirOffset = dir[i].offset + pos]
      BY <1>0, <2>1, <3>2 DEF FileClose, At
    <3> QED BY <1>1, <2>1, <3>1, <3>3, <3>4 DEF DataEnd, Header
  <2>2. CASE writer = NoHandle
    BY <1>0, <1>1, <2>2 DEF FileClose, DataEnd
  <2> QED BY <1>1, <2>1, <2>2
<1>4. DataEnd \in Nat /\ DataEnd >= D
  BY <1>1, DataEndType
<1>5. header'.dirOffset >= HeaderEnd
  BY <1>1, <1>3, <1>4 DEF HeaderEnd
<1>6. MapKnows'
  BY <1>1, <1>2 DEF MapKnows
<1>7. MemorySound'
  <2>1. HandlesOK' /\ job' # "saveWrite"
    BY <1>0 DEF JobInv
  <2>2. Sound(dir', header'.dirOffset, cells')
    BY <1>1, <1>2, <1>3 DEF disk
  <2> QED BY <1>5, <1>6, <2>1, <2>2, QuietNext
<1> QED BY <1>1, <1>2, <1>7 DEF PlacesInv, DiskSound, Flushing, TempSound, disk

\* Pack() starts with an empty temporary drive.
LEMMA PlacesPackStart ==
    ASSUME JobInv, JobInv', PlacesInv, PackUnchanged \/ PackHeader, job # "saveWrite", job' # "saveWrite"
    PROVE  PlacesInv'
<1>0. /\ JobInv /\ MemorySound /\ isOpen /\ pc' = "copy" /\ StartCopy
      /\ UNCHANGED <<isOpen, header, dir, fmap, cells, diskDir>> /\ diskHeader' \in {diskHeader, header}
  BY DEF PlacesInv, JobInv, IInv, Phase, PackUnchanged, PackGuard, Ready, PackHeader, WriteHeader, memory, disk
<1>1. /\ header.dirOffset \in Nat /\ header.dirOffset >= HeaderEnd /\ writer = NoHandle
      /\ MapKnows /\ Sound(dir, header.dirOffset, cells)
  BY <1>0, QuietNow
<1>2. MemorySound'
  <2>1. HandlesOK' /\ MapKnows'
    BY <1>0, <1>1 DEF JobInv, MapKnows
  <2> QED BY <1>0, <1>1, <2>1, QuietNext
<1>3. /\ temp'.header.dirOffset = HeaderEnd /\ DOMAIN temp'.dir = {}
  BY <1>0 DEF StartCopy, FreshHeader, NoDir
<1>4. TempSound'
  <2>1. Sound(temp'.dir, temp'.header.dirOffset, temp'.cells)
    BY <1>3, SoundEmpty
  <2> QED BY <1>3, <2>1 DEF TempSound, Strict, HeaderEnd
<1> QED BY <1>0, <1>1, <1>2, <1>4 DEF PlacesInv, DiskSound, Flushing

\* The drive w is v after size cells were copied to it as the file n: its entry k and
\* their place at are the file's own, or behind all others.
CopiedAt(w, v, n, size, c, k, at) ==
    LET count == v.header.count
    IN /\ DOMAIN w.dir = 1 .. count \cup {k}
       /\ w.dir[k].name = n /\ w.dir[k].offset = at /\ w.dir[k].size = size
       /\ \A i \in 1 .. count \ {k} : w.dir[i] = v.dir[i] /\ v.dir[i].name # n
       /\ w.cells = [o \in Offsets |-> IF o \in at .. at + size - 1 THEN c[o - at + 1] ELSE v.cells[o]]
       /\ \/ at = v.header.dirOffset /\ w.header.dirOffset = at + size
          \/ /\ k \in 1 .. count /\ size <= v.dir[k].size /\ at = v.dir[k].offset
             /\ w.header.dirOffset = v.header.dirOffset

LEMMA CopyIntoPlace ==
    ASSUME NEW v, Drive(v), NEW n, NEW t, NEW size \in Nat, NEW c,
           \A i, j \in 1 .. v.header.count : v.dir[i].name = v.dir[j].name => i = j
    PROVE  \E k, at : CopiedAt(CopyInto(v, n, t, c, size), v, n, size, c, k, at)
<1> DEFINE count == v.header.count
           same == {i \in 1 .. count : v.dir[i].name = n}
           k == IF same = {} THEN count + 1 ELSE CHOOSE i \in same : TRUE
           fits == same # {} /\ size <= v.dir[k].size
           D == v.header.dirOffset
           at == IF fits THEN v.dir[k].offset ELSE D
           e == [name |-> n, time |-> t, offset |-> at, size |-> size]
           repack == same # {} /\ (~fits \/ size < v.dir[k].size)
           w == CopyInto(v, n, t, c, size)
<1>1. count \in Nat /\ v.dir \in Directory(count) /\ DOMAIN v.dir = 1 .. count /\ v.header \in Header
  BY DEF Drive, Header, Directory
<1>2. /\ w.header = [v.header EXCEPT !.count = IF same = {} THEN count + 1 ELSE count,
                                     !.dirOffset = IF fits THEN @ ELSE at + size,
                                     !.needPack = @ \/ repack]
      /\ w.dir = IF same = {} THEN Append1(v.dir, count, e) ELSE [v.dir EXCEPT ![k] = e]
      /\ w.cells = [o \in Offsets |-> IF o \in at .. at + size - 1 THEN c[o - at + 1] ELSE v.cells[o]]
  BY Zenon DEF CopyInto
<1>3. e.name = n /\ e.offset = at /\ e.size = size
  OBVIOUS
<1>4. (same = {} => k = count + 1) /\ (same # {} => k \in same)
  OBVIOUS
<1>5. \A i \in 1 .. count : i \in same <=> v.dir[i].name = n
  OBVIOUS
<1>6. same \subseteq 1 .. count
  OBVIOUS
<1> HIDE DEF same, k, e, w, repack
<1>7. fits => same # {} /\ size <= v.dir[k].size
  OBVIOUS
<1> HIDE DEF fits
<1>8. at = IF fits THEN v.dir[k].offset ELSE D
  OBVIOUS
<1> HIDE DEF at
<1>9. w.header.dirOffset = IF fits THEN D ELSE at + size
  BY <1>1, <1>2 DEF Header
<1>10. /\ DOMAIN w.dir = 1 .. count \cup {k} /\ w.dir[k] = e
       /\ \A i \in 1 .. count \ {k} : w.dir[i] = v.dir[i] /\ v.dir[i].name # n
  <2>1. CASE same = {}
    <3>1. w.dir = Append1(v.dir, count, e) /\ k = count + 1
      BY <1>2, <1>4, <2>1
    <3>2. /\ DOMAIN w.dir = 1 .. count + 1 /\ w.dir[count + 1] = e
          /\ \A i \in 1 .. count : w.dir[i] = v.dir[i]
      BY ONLY <1>1, <3>1 DEF Append1
    <3>3. 1 .. count + 1 = 1 .. count \cup {count + 1}
      BY ONLY <1>1
    <3>4. \A i \in 1 .. count : v.dir[i].name # n
      BY <1>5, <2>1
    <3> QED BY <3>1, <3>2, <3>3, <3>4
  <2>2. CASE same # {}
    <3>1. w.dir = [v.dir EXCEPT ![k] = e] /\ k \in same
      BY <1>2, <1>4, <2>2
    <3>2. k \in 1 .. count /\ v.dir[k].name = n
      BY <1>5, <1>6, <3>1
    <3>3. DOMAIN w.dir = 1 .. count /\ w.dir[k] = e /\ \A i \in 1 .. count \ {k} : w.dir[i] = v.dir[i]
      BY ONLY <1>1, <3>1, <3>2
    <3>4. \A i \in 1 .. count \ {k} : v.dir[i].name # n
      BY <3>2
    <3> QED BY <3>2, <3>3, <3>4
  <2> QED BY <2>1, <2>2
<1>11. w.dir[k].name = n /\ w.dir[k].offset = at /\ w.dir[k].size = size
  BY <1>3, <1>10
<1>12. \/ at = D /\ w.header.dirOffset = at + size
       \/ k \in 1 .. count /\ size <= v.dir[k].size /\ at = v.dir[k].offset /\ w.header.dirOffset = D
  <2>1. CASE fits
    <3>1. k \in 1 .. count
      BY <1>4, <1>6, <1>7, <2>1
    <3> QED BY <1>7, <1>8, <1>9, <2>1, <3>1
  <2>2. CASE ~fits
    BY <1>8, <1>9, <2>2
  <2> QED BY <2>1, <2>2
<1>13. CopiedAt(w, v, n, size, c, k, at)
  BY <1>2, <1>10, <1>11, <1>12 DEF CopiedAt
<1> QED BY <1>13 DEF w

\* The place that a file is copied to is apart from the other files.
LEMMA CopiedApart ==
    ASSUME NEW v, Drive(v), Strict(v), NEW n, NEW size \in Nat, NEW c, NEW w, NEW k, NEW at,
           CopiedAt(w, v, n, size, c, k, at)
    PROVE  /\ at \in Nat /\ at >= HeaderEnd /\ w.header.dirOffset \in Nat
           /\ at + size <= w.header.dirOffset /\ v.header.dirOffset <= w.header.dirOffset
           /\ v.header.dirOffset \in Nat /\ v.header.dirOffset >= HeaderEnd
           /\ at + size <= v.header.dirOffset \/ at = v.header.dirOffset
           /\ \A i \in 1 .. v.header.count \ {k} :
                 /\ v.dir[i].offset \in Nat /\ v.dir[i].size \in Nat
                 /\ v.dir[i].offset >= HeaderEnd /\ v.dir[i].offset + v.dir[i].size <= v.header.dirOffset
                 /\ \/ v.dir[i].offset + v.dir[i].size <= at \/ at + size <= v.dir[i].offset
                    \/ v.dir[i].size = 0 \/ size = 0
<1> DEFINE count == v.header.count
           D == v.header.dirOffset
           to == w.header.dirOffset
<1>1. count \in Nat /\ D \in Nat /\ D >= HeaderEnd /\ DOMAIN v.dir = 1 .. count
  BY DEF Drive, Strict, Header, Directory
<1>2. \A i \in 1 .. count : v.dir[i].offset \in Nat /\ v.dir[i].size \in Nat
  BY DEF Drive, Directory, Entry
<1>3. \A i \in 1 .. count : v.dir[i].offset >= HeaderEnd /\ v.dir[i].offset + v.dir[i].size <= D
  BY <1>1 DEF Strict
<1>4. \A i, j \in 1 .. count : j # i => Apart(v.dir[i], v.dir[j])
  BY <1>1 DEF Strict
<1>5. CASE at = D /\ to = at + size
  <2>1. \A i \in 1 .. count : v.dir[i].offset + v.dir[i].size <= at
    BY <1>3, <1>5
  <2> HIDE DEF count, D, to
  <2>2. at \in Nat /\ at >= HeaderEnd /\ to \in Nat /\ at + size <= to /\ D <= to
    BY <1>1, <1>5
  <2> QED BY <1>1, <1>2, <1>3, <1>5, <2>1, <2>2 DEF count, D, to
<1>6. CASE k \in 1 .. count /\ size <= v.dir[k].size /\ at = v.dir[k].offset /\ to = D
  <2> DEFINE f == v.dir[k]
  <2>1. f.offset \in Nat /\ f.size \in Nat /\ f.offset >= HeaderEnd /\ f.offset + f.size <= D
    BY <1>2, <1>3, <1>6
  <2>2. size <= f.size /\ at = f.offset /\ to = D
    BY <1>6
  <2> HIDE DEF count, D, to, f
  <2>3. at \in Nat /\ at >= HeaderEnd /\ to \in Nat /\ at + size <= to /\ D <= to /\ at + size <= D
    BY <1>1, <2>1, <2>2
  <2>4. ASSUME NEW i \in 1 .. count \ {k}
        PROVE  \/ v.dir[i].offset + v.dir[i].size <= at \/ at + size <= v.dir[i].offset
               \/ v.dir[i].size = 0 \/ size = 0
    <3>1. Apart(f, v.dir[i])
      BY <1>4, <1>6 DEF f
    <3>2. v.dir[i].offset \in Nat /\ v.dir[i].size \in Nat
      BY <1>2
    <3> QED BY <2>1, <2>2, <3>1, <3>2 DEF Apart
  <2> QED BY <1>1, <1>2, <1>3, <2>3, <2>4 DEF count, D, to
<1>7. \/ at = D /\ to = at + size
      \/ k \in 1 .. count /\ size <= v.dir[k].size /\ at = v.dir[k].offset /\ to = D
  BY DEF CopiedAt
<1> QED BY <1>5, <1>6, <1>7

\* Copying data to a drive leaves all its entries in cells of their own.
LEMMA CopyIntoStrict ==
    ASSUME NEW v, Drive(v), Strict(v), NEW n, NEW t, NEW size \in Nat, NEW c,
           n # JunkName => \A k \in 1 .. size : c[k] \in Data,
           v.header.dirOffset + size - 1 <= MaxOffset
    PROVE  Strict(CopyInto(v, n, t, c, size))
<1> DEFINE count == v.header.count
           D == v.header.dirOffset
           w == CopyInto(v, n, t, c, size)
           to == w.header.dirOffset
<1>1. DOMAIN v.dir = 1 .. count
  BY DEF Drive, Directory
<1>2. \A i, j \in 1 .. count : v.dir[i].name = v.dir[j].name => i = j
  BY <1>1 DEF Strict, Apart
<1>3. PICK k, at : CopiedAt(w, v, n, size, c, k, at)
  BY <1>2, CopyIntoPlace
<1> HIDE DEF w
<1> DEFINE Others == 1 .. count \ {k}
           e == w.dir[k]
<1>4. /\ DOMAIN w.dir = Others \cup {k}
      /\ e.name = n /\ e.offset = at /\ e.size = size
      /\ \A i \in Others : w.dir[i] = v.dir[i] /\ v.dir[i].name # n
      /\ w.cells = [o \in Offsets |-> IF o \in at .. at + size - 1 THEN c[o - at + 1] ELSE v.cells[o]]
  BY <1>3 DEF CopiedAt
<1>5. /\ at \in Nat /\ at >= HeaderEnd /\ to \in Nat /\ at + size <= to /\ D <= to /\ D \in Nat /\ D >= HeaderEnd
      /\ at + size <= D \/ at = D
      /\ \A i \in Others :
            /\ v.dir[i].offset \in Nat /\ v.dir[i].size \in Nat
            /\ v.dir[i].offset >= HeaderEnd /\ v.dir[i].offset + v.dir[i].size <= D
            /\ \/ v.dir[i].offset + v.dir[i].size <= at \/ at + size <= v.dir[i].offset
               \/ v.dir[i].size = 0 \/ size = 0
  BY <1>3, CopiedApart
<1>6. \A i, j \in Others : j # i => Apart(v.dir[i], v.dir[j])
  BY <1>1 DEF Strict
<1>7. \A i \in Others : v.dir[i].name # JunkName => Placed(v.dir[i], D, v.cells)
  BY <1>1 DEF Strict, Sound
<1>8. D + size - 1 <= MaxOffset
  OBVIOUS
<1> HIDE DEF e, to, D, Others
<1>9. \A i \in Others : Apart(e, v.dir[i]) /\ Apart(v.dir[i], e)
  <2> SUFFICES ASSUME NEW i \in Others PROVE Apart(e, v.dir[i]) /\ Apart(v.dir[i], e)
    OBVIOUS
  <2>1. /\ v.dir[i].offset + v.dir[i].size <= at \/ at + size <= v.dir[i].offset
           \/ v.dir[i].size = 0 \/ size = 0
        /\ v.dir[i].name # n
    BY <1>4, <1>5
  <2> QED BY <1>4, <2>1 DEF Apart
<1>10. ASSUME NEW i \in Others, v.dir[i].name # JunkName PROVE Placed(v.dir[i], to, w.cells)
  <2> DEFINE f == v.dir[i]
  <2>1. Placed(f, D, v.cells)
    BY <1>7, <1>10
  <2>2. /\ f.offset \in Nat /\ f.size \in Nat /\ f.offset >= HeaderEnd /\ f.offset + f.size <= D
        /\ f.offset + f.size <= at \/ at + size <= f.offset \/ f.size = 0 \/ size = 0
    BY <1>5
  <2> HIDE DEF f
  <2>3. ASSUME NEW x \in Extent(f) PROVE x \in Offsets /\ w.cells[x] \in Data
    <3>1. x \in Offsets /\ v.cells[x] \in Data
      BY <2>1 DEF Placed
    <3>2. x \notin at .. at + size - 1
      BY <1>5, <2>2, <2>3 DEF Extent
    <3> QED BY <1>4, <3>1, <3>2
  <2>4. f.offset + f.size <= to
    BY <1>5, <2>2
  <2> QED BY <2>2, <2>3, <2>4 DEF Placed, f
<1>11. n # JunkName => Placed(e, to, w.cells)
  <2> SUFFICES ASSUME n # JunkName, NEW x \in Extent(e) PROVE x \in Offsets /\ w.cells[x] \in Data
    BY <1>4, <1>5 DEF Placed
  <2>1. x \in at .. at + size - 1
    BY <1>4 DEF Extent
  <2>2. x \in Offsets
    <3>1. x <= MaxOffset
      BY <1>5, <1>8, <2>1, BoundsAssumption
    <3> QED BY <1>5, <2>1, <3>1, BoundsAssumption DEF Offsets, HeaderEnd
  <2>3. x - at + 1 \in 1 .. size
    BY <1>5, <2>1
  <2>4. w.cells[x] = c[x - at + 1]
    BY <1>4, <2>1, <2>2
  <2> QED BY <2>2, <2>3, <2>4
<1>12. \A i, j \in DOMAIN w.dir : j # i => Apart(w.dir[i], w.dir[j])
  BY <1>4, <1>6, <1>9 DEF e
<1>13. Sound(w.dir, to, w.cells)
  <2>1. \A i \in DOMAIN w.dir : w.dir[i].name # JunkName => Placed(w.dir[i], to, w.cells)
    BY <1>4, <1>10, <1>11 DEF e
  <2> QED BY <1>12, <2>1 DEF Sound
<1>14. \A i \in DOMAIN w.dir : w.dir[i].offset >= HeaderEnd /\ w.dir[i].offset + w.dir[i].size <= to
  <2>1. e.offset >= HeaderEnd /\ e.offset + e.size <= to
    BY <1>4, <1>5
  <2>2. \A i \in Others : v.dir[i].offset >= HeaderEnd /\ v.dir[i].offset + v.dir[i].size <= to
    BY <1>5
  <2> QED BY <1>4, <2>1, <2>2 DEF e
<1>15. to >= HeaderEnd
  BY <1>5 DEF HeaderEnd
<1> QED BY <1>12, <1>13, <1>14, <1>15 DEF Strict, to, w

\* One turn of the loop of Pack(), and a Pack() that gives up.
LEMMA PlacesPackFile ==
    ASSUME JobInv, JobInv', PlacesInv, PackFile \/ PackFails, job = "savePacked", job' = job
    PROVE  PlacesInv'
<1> DEFINE n == dir[temp.next].name
           t == dir[temp.next].time
           s == EntryOf(n)
           c == Contents(s, cells)
<1>0. /\ JobInv /\ MemorySound /\ DiskSound /\ isOpen /\ pc = "copy" /\ UNCHANGED <<memory, disk>>
      /\ job # "saveWrite" /\ job' # "saveWrite"
  BY DEF PlacesInv, JobInv, IInv, Phase, PackFile, PackFails, disk
<1>1. /\ MapKnows /\ Sound(dir, header.dirOffset, cells) /\ header.dirOffset \in Nat
      /\ header.dirOffset >= HeaderEnd /\ Count \in Nat /\ DOMAIN dir = 1 .. Count
      /\ \A i \in 1 .. Count : dir[i] \in Entry
  BY <1>0, QuietNow
<1>2. MemorySound'
  <2>1. HandlesOK' /\ MapKnows'
    BY <1>0, <1>1 DEF JobInv, MapKnows, memory
  <2>2. header'.dirOffset = header.dirOffset /\ Sound(dir', header'.dirOffset, cells')
    BY <1>0, <1>1 DEF memory, disk
  <2> QED BY <1>0, <1>1, <2>1, <2>2, QuietNext
<1>3. DiskSound' /\ Flushing'
  BY <1>0 DEF DiskSound, Flushing, PackFile, PackFails, disk
<1>4. CASE PackFails
  BY <1>2, <1>3, <1>4 DEF PlacesInv, TempSound, PackFails
<1>5. CASE PackFile
  <2>1. /\ temp' = CopyInto(temp, n, t, c, s.size) /\ temp.next \in 1 .. Count
        /\ n \in DOMAIN fmap /\ fmap[n] \in 1 .. Count /\ s = dir[fmap[n]] /\ s \in Entry /\ s.name = n
        /\ temp.header.dirOffset + s.size - 1 <= MaxOffset /\ pc' = "copy"
    <3>1. /\ temp' = CopyInto(temp, n, t, c, s.size) /\ temp.next <= Count /\ Copyable(n) /\ pc' = "copy"
      BY <1>0, <1>5 DEF PackFile
    <3>2. temp.next \in Nat \ {0}
      BY DEF JobInv, IInv, TypeOK
    <3>3. n \in DOMAIN fmap /\ fmap[n] \in 1 .. Count /\ dir[fmap[n]].name = n
      BY <1>0, <3>1 DEF JobInv, IInv, MapSound, Copyable, Found
    <3> QED BY <1>1, <3>1, <3>2, <3>3 DEF Copyable, EntryOf
  <2>2. s.size \in Nat
    BY <2>1, SMTT(30) DEF Entry
  <2>3. n # JunkName => \A k \in 1 .. s.size : c[k] \in Data
    <3> SUFFICES ASSUME n # JunkName PROVE c \in Seq(Data) /\ Len(c) = s.size
      OBVIOUS
    <3>1. Placed(s, header.dirOffset, cells)
      BY <1>1, <2>1 DEF Sound
    <3> QED BY <1>1, <2>1, <3>1, PlacedContents
  <2>4. Drive(temp)
    BY DEF JobInv, IInv, TypeOK, Drive
  <2>5. Strict(temp)
    BY <1>0 DEF PlacesInv, TempSound, Strict
  <2>6. Strict(temp')
    <3> HIDE DEF n, t, s, c
    <3>1. Strict(CopyInto(temp, n, t, c, s.size))
      BY ONLY <2>1, <2>2, <2>3, <2>4, <2>5, CopyIntoStrict
    <3> QED BY <2>1, <3>1
  <2>7. TempSound'
    BY <2>6 DEF TempSound, Strict
  <2> QED BY <1>2, <1>3, <2>7, SMTT(30) DEF PlacesInv
<1> QED BY <1>4, <1>5

\* The packed drive takes the place of the old one.
LEMMA PlacesPackReplace ==
    ASSUME JobInv, JobInv', PlacesInv, PackReplace
    PROVE  PlacesInv'
<1> DEFINE N == temp.header.count
           D == temp.header.dirOffset
<1>1. PICK d \in Sorted(temp.dir, N) :
         temp' = [next |-> temp.next, header |-> temp.header, dir |-> d, cells |-> temp.cells]
  BY DEF PackReplace
<1>2. /\ pc = "copy" /\ pc' = "replace" /\ ~isOpen' /\ diskDir' = NoDiskDir
      /\ diskHeader' \in {NoFile, temp.header}
  BY DEF PackReplace, CloseFiles
<1>3. /\ N \in Nat /\ temp.dir \in Directory(N) /\ DOMAIN temp.dir = 1 .. N /\ Strict(temp)
  BY <1>2 DEF JobInv, IInv, TypeOK, Header, Directory, PlacesInv, TempSound, Strict
<1>4. PICK q \in [1 .. N -> 1 .. N] : /\ \A i, j \in 1 .. N : q[i] = q[j] => i = j
                                      /\ d = [i \in 1 .. N |-> temp.dir[q[i]]]
  BY <1>1 DEF Sorted
<1>5. /\ DOMAIN d = 1 .. N /\ \A i \in 1 .. N : d[i] = temp.dir[q[i]] /\ q[i] \in 1 .. N
      /\ \A i, j \in 1 .. N : i # j => q[i] # q[j]
  BY <1>4
<1>6. Sound(d, D, temp.cells)
  BY <1>1, <1>3, SoundSorted DEF Strict
<1>7. \A i \in 1 .. N : /\ d[i].offset >= HeaderEnd /\ d[i].offset + d[i].size <= D
                        /\ \A j \in 1 .. N \ {i} : Apart(d[i], d[j])
  <2>1. \A k \in 1 .. N : temp.dir[k].offset >= HeaderEnd /\ temp.dir[k].offset + temp.dir[k].size <= D
    BY <1>3 DEF Strict
  <2>2. \A k, m \in 1 .. N : m # k => Apart(temp.dir[k], temp.dir[m])
    BY <1>3 DEF Strict
  <2>3. ASSUME NEW i \in 1 .. N, NEW j \in 1 .. N, j # i PROVE Apart(d[i], d[j])
    BY <1>5, <2>2, <2>3
  <2>4. \A i \in 1 .. N : d[i].offset >= HeaderEnd /\ d[i].offset + d[i].size <= D
    BY <1>5, <2>1
  <2> QED BY <2>3, <2>4
<1>8. temp'.dir = d /\ temp'.header = temp.header /\ temp'.cells = temp.cells
  BY <1>1
<1>9. TempSound'
  <2>1. D >= HeaderEnd
    BY <1>3 DEF Strict
  <2> QED BY <1>5, <1>6, <1>7, <1>8, <2>1 DEF TempSound, Strict
<1>10. DiskSound'
  <2>1. /\ NoDiskDir.dir \in Seq(Entry) /\ DOMAIN NoDiskDir.dir = {} /\ ~NoFile.ok
    BY DEF NoDir, NoFile, NoDiskDir, FreshHeader
  <2>2. Sound(diskDir'.dir, diskDir'.at, cells')
    BY <1>2, <2>1, SoundEmpty
  <2>3. diskHeader'.ok => diskHeader'.dirOffset >= HeaderEnd
    BY <1>2, <1>3, <2>1 DEF Strict
  <2> QED BY <1>2, <2>1, <2>2, <2>3 DEF DiskSound
<1> QED BY <1>2, <1>9, <1>10 DEF PlacesInv, MemorySound, Flushing

\* The packed drive is opened.
LEMMA PlacesPackReopen ==
    ASSUME JobInv, JobInv', PlacesInv, PackReopen, job' # "saveWrite"
    PROVE  PlacesInv'
<1> DEFINE N == temp.header.count
           D == temp.header.dirOffset
<1>1. /\ pc = "replace" /\ pc' = "idle" /\ header' = temp.header /\ dir' = temp.dir /\ cells' = temp.cells
      /\ diskHeader' = temp.header /\ diskDir' = [at |-> D, dir |-> temp.dir]
      /\ fmap' = MapFrom(fmap, temp.dir, 1, N)
  BY DEF PackReopen
<1>2. /\ N \in Nat /\ temp.dir \in Directory(N) /\ DOMAIN temp.dir = 1 .. N
      /\ D >= HeaderEnd /\ Sound(temp.dir, D, temp.cells)
  BY <1>1 DEF JobInv, IInv, TypeOK, Header, Directory, PlacesInv, TempSound, Strict
<1>3. MapKnows'
  <2>1. Entered(fmap', fmap, temp.dir, 1, N)
    <3>1. N \in Int
      BY <1>2
    <3>2. Entered(MapFrom(fmap, temp.dir, 1, N), fmap, temp.dir, 1, N)
      BY <3>1, MapFromFirstEnters, Zenon
    <3> QED BY <1>1, <3>2, Zenon
  <2>2. \A i \in 1 .. N : temp.dir[i].name # JunkName
                          => temp.dir[i].name \in DOMAIN fmap' /\ fmap'[temp.dir[i].name] = i
    BY <1>2, <2>1, SoundMap
  <2> QED BY <1>1, <1>2, <2>2 DEF MapKnows
<1>4. MemorySound'
  <2>1. HandlesOK' /\ header'.dirOffset = D /\ Sound(dir', D, cells')
    BY <1>1, <1>2 DEF JobInv
  <2> QED BY <1>2, <1>3, <2>1, QuietNext
<1>5. DiskSound'
  <2>1. temp.dir \in Seq(Entry)
    BY <1>2 DEF Directory
  <2>2. diskDir'.dir = temp.dir /\ diskDir'.at = D
    BY <1>1
  <2> QED BY <1>1, <1>2, <2>1, <2>2 DEF DiskSound
<1> QED BY <1>1, <1>4, <1>5 DEF PlacesInv, Flushing, TempSound

\* What is known of the directories is kept by every step.
LEMMA PlacesInvStep == ASSUME JobInv, PlacesInv, [TagNext]_vars PROVE PlacesInv'
<1>0. JobInv'
  BY JobInvStep
<1>1. CASE \/ \E f \in BOOLEAN : SaveStart(f) \/ LoadFails(f)
           \/ LoadStart \/ SaveOpenFails \/ SaveUnlink \/ Crash \/ SaveCreate
           \/ SaveClosed \/ LoadClosed
  BY <1>0, <1>1, PlacesClosed
<1>2. CASE SaveOpen \/ \E ro \in BOOLEAN : LoadOpen(ro)
  <2>1. \E ro \in BOOLEAN : SaveOpen \/ LoadOpen(ro)
    BY <1>2
  <2> QED BY <1>0, <2>1, PlacesOpen
<1>3. CASE \/ \E n \in Names : Edit(n) \/ ChangeProject(n) \/ SaveSkip(n)
           \/ RemoveAll \/ LoadSkip \/ LoadTags \/ UNCHANGED vars
  <2>1. /\ UNCHANGED <<isOpen, dir, fmap, handles, writer, diskHeader, cells, diskDir, pc, temp, header>>
        /\ job # "saveWrite" \/ UNCHANGED <<job, mem, cur, header>>
    BY <1>3 DEF Edit, ChangeProject, SaveSkip, RemoveAll, LoadSkip, LoadTags, vars, clientVars, driveVars,
                memory, disk, LoadFile, saveVars
  <2> QED BY <1>0, <2>1, DriveStays
<1>4. CASE SavePacked \/ SaveCount
  <2>1. /\ UNCHANGED <<isOpen, dir, fmap, handles, writer, diskHeader, cells, diskDir, pc, temp>>
        /\ \E v : header' = [header EXCEPT !.userData = v]
        /\ job # "saveWrite"
    BY <1>4 DEF SavePacked, SaveCount, SetHeaderUserData, disk
  <2>2. header \in Header
    BY DEF JobInv, IInv, TypeOK
  <2>3. header'.dirOffset = header.dirOffset
    BY <2>1, <2>2 DEF Header
  <2> QED BY <1>0, <2>1, <2>3, DriveStays
<1>5. ASSUME NEW n \in Names, NEW h \in Handles, SaveFile(n, h)
      PROVE  PlacesInv'
  <2>1. CopyInPlace(n, h) \/ CopyToEnd(n, h)
    BY <1>5 DEF SaveFile
  <2> QED BY <1>0, <1>5, <2>1, PlacesCopyInPlace, PlacesCreate
<1>6. ASSUME NEW h \in Handles, SaveWrite(h) \/ SaveFileClose(h)
      PROVE  PlacesInv'
  BY <1>0, <1>6, PlacesWrite, PlacesFileClose
<1>7. CASE SavePack
  <2>0. job # "saveWrite" /\ job' # "saveWrite"
    BY <1>7 DEF SavePack
  <2>1. CASE Pack
    <3>1. FlushDirectory("pack")
      BY <2>1 DEF Pack
    <3>2. \E next \in {"close", "pack"} : FlushDirectory(next)
      BY <3>1
    <3> QED BY <1>0, <2>0, <3>2, PlacesFlush
  <2>2. CASE PackUnchanged
    BY <1>0, <2>0, <2>2, PlacesPackStart
  <2>3. CASE UNCHANGED driveVars
    BY <1>0, <2>0, <2>3, DriveStays DEF driveVars, memory, disk
  <2> QED BY <1>7, <2>1, <2>2, <2>3 DEF SavePack
<1>8. CASE SavePacking
  <2>0. job = "savePacked" /\ job' = job
    BY <1>8 DEF SavePacking, clientVars
  <2> QED BY <1>0, <1>8, <2>0, PlacesPackStart, PlacesPackFile, PlacesPackReplace, PlacesPackReopen DEF SavePacking
<1>9. CASE SaveClose \/ LoadEnd
  <2>0. job # "saveWrite" /\ job' # "saveWrite"
    BY <1>9 DEF SaveClose, LoadEnd, clientVars
  <2>1. CASE Close
    <3>1. \E next \in {"close", "pack"} : FlushDirectory(next)
      BY <2>1 DEF Close
    <3> QED BY <1>0, <2>0, <3>1, PlacesFlush
  <2>2. CASE LoadEnd /\ CloseUnchanged
    BY <1>0, <2>2, PlacesClosed
  <2> QED BY <1>9, <2>1, <2>2 DEF SaveClose, LoadEnd
<1>10. CASE LoadErase
  <2>1. CASE readOnly
    <3>1. UNCHANGED driveVars /\ job # "saveWrite"
      BY <1>10, <2>1 DEF LoadErase, LoadFile
    <3> QED BY <1>0, <3>1, DriveStays DEF driveVars, memory, disk
  <2>2. CASE ~readOnly
    <3>1. FileErase(LoadEntry.name) /\ LoadEntry.name \in Names /\ job = "loadFile" /\ job' = job
      BY <1>10, <2>2 DEF LoadErase, LoadFile, NotLoaded, JobInv, ClientOK
    <3> QED BY <1>0, <3>1, PlacesErase
  <2> QED BY <2>1, <2>2
<1>11. CASE RefreshSteps
  <2>1. UNCHANGED driveVars /\ job # "saveWrite"
    BY <1>11, RefreshShape
  <2> QED BY <1>0, <2>1, DriveStays DEF driveVars, memory, disk
<1> QED BY <1>1, <1>2, <1>3, <1>4, <1>5, <1>6, <1>7, <1>8, <1>9, <1>10, <1>11
        DEF TagNext, JobSteps, SaveSteps

(***************************************************************************)
(* The count of the tags, step by step                                     *)
(***************************************************************************)
\* Every step adds what it writes to a count no smaller.
LEMMA CountInvStep == ASSUME JobInv, JobInv', CountInv, [TagNext]_vars PROVE CountInv'
<1> USE DEF CountInv
<1>0. /\ diskHeader.userData \in Nat /\ header.userData \in 0 .. MaxUserData /\ MaxUserData \in Nat
      /\ unpacked \in 0 .. MaxUserData /\ numTags \in 0 .. MaxUserData /\ header \in Header
      /\ unpacked' \in 0 .. MaxUserData /\ diskHeader'.userData \in Nat
  BY BoundsAssumption DEF JobInv, IInv, TypeOK, Header, ClientOK
<1> HIDE DEF CountInv
<1>1. CASE \/ \E n \in Names : Edit(n) \/ ChangeProject(n) \/ SaveSkip(n)
           \/ RemoveAll \/ LoadSkip \/ LoadTags \/ UNCHANGED vars
  <2>1. UNCHANGED <<disk, header, job, numTags, unpacked>>
    BY <1>1 DEF Edit, ChangeProject, SaveSkip, RemoveAll, LoadSkip, LoadTags, vars, clientVars, driveVars,
                memory, saveVars
  <2> QED BY <2>1 DEF CountInv, Openable, disk
<1>2. CASE (\E f \in BOOLEAN : SaveStart(f) \/ LoadFails(f)) \/ LoadStart \/ SaveOpenFails
  <2>1. /\ UNCHANGED <<disk, unpacked>> /\ job \in {"none", "saveOpen", "loadOpen"}
        /\ job' \in {"none", "saveOpen", "saveCreate", "loadOpen"}
    BY <1>2 DEF SaveStart, LoadFails, LoadStart, SaveOpenFails, Construct, OpenFails
  <2> QED BY <2>1 DEF CountInv, Openable, disk
<1>3. CASE SaveUnlink
  <2>1. job' = job /\ job = "none" /\ ~diskHeader'.ok /\ unpacked' = 0
    BY <1>3 DEF SaveUnlink, NoFile, FreshHeader
  <2> QED BY <2>1 DEF CountInv, Openable
<1>4. CASE Crash
  <2>1. job' = "none" /\ unpacked' = 0
    BY <1>4 DEF Crash, CountInv
  <2> QED BY <1>0, <2>1 DEF CountInv
<1>5. CASE SaveOpen
  <2>1. /\ Openable /\ numTags' = diskHeader.userData /\ unpacked' = unpacked /\ job' = "saveFile"
        /\ job = "saveOpen"
    BY <1>5 DEF SaveOpen, Open, SaveBegin
  <2> QED BY <2>1 DEF CountInv
<1>6. CASE SaveCreate
  <2>1. /\ numTags' = 0 /\ unpacked' = 0 /\ job' = "saveFile"
    BY <1>6 DEF SaveCreate, Create, SaveBegin, FreshHeader
  <2> QED BY <2>1 DEF CountInv
<1>7. ASSUME NEW ro \in BOOLEAN, LoadOpen(ro) PROVE CountInv'
  <2>1. /\ Openable /\ header' = diskHeader /\ UNCHANGED <<unpacked, disk>> /\ job' = "loadFile" /\ job = "loadOpen"
    BY <1>7 DEF LoadOpen, Open
  <2> QED BY <2>1 DEF CountInv, Openable, disk
<1>8. ASSUME NEW n \in Names, NEW h \in Handles, SaveFile(n, h) PROVE CountInv'
  <2>1. UNCHANGED <<numTags, unpacked>> /\ job' = "saveWrite" /\ job = "saveFile"
    BY <1>8 DEF SaveFile
  <2> QED BY <2>1 DEF CountInv
<1>9. ASSUME NEW h \in Handles, SaveWrite(h) PROVE CountInv'
  <2>1. UNCHANGED <<numTags, unpacked, job>> /\ job = "saveWrite"
    BY <1>9 DEF SaveWrite, clientVars, saveVars
  <2> QED BY <2>1 DEF CountInv
<1>10. ASSUME NEW h \in Handles, SaveFileClose(h) PROVE CountInv'
  <2> DEFINE c == mem[cur].count
  <2>1. /\ numTags' = AtMost(numTags + c, MaxUserData) /\ job' = "saveFile" /\ job = "saveWrite"
        /\ unpacked' = IF Crashes THEN 0 ELSE AtMost(unpacked + c, MaxUserData)
    BY <1>10 DEF SaveFileClose
  <2>2. c \in Nat
    <3>1. cur \in Names
      BY <1>10 DEF SaveFileClose, JobInv, HandlesOK, ClientOK
    <3> QED BY <3>1 DEF JobInv, ClientOK, FileObject
  <2>3. numTags >= unpacked
    BY <2>1 DEF CountInv
  <2> HIDE DEF c
  <2>4. numTags' >= unpacked'
    BY <1>0, <2>1, <2>2, <2>3 DEF AtMost
  <2>5. Crashes => unpacked' = 0
    BY <2>1
  <2> QED BY <2>1, <2>4, <2>5 DEF CountInv
<1>11. CASE SavePack \/ SavePacking
  <2>1. job' = "savePacked" /\ unpacked' = unpacked
    BY <1>11 DEF SavePack, SavePacking, clientVars
  <2> QED BY <2>1 DEF CountInv
<1>12. CASE SavePacked
  <2>1. job' = "saveClose" /\ unpacked' = 0 /\ header' = [header EXCEPT !.userData = 0]
    BY <1>12 DEF SavePacked, SetHeaderUserData
  <2>2. header'.userData = 0
    BY <1>0, <2>1 DEF Header
  <2> QED BY <2>1, <2>2 DEF CountInv
<1>13. CASE SaveCount
  <2>1. /\ job' = "saveClose" /\ unpacked' = (IF created THEN 0 ELSE unpacked) /\ job = "saveFile"
        /\ header' = [header EXCEPT !.userData = CountedTags]
    BY <1>13 DEF SaveCount, SetHeaderUserData
  <2>2. header'.userData = CountedTags
    BY <1>0, <2>1 DEF Header
  <2>3. numTags >= unpacked
    BY <2>1 DEF CountInv
  <2>4. CountedTags >= unpacked'
    BY <1>0, <2>1, <2>3 DEF CountedTags, AtMost
  <2>5. Crashes => unpacked' = 0
    BY <2>1 DEF CountInv
  <2> QED BY <2>1, <2>2, <2>4, <2>5 DEF CountInv
<1>14. CASE SaveClose \/ (LoadEnd /\ Close)
  <2>1. UNCHANGED header /\ changed
    BY <1>14 DEF SaveClose, Close, FlushDirectory
  <2>2. /\ UNCHANGED unpacked
        /\ (job = "saveClose" /\ job' = "saveClose") \/ (job = "loadFile" /\ job' = "loadClose")
    BY <1>14, <2>1 DEF SaveClose, LoadEnd, clientVars, CloseUnchanged
  <2> QED BY <2>1, <2>2 DEF CountInv
<1>15. CASE LoadEnd /\ ~Close
  <2>1. UNCHANGED <<disk, unpacked>> /\ job = "loadFile" /\ job' = "none"
    BY <1>15 DEF LoadEnd, CloseUnchanged
  <2> QED BY <2>1 DEF CountInv, Openable, disk
<1>16. CASE SaveClosed \/ LoadClosed
  <2>1. diskHeader' = header /\ unpacked' = unpacked /\ job' = "none" /\ job \in {"saveClose", "loadClose"}
    BY <1>16 DEF SaveClosed, LoadClosed, CloseHeader, WriteHeader
  <2> QED BY <2>1 DEF CountInv
<1>17. CASE LoadErase
  <2>1. /\ job = "loadFile" /\ job' = job /\ unpacked' = unpacked /\ UNCHANGED disk
        /\ header' = header \/ \E n : FileErase(n)
    BY <1>17 DEF LoadErase, LoadFile, driveVars, memory, disk, FileErase
  <2>2. header'.userData = header.userData
    BY <1>0, <2>1 DEF FileErase, Header
  <2> QED BY <2>1, <2>2 DEF CountInv, Openable, disk
<1>18. CASE RefreshSteps
  <2>1. UNCHANGED <<disk, unpacked>> /\ job \in {"none", "parse"} /\ job' \in {"none", "parse"}
    BY <1>18, RefreshShape DEF driveVars
  <2> QED BY <2>1 DEF CountInv, Openable, disk
<1> QED BY <1>1, <1>2, <1>3, <1>4, <1>5, <1>6, <1>7, <1>8, <1>9, <1>10, <1>11, <1>12, <1>13, <1>14, <1>15,
           <1>16, <1>17, <1>18 DEF TagNext, JobSteps, SaveSteps

(***************************************************************************)
(* Unused space, step by step                                              *)
(***************************************************************************)
\* What is known of Pack() holds for the database's drive.
LEMMA TagPackStep ==
    ASSUME JobInv, PackInv, [TagNext]_vars
    PROVE  PackInv'
<1>1. IInv'
  BY TagNextIInv
<1>2. CASE DriveOnly
  BY <1>2, PackInvStep DEF DriveOnly
<1>3. CASE Crash \/ SaveUnlink \/ \E n \in Names, h \in Handles : SaveFile(n, h) /\ CopyInPlace(n, h)
  <2>1. pc' = "idle"
    BY <1>3 DEF Crash, SaveUnlink, JobInv, JobPhase, CopyInPlace, Ready, Idle
  <2> QED BY <1>1, <2>1 DEF PackInv
<1> QED BY <1>2, <1>3, TagNextDrives

\* A directory with the same extents, or larger ones, has no more holes.
LEMMA HolesKeep ==
    ASSUME NEW d, NEW e, NEW at, NoHoles(d, at),
           \A i \in DOMAIN d : \E k \in DOMAIN e : Extent(d[i]) \subseteq Extent(e[k])
    PROVE  NoHoles(e, at)
BY DEF NoHoles

\* A drive without entries and without holes has no data.
LEMMA HolesEmpty ==
    ASSUME NEW d, DOMAIN d = {}, NEW at \in Nat, at >= HeaderEnd
    PROVE  NoHoles(d, at) <=> at = HeaderEnd
<1>1. HeaderEnd = 1
  BY DEF HeaderEnd
<1>2. at = 1 => HeaderEnd .. at - 1 = {}
  BY <1>1
<1>3. at > 1 => HeaderEnd \in HeaderEnd .. at - 1
  BY <1>1
<1> QED BY <1>1, <1>2, <1>3 DEF NoHoles

\* The steps that only change the drive in memory, and note what they leave unused.
LEMMA HolesInMemory ==
    ASSUME JobInv, PlacesInv, HolesInv, isOpen, job \in {"saveFile", "saveWrite"}, isOpen' = isOpen,
           job' \in {"saveFile", "saveWrite"}, pc' = "idle",
           ~header'.needPack => ~header.needPack /\ NoHoles(dir', header'.dirOffset)
    PROVE  HolesInv'
BY DEF HolesInv

\* A file is copied over its old data, or behind the others.
LEMMA HolesSaveFile ==
    ASSUME JobInv, PlacesInv, HolesInv, NEW n \in Names, NEW h \in Handles, SaveFile(n, h)
    PROVE  HolesInv'
<1> DEFINE i == fmap[n]
           D == header.dirOffset
<1>0. /\ JobInv /\ MemorySound /\ isOpen /\ Ready /\ IInv /\ pc = "idle" /\ job = "saveFile" /\ job' = "saveWrite"
      /\ job # "saveWrite" /\ isOpen' = isOpen /\ pc' = "idle"
  BY DEF SaveFile, PlacesInv, CopyInPlace, CopyToEnd, FileCreate, Ready, Idle, JobInv
<1>1. /\ Count \in Nat /\ dir \in Directory(Count) /\ DOMAIN dir = 1 .. Count
      /\ \A k \in 1 .. Count : dir[k] \in Entry
  BY <1>0, QuietNow
<1>2. header \in Header /\ D \in Nat
  BY <1>0, OpenDrive
<1>3. ~header.needPack => NoHoles(dir, D)
  BY <1>0 DEF HolesInv
<1>4. CASE CopyInPlace(n, h)
  <2> DEFINE size == FileSize(n)
  <2>1. /\ header' = [header EXCEPT !.needPack = @ \/ size < dir[i].size]
        /\ dir' = [dir EXCEPT ![i].time = mem[n].time, ![i].size = size]
        /\ size <= dir[i].size /\ size \in Nat /\ i \in 1 .. Count /\ dir[i].size \in Nat
    <3>1. i \in 1 .. Count /\ size \in Nat
      BY <1>0, <1>4, OpenDrive, FileContentsType DEF CopyInPlace, Found, JobInv
    <3>2. dir[i].size \in Nat
      BY <1>1, <3>1 DEF Entry
    <3> QED BY <1>4, <3>1, <3>2 DEF CopyInPlace, NotePack, Fits, EntryOf
  <2> HIDE DEF size, i
  <2>2. SUFFICES ASSUME ~header'.needPack PROVE ~header.needPack /\ NoHoles(dir', header'.dirOffset)
    BY <1>0, HolesInMemory
  <2>3. ~header.needPack /\ ~(size < dir[i].size) /\ header'.dirOffset = D
    <3>1. header'.needPack = (header.needPack \/ size < dir[i].size)
      BY <1>2, <2>1 DEF Header
    <3>2. header'.dirOffset = D
      BY <1>2, <2>1 DEF Header
    <3> QED BY <2>2, <3>1, <3>2
  <2>4. size = dir[i].size
    BY <2>1, <2>3
  <2>5. dir[i] \in Entry /\ DOMAIN dir' = DOMAIN dir
    BY <1>1, <2>1
  <2>6. \A k \in DOMAIN dir : dir'[k].offset = dir[k].offset /\ dir'[k].size = dir[k].size
    BY <1>1, <2>1, <2>4, <2>5 DEF Entry
  <2>7. \A k \in DOMAIN dir : Extent(dir'[k]) = Extent(dir[k])
    BY <2>6 DEF Extent
  <2>8. NoHoles(dir', D)
    BY <1>3, <2>3, <2>5, <2>7, HolesKeep
  <2> QED BY <2>3, <2>8
<1>5. CASE CopyToEnd(n, h)
  <2> DEFINE e == [name |-> n, time |-> mem[n].time, offset |-> D, size |-> 0]
  <2>1. SUFFICES ASSUME ~header'.needPack PROVE ~header.needPack /\ NoHoles(dir', header'.dirOffset)
    BY <1>0, HolesInMemory
  <2>2. ~Found(n)
    <3> SUFFICES ASSUME Found(n) PROVE FALSE
      OBVIOUS
    <3>1. header' = [header EXCEPT !.needPack = TRUE]
      BY <1>5 DEF CopyToEnd, FileCreate
    <3> QED BY <1>2, <2>1, <3>1 DEF Header
  <2>3. header' = [header EXCEPT !.count = Count + 1] /\ dir' = Append1(dir, Count, e)
    BY <1>5, <2>2 DEF CopyToEnd, FileCreate
  <2>4. ~header.needPack /\ header'.dirOffset = D
    <3>1. header'.needPack = header.needPack
      BY <1>2, <2>3 DEF Header
    <3>2. header'.dirOffset = D
      BY <1>2, <2>3 DEF Header
    <3> QED BY <2>1, <3>1, <3>2
  <2> HIDE DEF e
  <2>5. \A k \in DOMAIN dir : k \in DOMAIN dir' /\ dir'[k] = dir[k]
    BY <1>1, <2>3 DEF Append1
  <2>6. NoHoles(dir', D)
    BY <1>3, <2>4, <2>5, HolesKeep
  <2> QED BY <2>4, <2>6
<1> QED BY <1>4, <1>5 DEF SaveFile

\* Writing makes a file no shorter, and closing it ends the data behind it.
LEMMA HolesWrite ==
    ASSUME JobInv, PlacesInv, HolesInv, NEW h \in Handles, SaveWrite(h) \/ SaveFileClose(h)
    PROVE  HolesInv'
<1> DEFINE i == handles[h].idx
           pos == handles[h].pos
           D == header.dirOffset
<1>0. handles[h].open /\ job = "saveWrite"
  BY DEF SaveWrite, SaveFileClose
<1>1. /\ isOpen /\ pc = "idle" /\ i \in 1 .. Count /\ pos \in Nat
      /\ writer \in {h, NoHandle} /\ h # NoHandle /\ D \in Nat /\ D >= HeaderEnd
  BY <1>0, FileInHand
<1>2. /\ Count \in Nat /\ dir \in Directory(Count) /\ DOMAIN dir = 1 .. Count
      /\ \A k \in 1 .. Count : dir[k] \in Entry /\ header \in Header
  BY <1>1 DEF JobInv, IInv, TypeOK, Header, Count, Directory
<1>3. isOpen' = isOpen /\ pc' = "idle" /\ job' \in {"saveFile", "saveWrite"}
  BY <1>0, <1>1 DEF SaveWrite, Write, SaveFileClose, FileClose, clientVars
<1>4. ~header.needPack => NoHoles(dir, D)
  BY <1>1 DEF HolesInv
<1>5. SUFFICES ASSUME ~header'.needPack PROVE ~header.needPack /\ NoHoles(dir', header'.dirOffset)
  BY <1>0, <1>1, <1>3, HolesInMemory
<1>6. CASE SaveWrite(h)
  <2>1. /\ header' = header
        /\ dir' = IF pos + 1 > dir[i].size THEN [dir EXCEPT ![i].size = pos + 1] ELSE dir
    BY <1>6 DEF SaveWrite, Write, At
  <2>2. /\ DOMAIN dir' = DOMAIN dir
        /\ \A k \in DOMAIN dir : dir'[k].offset = dir[k].offset /\ dir'[k].size >= dir[k].size
                                 /\ dir'[k].size \in Nat /\ dir[k].offset \in Nat /\ dir[k].size \in Nat
    <3>1. \A k \in DOMAIN dir : dir[k].offset \in Nat /\ dir[k].size \in Nat
      BY <1>2 DEF Entry
    <3>2. CASE pos + 1 > dir[i].size
      <4>1. dir' = [dir EXCEPT ![i] = [dir[i] EXCEPT !.size = pos + 1]]
        BY <2>1, <3>2
      <4>2. /\ [dir[i] EXCEPT !.size = pos + 1].offset = dir[i].offset
            /\ [dir[i] EXCEPT !.size = pos + 1].size = pos + 1
        BY <1>1, <1>2 DEF Entry
      <4> HIDE DEF pos, i
      <4> QED BY <1>1, <1>2, <3>1, <3>2, <4>1, <4>2
    <3>3. CASE ~(pos + 1 > dir[i].size)
      BY <2>1, <3>1, <3>3
    <3> QED BY <3>2, <3>3
  <2>3. \A k \in DOMAIN dir : Extent(dir[k]) \subseteq Extent(dir'[k])
    BY <2>2 DEF Extent
  <2>4. ~header.needPack
    BY <1>5, <2>1
  <2> QED BY <1>4, <2>1, <2>2, <2>3, <2>4, HolesKeep
<1>7. CASE SaveFileClose(h)
  <2>0. FileClose(h) /\ dir' = dir
    BY <1>7 DEF SaveFileClose, FileClose
  <2>1. CASE writer = NoHandle
    <3>1. header' = header
      BY <1>1, <2>0, <2>1 DEF FileClose
    <3> QED BY <1>4, <1>5, <2>0, <3>1
  <2>2. CASE writer = h
    <3>1. dir[i].offset = D /\ dir[i].size = pos
      BY <1>1, <2>2 DEF PlacesInv, MemorySound, Appending
    <3>2. header' = [header EXCEPT !.dirOffset = dir[i].offset + pos]
      <4>1. Live(h)
        BY <1>0, <1>1 DEF Live
      <4> QED BY <2>0, <2>2, <4>1 DEF FileClose, At
    <3>3. header'.dirOffset = D + pos
      BY <1>2, <1>1, <3>1, <3>2 DEF Header
    <3>4. ~header.needPack
      BY <1>1, <1>2, <1>5, <3>2 DEF Header
    <3>5. ASSUME NEW o \in HeaderEnd .. (D + pos) - 1 PROVE \E k \in DOMAIN dir : o \in Extent(dir[k])
      <4>1. CASE o < D
        BY <1>1, <1>4, <3>4, <4>1 DEF NoHoles
      <4>2. CASE ~(o < D)
        <5>1. o \in Extent(dir[i])
          BY <1>1, <3>1, <4>2 DEF Extent, HeaderEnd
        <5> QED BY <1>1, <1>2, <5>1
      <4> QED BY <4>1, <4>2
    <3>6. NoHoles(dir, D + pos)
      <4> HIDE DEF D, pos
      <4> QED BY <3>5, Zenon DEF NoHoles
    <3> QED BY <2>0, <3>3, <3>4, <3>6
  <2> QED BY <1>1, <2>1, <2>2
<1> QED BY <1>6, <1>7

\* The drive is created, opened, flushed, closed and packed.
LEMMA HolesDrive ==
    ASSUME JobInv, JobInv', PlacesInv, PlacesInv', PackInv, HolesInv,
           \/ SaveCreate \/ SaveOpen \/ (\E ro \in BOOLEAN : LoadOpen(ro))
           \/ SaveClose \/ SaveClosed \/ LoadEnd \/ LoadClosed
           \/ SavePack \/ SavePacking
    PROVE  HolesInv'
<1> DEFINE D == header.dirOffset
<1>0. HeaderEnd = 1 /\ IInv
  BY DEF HeaderEnd, JobInv
<1>1. CASE SaveCreate
  <2>1. /\ isOpen' /\ header' = FreshHeader /\ dir' = NoDir /\ pc' = "idle" /\ job' = "saveFile"
    BY <1>1 DEF SaveCreate, Create, SaveBegin, Idle
  <2>2. FreshHeader.dirOffset = HeaderEnd /\ HeaderEnd \in Nat /\ DOMAIN NoDir = {}
    BY <1>0 DEF FreshHeader, NoDir
  <2>3. NoHoles(dir', header'.dirOffset)
    BY <1>0, <2>1, <2>2, HolesEmpty
  <2> QED BY <2>1, <2>3 DEF HolesInv
<1>2. CASE SaveOpen \/ \E ro \in BOOLEAN : LoadOpen(ro)
  <2> DEFINE n == diskHeader.count
             d == diskDir.dir
  <2>1. /\ Openable /\ header' = diskHeader /\ pc' = "idle" /\ UNCHANGED disk /\ dir' \in Parsed(d, n)
        /\ job \in {"saveOpen", "loadOpen"}
    BY <1>2 DEF SaveOpen, LoadOpen, Open, Idle
  <2>2. /\ n \in Nat /\ diskHeader.dirOffset \in Nat /\ d \in Seq(Entry) /\ DOMAIN d = 1 .. Len(d)
        /\ diskHeader.dirOffset >= HeaderEnd
    BY <2>1 DEF JobInv, IInv, TypeOK, Header, PlacesInv, DiskSound, Openable
  <2>3. PICK j \in JunkEntry : dir' = [i \in 1 .. n |-> IF i \in DOMAIN d THEN d[i] ELSE j]
    BY <2>1 DEF Parsed
  <2>4. ~diskHeader.needPack => NoHoles(dir', diskHeader.dirOffset)
    <3> SUFFICES ASSUME ~diskHeader.needPack PROVE NoHoles(dir', diskHeader.dirOffset)
      OBVIOUS
    <3>1. IF n = 0 THEN diskHeader.dirOffset = HeaderEnd ELSE n = Len(d) /\ NoHoles(d, diskHeader.dirOffset)
      BY <2>1 DEF HolesInv
    <3>2. CASE n = 0
      <4>1. DOMAIN dir' = {}
        BY <2>3, <3>2
      <4> QED BY <2>2, <3>1, <3>2, <4>1, HolesEmpty
    <3>3. CASE n # 0
      <4>1. NoHoles(d, diskHeader.dirOffset)
        BY <3>1, <3>3
      <4>2. \A i \in DOMAIN d : i \in DOMAIN dir' /\ dir'[i] = d[i]
        BY <2>2, <2>3, <3>1, <3>3
      <4> QED BY <4>1, <4>2, HolesKeep
    <3> QED BY <3>2, <3>3
  <2>5. job' \in {"none", "parse", "saveOpen", "loadOpen", "loadFile"}
           => job \in {"none", "saveOpen", "loadOpen", "loadFile"}
    BY <2>1
  <2> QED BY <2>1, <2>4, <2>5 DEF HolesInv, Openable, disk
<1>3. ASSUME NEW next \in {"close", "pack"}, FlushDirectory(next), job' \in {"saveClose", "loadClose", "savePacked"}
      PROVE  HolesInv'
  <2>1. /\ isOpen /\ isOpen' = isOpen /\ header' = header /\ pc' \in {"close", "pack"}
        /\ IF Count > 1 THEN dir' \in Sorted(dir, Count) ELSE dir' = dir
    BY <1>3 DEF FlushDirectory, Ready
  <2>2. Count \in Nat /\ dir \in Directory(Count) /\ DOMAIN dir = 1 .. Count
    BY <1>0, <2>1 DEF IInv, TypeOK, Header, Count, Directory
  <2>3. \A i \in DOMAIN dir : \E k \in DOMAIN dir' : Extent(dir[i]) \subseteq Extent(dir'[k])
    <3>1. CASE Count > 1
      <4>1. dir' \in Directory(Count) /\ \A i \in 1 .. Count : \E k \in 1 .. Count : dir'[k] = dir[i]
        BY <2>1, <2>2, <3>1, SortedType, SortedEntries
      <4>2. DOMAIN dir' = 1 .. Count
        BY <4>1 DEF Directory
      <4> QED BY <2>2, <4>1, <4>2
    <3>2. CASE ~(Count > 1)
      BY <2>1, <3>2
    <3> QED BY <3>1, <3>2
  <2>4. ~header.needPack => NoHoles(dir', D)
    BY <2>1, <2>3, HolesKeep DEF HolesInv
  <2> QED BY <1>3, <2>1, <2>4 DEF HolesInv
<1>4. CASE SaveClosed \/ LoadClosed
  <2>1. /\ diskHeader' = header /\ diskDir' = diskDir /\ ~isOpen' /\ pc' = "idle" /\ isOpen /\ pc = "close"
    BY <1>0, <1>4 DEF SaveClosed, LoadClosed, CloseHeader, WriteHeader, CloseFiles, IInv, Phase
  <2>2. diskDir = [at |-> D, dir |-> dir] /\ D >= HeaderEnd
    BY <2>1 DEF PlacesInv, Flushing, MemorySound
  <2>3. Count \in Nat /\ D \in Nat /\ DOMAIN dir = 1 .. Count /\ dir \in Directory(Count)
    BY <1>0, <2>1 DEF IInv, TypeOK, Header, Count, Directory
  <2>4. diskHeader'.count = Count /\ diskHeader'.dirOffset = D /\ diskDir'.dir = dir /\ diskHeader'.needPack = header.needPack
    BY <2>1, <2>2 DEF Count
  <2>5. Len(dir) = Count
    BY <2>3 DEF Directory
  <2>6. ~header.needPack => NoHoles(dir, D)
    BY <2>1 DEF HolesInv
  <2>7. ~header.needPack /\ Count = 0 => D = HeaderEnd
    <3> HIDE DEF D
    <3>1. Count = 0 => DOMAIN dir = {}
      BY <2>3
    <3> QED BY <2>2, <2>3, <2>6, <3>1, HolesEmpty
  <2> QED BY <2>1, <2>4, <2>5, <2>6, <2>7 DEF HolesInv
<1>5. CASE LoadEnd /\ CloseUnchanged
  <2>1. ~isOpen' /\ UNCHANGED <<disk, pc>> /\ job = "loadFile" /\ pc = "idle"
    BY <1>5 DEF LoadEnd, CloseUnchanged, CloseFiles, Ready, Idle
  <2> QED BY <2>1 DEF HolesInv, Openable, disk
<1>6. CASE SaveClose \/ (LoadEnd /\ ~CloseUnchanged)
  <2>1. FlushDirectory("close") /\ job' \in {"saveClose", "loadClose"}
    BY <1>6 DEF SaveClose, LoadEnd, Close, clientVars
  <2> QED BY <1>3, <2>1
<1>7. CASE SavePack \/ SavePacking
  <2>0. job' = "savePacked"
    BY <1>7 DEF SavePack, SavePacking, clientVars
  <2>1. CASE Pack
    BY <1>3, <2>0, <2>1 DEF Pack
  <2>2. CASE PackUnchanged \/ PackHeader \/ PackFile \/ PackFails \/ UNCHANGED driveVars
    <3>1. UNCHANGED <<isOpen, header, dir>> /\ (pc' # "replace" \/ UNCHANGED <<pc, temp>>)
      BY <2>2 DEF PackUnchanged, PackHeader, PackFile, PackFails, driveVars, memory, WriteHeader
    <3> QED BY <2>0, <3>1 DEF HolesInv
  <2>3. CASE PackReplace
    <3>1. ~isOpen' /\ pc' = "replace"
      BY <2>3 DEF PackReplace, CloseFiles
    <3>2. PackInv'
      BY <2>3, PackInvStep DEF Next, PackSteps
    <3>3. temp'.dir \in Directory(temp'.header.count)
      BY DEF JobInv, IInv, TypeOK
    <3>4. NoHoles(temp'.dir, temp'.header.dirOffset)
      BY <3>1, <3>2, <3>3 DEF PackInv, Full, NoHoles, Directory
    <3> QED BY <2>0, <3>1, <3>4 DEF HolesInv
  <2>4. CASE PackReopen
    <3>1. header' = temp.header /\ dir' = temp.dir /\ pc = "replace" /\ pc' = "idle"
      BY <2>4 DEF PackReopen
    <3> QED BY <2>0, <3>1 DEF HolesInv
  <2> QED BY <1>7, <2>1, <2>2, <2>3, <2>4 DEF SavePack, SavePacking
<1> QED BY <1>1, <1>2, <1>4, <1>5, <1>6, <1>7

\* Without crashes every step notes the space it leaves unused.
LEMMA HolesInvStep ==
    ASSUME JobInv, JobInv', PlacesInv, PlacesInv', PackInv, HolesInv, ~Crashes, [TagNext]_vars
    PROVE  HolesInv'
<1>1. CASE \/ SaveCreate \/ SaveOpen \/ (\E ro \in BOOLEAN : LoadOpen(ro))
           \/ SaveClose \/ SaveClosed \/ LoadEnd \/ LoadClosed \/ SavePack \/ SavePacking
  BY <1>1, HolesDrive
<1>2. CASE \/ \E n \in Names, h \in Handles : SaveFile(n, h)
           \/ \E h \in Handles : SaveWrite(h) \/ SaveFileClose(h)
  BY <1>2, HolesSaveFile, HolesWrite
<1>3. CASE \/ \E n \in Names : Edit(n) \/ ChangeProject(n) \/ SaveSkip(n)
           \/ RemoveAll \/ LoadSkip \/ LoadTags \/ UNCHANGED vars
  <2>1. UNCHANGED <<disk, header, dir, isOpen, job, pc, temp>>
    BY <1>3 DEF Edit, ChangeProject, SaveSkip, RemoveAll, LoadSkip, LoadTags, vars, clientVars, driveVars,
                memory
  <2> QED BY <2>1, SMTT(30) DEF HolesInv, Openable, disk
<1>4. CASE (\E f \in BOOLEAN : SaveStart(f) \/ LoadFails(f)) \/ LoadStart \/ SaveOpenFails
  <2>1. /\ UNCHANGED <<disk, pc, temp, isOpen>> /\ ~isOpen /\ job \in {"none", "saveOpen", "loadOpen"}
    BY <1>4 DEF SaveStart, LoadFails, LoadStart, SaveOpenFails, Construct, OpenFails
  <2> QED BY <2>1 DEF HolesInv, Openable, disk
<1>5. CASE SaveUnlink
  <2>1. job = "none" /\ ~diskHeader'.ok /\ isOpen' = isOpen /\ ~isOpen /\ pc' = "idle"
    BY <1>5 DEF SaveUnlink, NoFile, FreshHeader, JobInv, JobPhase, memory
  <2> QED BY <2>1 DEF HolesInv, Openable
<1>6. CASE SavePacked \/ SaveCount
  <2>1. /\ UNCHANGED <<dir, isOpen, pc, temp>> /\ job' = "saveClose" /\ pc = "idle"
        /\ \E v : header' = [header EXCEPT !.userData = v]
    BY <1>6 DEF SavePacked, SaveCount, SetHeaderUserData, Ready, Idle
  <2>2. header \in Header
    BY DEF JobInv, IInv, TypeOK
  <2>3. header'.dirOffset = header.dirOffset /\ header'.needPack = header.needPack
    BY <2>1, <2>2 DEF Header
  <2> QED BY <2>1, <2>3 DEF HolesInv
<1>7. CASE LoadErase
  <2>1. CASE readOnly
    BY <1>7, <2>1 DEF LoadErase, LoadFile, driveVars, memory, disk, HolesInv, Openable
  <2>2. CASE ~readOnly
    <3>1. /\ isOpen' = isOpen /\ UNCHANGED <<disk, pc>> /\ job = "loadFile" /\ job' = job /\ pc = "idle"
          /\ header' = [header EXCEPT !.count = Count - 1, !.needPack = TRUE]
      BY <1>7, <2>2 DEF LoadErase, LoadFile, FileErase, Ready, Idle
    <3>2. header \in Header
      BY DEF JobInv, IInv, TypeOK
    <3>3. header'.needPack
      BY <3>1, <3>2 DEF Header
    <3> QED BY <3>1, <3>3 DEF HolesInv, Openable, disk
  <2> QED BY <2>1, <2>2
<1>8. CASE Crash
  BY <1>8 DEF Crash
<1>9. CASE RefreshSteps
  <2>1. /\ UNCHANGED <<disk, header, dir, isOpen, pc, temp>> /\ job \in {"none", "parse"}
    BY <1>9, RefreshShape DEF driveVars, memory
  <2> QED BY <2>1, SMTT(30) DEF HolesInv, Openable, disk
<1> QED BY <1>1, <1>2, <1>3, <1>4, <1>5, <1>6, <1>7, <1>8, <1>9 DEF TagNext, JobSteps, SaveSteps

(***************************************************************************)
(* The theorems                                                            *)
(***************************************************************************)
TagInv == JobInv /\ PlacesInv /\ CountInv /\ PackInv

LEMMA TagInvHolds == TagSpec => []TagInv
<1>1. Init => TagInv
  <2>1. Init => PackInv
    BY InitJobInv DEF Init, PackInv, JobInv
  <2> QED BY <2>1, InitJobInv, InitPlacesInv, InitCountInv DEF TagInv
<1>2. TagInv /\ [TagNext]_vars => TagInv'
  <2> SUFFICES ASSUME TagInv, [TagNext]_vars PROVE TagInv'
    OBVIOUS
  <2>1. JobInv' /\ PlacesInv'
    BY JobInvStep, PlacesInvStep DEF TagInv
  <2>2. CountInv' /\ PackInv'
    BY <2>1, CountInvStep, TagPackStep DEF TagInv
  <2> QED BY <2>1, <2>2 DEF TagInv
<1> QED BY <1>1, <1>2, PTL DEF TagSpec

\* Every state of a project's database, of its drive and of the save or the load
\* under way has its types: the directory is as long as the header counts, and a load
\* whose limit an erased entry has moved never looks behind it.
THEOREM TagTypeCorrect == TagSpec => []TagTypeOK
<1>1. TagInv => TagTypeOK
  <2> SUFFICES ASSUME TagInv PROVE TagTypeOK
    OBVIOUS
  <2>1. TypeOK /\ created \in BOOLEAN /\ early \in BOOLEAN
    BY DEF TagInv, JobInv, IInv, SaveFlagsOK
  <2>2. \A n \in Names : /\ mem[n].time \in Times /\ mem[n].count \in Nat
                         /\ \A k \in 1 .. Len(mem[n].tags) : mem[n].tags[k] \in Data
    <3>1. \A n \in Names : mem[n] \in FileObject
      BY DEF TagInv, JobInv, ClientOK
    <3> QED BY <3>1 DEF FileObject
  <2> QED BY <2>1, <2>2 DEF TagTypeOK, TagInv, JobInv, ClientOK, RefreshOK
<1> QED BY <1>1, TagInvHolds, PTL

\* No two files of a project's database share a cell, and none reaches into the
\* directory, whatever is saved over what and wherever the program crashes.
THEOREM FilesShareNoCell == TagSpec => []FilesDisjoint
<1>1. TagInv => FilesDisjoint
  <2> SUFFICES ASSUME TagInv, isOpen, NEW i \in 1 .. Count, dir[i].name # JunkName
               PROVE  /\ \A j \in 1 .. Count \ {i} :
                            dir[j].name = JunkName \/ Extent(dir[i]) \cap Extent(dir[j]) = {}
                      /\ \/ \A o \in Extent(dir[i]) : o < header.dirOffset
                         \/ \E h \in Handles : h = writer /\ handles[h].idx = i
    BY DEF FilesDisjoint
  <2>1. /\ Sound(dir, DataEnd, cells) /\ Appending /\ header.dirOffset \in Nat
        /\ DOMAIN dir = 1 .. Count /\ \A j \in 1 .. Count : dir[j].offset \in Nat /\ dir[j].size \in Nat
        /\ writer # NoHandle => writer \in Handles
    BY DEF TagInv, JobInv, HandlesOK, PlacesInv, MemorySound, IInv, TypeOK, Directory, Count, Header, Entry
  <2>2. ASSUME NEW j \in 1 .. Count \ {i}, dir[j].name # JunkName
        PROVE  Extent(dir[i]) \cap Extent(dir[j]) = {}
    <3>1. Apart(dir[i], dir[j])
      BY <2>1, <2>2 DEF Sound
    <3>2. /\ dir[i].offset \in Nat /\ dir[i].size \in Nat /\ dir[j].offset \in Nat /\ dir[j].size \in Nat
          /\ \/ dir[i].offset + dir[i].size <= dir[j].offset \/ dir[j].offset + dir[j].size <= dir[i].offset
             \/ dir[i].size = 0 \/ dir[j].size = 0
      BY <2>1, <3>1 DEF Apart
    <3> QED BY ONLY <3>2 DEF Extent
  <2>3. CASE writer = NoHandle
    <3>1. dir[i].offset + dir[i].size <= header.dirOffset
      BY <2>1, <2>3 DEF Sound, Placed, DataEnd
    <3> QED BY <2>1, <2>2, <3>1, SMTT(30) DEF Extent
  <2>4. CASE writer # NoHandle
    <3>1. CASE handles[writer].idx = i
      BY <2>1, <2>2, <2>4, <3>1
    <3>2. CASE handles[writer].idx # i
      <4>1. dir[i].offset + dir[i].size <= header.dirOffset
        BY <2>1, <2>4, <3>2 DEF Appending
      <4> QED BY <2>1, <2>2, <4>1 DEF Extent
    <3> QED BY <3>1, <3>2
  <2> QED BY <2>3, <2>4
<1> QED BY <1>1, TagInvHolds, PTL

\* The tags written since a drive was packed or created are all counted in its
\* header, for every bound on that count.
THEOREM PackedInTime == TagSpec => []PackNotLate
<1>1. TagInv => PackNotLate
  BY DEF TagInv, CountInv, PackNotLate
<1> QED BY <1>1, TagInvHolds, PTL

\* A program that does not crash notes all space that belongs to no file.  (A crash
\* between the directory and the header of a flush loses the note.)
THEOREM UnusedSpaceNoted == ~Crashes => (TagSpec => []NeedPackCoversHoles)
<1> SUFFICES ASSUME ~Crashes PROVE TagSpec => []NeedPackCoversHoles
  OBVIOUS
<1>1. Init => HolesInv
  BY InitHolesInv
<1>2. TagInv /\ TagInv' /\ HolesInv /\ [TagNext]_vars => HolesInv'
  BY HolesInvStep DEF TagInv
<1>3. TagInv /\ HolesInv => NeedPackCoversHoles
  <2>1. TagInv /\ isOpen => DOMAIN dir = 1 .. Count
    BY DEF TagInv, JobInv, IInv, TypeOK, Directory, Count
  <2> QED BY <2>1 DEF HolesInv, NoHoles, NeedPackCoversHoles
<1>4. TagSpec => []HolesInv
  BY <1>1, <1>2, TagInvHolds, PTL DEF TagSpec
<1> QED BY <1>3, <1>4, TagInvHolds, PTL

(***************************************************************************)
(* The tag database implements TagStore: proved for every project, every   *)
(* size of the disk file, and crashes of the program between any two       *)
(* writes, for a database this version of the program has created and the  *)
(* option that compares the time stamps of the files.                      *)
(*                                                                         *)
(* The argument is about time stamps.  An entry of a directory may be      *)
(* trusted when its time stamp is that of the source file, or of the tags  *)
(* in memory, and no refresh left that version unread: it then holds the   *)
(* tags of that version.  Cells that a Save() writes over are those of an  *)
(* entry that is not trusted, or they hold already what is written.        *)
(***************************************************************************)

(***************************************************************************)
(* What an entry is worth                                                  *)
(***************************************************************************)
\* What Save() writes for the version v of the source file n.
Version(n, v) == <<FormatCell>> \o Tags(n, v)

\* The entry e, read from the cells c, has this program's format, and holds the tags
\* its time stamp promises if anyone would believe it and the version was read.  If
\* it is of the present version, the program holds that version or none; and if this
\* one was read, it has no other tags and is not to parse the file again.  Here s are
\* the times of the source files, m the File objects, q the files left in the list of
\* an interrupted refresh, and u what was left unread.
Good(e, c, s, m, q, u) ==
    LET n == e.name
        read == <<n, e.time>> \notin u
    IN /\ e.time <= s[n]
       /\ 1 \in DOMAIN Contents(e, c) /\ Contents(e, c)[1] = FormatCell
       /\ e.time # 0 /\ e.time \in {s[n], m[n].time} /\ read => Contents(e, c) = Version(n, e.time)
       /\ e.time = s[n] => m[n].time \in {0, s[n]}
       /\ e.time = s[n] /\ read => m[n].tags \in {<< >>, Tags(n, e.time)} /\ n \notin q

\* The tags in memory are those of a version of the file, if it was read, and then
\* the present version is not to be parsed again.  A file without a time stamp is only
\* parsed when an interrupted refresh has left it to do.
MemOK ==
    /\ \A n \in Names : src[n] >= 1
    /\ \A n \in Names : mem[n].time # 0 =>
          /\ mem[n].time <= src[n]
          /\ WasRead(n, mem[n].time) =>
                /\ mem[n].tags = Tags(n, mem[n].time) /\ mem[n].count = Len(mem[n].tags)
                /\ mem[n].time = src[n] => n \notin queued
    /\ job = "parse" /\ mem[cur].time = 0 => cur \in queued

\* The file under the hand of Save().
InHand(e) == job = "saveWrite" /\ e.name = cur

MemoryGood ==
    isOpen => \A i \in DOMAIN dir : dir[i].name # JunkName /\ ~InHand(dir[i])
                  => Good(dir[i], cells, src, mem, queued, unread)

\* Open() would read a directory, and these entries of it.
DiskLive == diskHeader.ok /\ diskHeader.count > 0 /\ diskDir.at = diskHeader.dirOffset
Visible == 1 .. AtMost(diskHeader.count, Len(diskDir.dir))

DiskGood ==
    DiskLive => \A k \in Visible : diskDir.dir[k].name # JunkName
                    => Good(diskDir.dir[k], cells, src, mem, queued, unread)

\* The part of the file that is written already.
Written ==
    \A h \in Handles : handles[h].open =>
        LET e == dir[handles[h].idx]
        IN /\ e.time = mem[cur].time
           /\ \A k \in 1 .. handles[h].pos : cells[e.offset + k - 1] = FileContents(cur)[k]

\* Pack() takes over the time stamps with the data.
TempGood ==
    /\ pc = "copy" => \A k \in DOMAIN temp.dir : temp.dir[k].name # JunkName =>
                         temp.dir[k].time = EntryOf(temp.dir[k].name).time
    /\ pc = "replace" => \A k \in DOMAIN temp.dir : temp.dir[k].name # JunkName =>
                            Good(temp.dir[k], temp.cells, src, mem, queued, unread)

(***************************************************************************)
(* The drive in memory and the drive on disk                               *)
(***************************************************************************)
Saving == job \in {"saveFile", "saveWrite", "savePacked", "saveClose"}

\* The data in memory ends no earlier than that on disk, and later when there are
\* new files.
Ahead ==
    Saving /\ isOpen =>
        /\ header.dirOffset >= diskHeader.dirOffset
        /\ writer = NoHandle /\ Count > diskHeader.count => header.dirOffset > diskHeader.dirOffset

\* A file is still where it is on disk, no larger, or behind the data on disk; a
\* file on disk has kept its time stamp or was saved.
Follows ==
    Saving /\ isOpen /\ DiskLive =>
        /\ \A i \in DOMAIN dir : dir[i].name # JunkName /\ dir[i].offset < diskDir.at =>
              \E k \in DOMAIN diskDir.dir :
                 /\ diskDir.dir[k].name = dir[i].name /\ diskDir.dir[k].offset = dir[i].offset
                 /\ dir[i].size <= diskDir.dir[k].size
        /\ \A k \in Visible : diskDir.dir[k].name # JunkName =>
              \E i \in DOMAIN dir : /\ dir[i].name = diskDir.dir[k].name
                                    /\ dir[i].time \in {diskDir.dir[k].time, mem[dir[i].name].time}

\* The files that the loop has seen have their entry; a cancelled loop is over.
HasEntry(d, n) == \E i \in DOMAIN d : d[i].name = n /\ d[i].time = mem[n].time
Done ==
    /\ job = "saveFile" /\ early => todo = {}
    /\ Saving /\ ~early =>
          \A n \in files \ todo : mem[n].time # 0 =>
              IF pc = "replace" THEN HasEntry(temp.dir, n) ELSE HasEntry(dir, n)

\* A drive is one this program has written, and a load changes nothing.
Ours ==
    /\ isOpen => header.ok
    /\ pc \in {"copy", "replace"} => temp.header.ok
    /\ job = "loadFile" => ~changed
    /\ job # "loadClose"

StoreInv ==
    /\ MemOK /\ MemoryGood /\ DiskGood /\ Written /\ TempGood
    /\ Ahead /\ Follows /\ Done /\ Ours

(***************************************************************************)
(* Facts about versions and entries                                        *)
(***************************************************************************)
\* A version is a cell for the format and one for each tag.
LEMMA VersionType ==
    ASSUME NEW n \in Names, NEW v \in Times
    PROVE  /\ Tags(n, v) \in Seq(Data) /\ Version(n, v) \in Seq(Data)
           /\ Len(Version(n, v)) = 1 + Len(Tags(n, v)) /\ Len(Tags(n, v)) \in Nat
           /\ Version(n, v) # << >> /\ Version(n, v)[1] = FormatCell
           /\ SubSeq(Version(n, v), 2, Len(Version(n, v))) = Tags(n, v)
<1>1. FormatCell \in Data /\ Tags(n, v) \in Seq(Data)
  BY TagsAreData
<1> HIDE DEF FormatCell, Tags
<1>2. <<FormatCell>> \in Seq(Data) /\ Len(<<FormatCell>>) = 1 /\ <<FormatCell>>[1] = FormatCell
  BY <1>1
<1>3. /\ Version(n, v) \in Seq(Data) /\ Len(Version(n, v)) = 1 + Len(Tags(n, v))
      /\ Len(Tags(n, v)) \in Nat
  BY <1>1, <1>2 DEF Version
<1>4. Version(n, v)[1] = FormatCell /\ Version(n, v) # << >>
  BY <1>1, <1>2, <1>3 DEF Version
<1>5. \A k \in 1 .. Len(Tags(n, v)) : Version(n, v)[k + 1] = Tags(n, v)[k]
  BY <1>1, <1>2 DEF Version
<1>6. SubSeq(Version(n, v), 2, Len(Version(n, v))) = Tags(n, v)
  <2> DEFINE s == SubSeq(Version(n, v), 2, Len(Version(n, v)))
  <2>1. s \in Seq(Data) /\ Len(s) = Len(Tags(n, v))
    BY <1>3
  <2>2. \A k \in 1 .. Len(s) : s[k] = Tags(n, v)[k]
    BY <1>3, <1>5, <2>1
  <2> QED BY <1>1, <2>1, <2>2
<1> QED BY <1>1, <1>3, <1>4, <1>6

\* What Save() writes for a file whose tags in memory are those of its time stamp.
LEMMA MemoryVersion ==
    ASSUME MemOK, NEW n \in Names, mem[n].time # 0, WasRead(n, mem[n].time)
    PROVE  FileContents(n) = Version(n, mem[n].time)
BY DEF MemOK, FileContents, Version

\* Whatever tags it writes, Save() puts the format before them.
LEMMA FirstCell ==
    ASSUME ClientOK, NEW n \in Names
    PROVE  FileContents(n)[1] = FormatCell /\ 1 \in 1 .. FileSize(n)
<1>1. mem[n].tags \in Seq(Data) /\ FormatCell \in Data
  BY TagsAreData DEF ClientOK, FileObject
<1>2. 1 \in 1 .. FileSize(n)
  BY FileContentsType
<1> HIDE DEF FormatCell
<1> QED BY <1>1, <1>2 DEF FileContents

\* A step that is no refresh and leaves what the program knows alone.
LEMMA MemKept ==
    ASSUME MemOK, UNCHANGED <<src, mem, queued, unread>>, job # "parse", job' # "parse"
    PROVE  MemOK'
BY DEF MemOK, WasRead

\* Cells outside an entry do not matter to it.
LEMMA ContentsKept ==
    ASSUME NEW e \in Entry, NEW c, NEW b, \A o \in Offsets : o \in Extent(e) => b[o] = c[o]
    PROVE  Contents(e, b) = Contents(e, c)
<1>1. e.offset \in Nat /\ e.size \in Nat
  BY DEF Entry
<1>2. \A k \in 1 .. e.size : e.offset + k - 1 \in Extent(e)
  BY <1>1 DEF Extent
<1> QED BY <1>2 DEF Contents

\* Two entries of a file are worth the same when they hold the same.
LEMMA GoodSame ==
    ASSUME NEW e, NEW c, NEW s, NEW m, NEW q, NEW u, Good(e, c, s, m, q, u), NEW f, NEW b,
           f.name = e.name, f.time = e.time, Contents(f, b) = Contents(e, c)
    PROVE  Good(f, b, s, m, q, u)
BY DEF Good

\* An edit makes what is stored useless; it is not mistaken for the new version.
LEMMA GoodEdit ==
    ASSUME NEW e \in Entry, NEW c, NEW s \in [Names -> Times], NEW m, NEW q, NEW u, e.name \in Names,
           Good(e, c, s, m, q, u), NEW n \in Names, NEW r, r = [s EXCEPT ![n] = @ + 1]
    PROVE  Good(e, c, r, m, q, u)
<1>1. ASSUME NEW t \in Times \cup {0} PROVE t \in Nat
  BY DatabaseAssumption
<1>2. e.time \in Nat /\ s[e.name] \in Nat
  <2>1. e.time \in Times \cup {0} /\ s[e.name] \in Times \cup {0}
    BY DEF Entry
  <2> QED BY <1>1, <2>1
<1>3. CASE e.name = n
  <2>1. r[e.name] = s[e.name] + 1
    BY <1>3
  <2> QED BY <1>2, <2>1 DEF Good
<1>4. CASE e.name # n
  BY <1>4 DEF Good
<1> QED BY <1>3, <1>4

\* What may become of the File objects m, the list q of an interrupted refresh, and of
\* what was left unread u, while the source files stay: a file is given the tags of its
\* present version or none, or that version is not read, or no entry is of it.
Learned(m, q, u, k, r, w, s) ==
    /\ u \subseteq w
    /\ \A n \in Names :
          /\ k[n].time \in {0, m[n].time, s[n]}
          /\ \/ k[n].tags \in {<< >>, m[n].tags, Tags(n, s[n])} /\ (n \in r => n \in q)
             \/ <<n, s[n]>> \in w \/ n \in q \/ m[n].time \notin {0, s[n]}
LearnedNow == Learned(mem, queued, unread, mem', queued', unread', src)

LEMMA GoodLearn ==
    ASSUME NEW e, NEW c, NEW s, NEW m, NEW q, NEW u, e.name \in Names, Good(e, c, s, m, q, u),
           NEW k, NEW r, NEW w, Learned(m, q, u, k, r, w, s)
    PROVE  Good(e, c, s, k, r, w)
BY DEF Good, Learned

\* The data of an entry that is believed is what a Save() would write over it.
LEMMA SameData ==
    ASSUME JobInv, MemOK, NEW e \in Entry, e.name \in Names, Good(e, cells, src, mem, queued, unread),
           e.time # 0, e.time \in {src[e.name], mem[e.name].time}, <<e.name, e.time>> \notin unread,
           job # "parse", NEW j \in 1 .. FileSize(e.name)
    PROVE  Contents(e, cells)[j] = FileContents(e.name)[j]
<1> DEFINE n == e.name
<1>1. Contents(e, cells) = Version(n, e.time)
  BY DEF Good
<1>2. e.time \in Times /\ mem[n].tags \in Seq(Data)
  BY ListedType DEF Entry, JobInv, ClientOK, FileObject
<1>3. CASE mem[n].tags = Tags(n, e.time)
  BY <1>1, <1>3 DEF FileContents, Version
<1>4. CASE e.time = src[n] /\ mem[n].tags = << >>
  <2>1. j = 1
    BY <1>4 DEF FileSize
  <2>2. Version(n, e.time)[1] = FormatCell
    BY <1>2, VersionType
  <2>3. FileContents(n)[1] = FormatCell
    <3> HIDE DEF FormatCell
    <3> QED BY <1>4 DEF FileContents
  <2> QED BY <1>1, <2>1, <2>2, <2>3
<1>5. e.time = src[n] \/ e.time = mem[n].time
  OBVIOUS
<1> QED BY <1>3, <1>4, <1>5 DEF Good, MemOK, WasRead

\* Copying a file into the temporary drive takes over its time stamp.
LEMMA CopyIntoTimes ==
    ASSUME NEW v, Drive(v), NEW n, NEW t, NEW size \in Nat, NEW c, NEW w, w = CopyInto(v, n, t, c, size)
    PROVE  /\ w.header.ok = v.header.ok
           /\ \A k \in DOMAIN w.dir : \/ w.dir[k].name = n /\ w.dir[k].time = t
                                      \/ k \in DOMAIN v.dir /\ w.dir[k] = v.dir[k]
<1> DEFINE count == v.header.count
           same == {i \in 1 .. count : v.dir[i].name = n}
           k == IF same = {} THEN count + 1 ELSE CHOOSE i \in same : TRUE
           fits == same # {} /\ size <= v.dir[k].size
           at == IF fits THEN v.dir[k].offset ELSE v.header.dirOffset
           e == [name |-> n, time |-> t, offset |-> at, size |-> size]
           repack == same # {} /\ (~fits \/ size < v.dir[k].size)
<1>1. count \in Nat /\ v.dir \in Directory(count) /\ DOMAIN v.dir = 1 .. count /\ v.header \in Header
  BY DEF Drive, Header, Directory
<1>2. /\ w.header = [v.header EXCEPT !.count = IF same = {} THEN count + 1 ELSE count,
                                     !.dirOffset = IF fits THEN @ ELSE at + size,
                                     !.needPack = @ \/ repack]
      /\ w.dir = IF same = {} THEN Append1(v.dir, count, e) ELSE [v.dir EXCEPT ![k] = e]
  BY Zenon DEF CopyInto
<1>3. e.name = n /\ e.time = t
  OBVIOUS
<1> HIDE DEF same, k, e, repack, fits, at
<1>4. w.header.ok = v.header.ok
  BY <1>1, <1>2 DEF Header
<1>5. ASSUME NEW j \in DOMAIN w.dir
      PROVE  \/ w.dir[j] = e
             \/ j \in DOMAIN v.dir /\ w.dir[j] = v.dir[j]
  <2>1. CASE w.dir = Append1(v.dir, count, e)
    BY <1>1, <1>5, <2>1 DEF Append1
  <2>2. CASE w.dir = [v.dir EXCEPT ![k] = e]
    BY <1>1, <1>5, <2>2
  <2> QED BY <1>2, <2>1, <2>2
<1> QED BY <1>3, <1>4, <1>5

(***************************************************************************)
(* The invariant in the initial states, and the steps of the client        *)
(***************************************************************************)
\* Every entry that is not read from garbage has a name of the project's.
LEMMA EntryTypes ==
    ASSUME JobInv
    PROVE  /\ \A i \in DOMAIN dir : isOpen => dir[i] \in Entry
           /\ \A k \in DOMAIN diskDir.dir : diskDir.dir[k] \in Entry
           /\ \A k \in DOMAIN temp.dir : temp.dir[k] \in Entry
           /\ \A e \in Entry : e.name # JunkName => e.name \in Names
<1>1. isOpen => \A i \in DOMAIN dir : dir[i] \in Entry
  BY DEF JobInv, IInv, TypeOK, Directory
<1>2. \A k \in DOMAIN diskDir.dir : diskDir.dir[k] \in Entry
  BY DEF JobInv, IInv, TypeOK
<1>3. \A k \in DOMAIN temp.dir : temp.dir[k] \in Entry
  BY DEF JobInv, IInv, TypeOK, Directory
<1>4. \A e \in Entry : e.name # JunkName => e.name \in Names
  BY DEF Entry
<1> QED BY <1>1, <1>2, <1>3, <1>4

\* What Open() reads has a length.
LEMMA VisibleEntries ==
    ASSUME JobInv, PlacesInv
    PROVE  /\ Visible \subseteq DOMAIN diskDir.dir
           /\ diskHeader.count \in Nat /\ Len(diskDir.dir) \in Nat
           /\ DOMAIN diskDir.dir = 1 .. Len(diskDir.dir)
           /\ DiskLive => diskDir.at >= HeaderEnd /\ diskDir.at \in Nat
<1>1. diskDir.dir \in Seq(Entry) /\ (diskHeader.ok => diskHeader.dirOffset >= HeaderEnd)
  BY DEF PlacesInv, DiskSound
<1>2. diskHeader.count \in Nat /\ diskDir.at \in Nat
  BY DEF JobInv, IInv, TypeOK, Header
<1>3. Len(diskDir.dir) \in Nat /\ DOMAIN diskDir.dir = 1 .. Len(diskDir.dir)
  BY <1>1
<1>4. Visible \subseteq DOMAIN diskDir.dir
  BY <1>2, <1>3 DEF Visible, AtMost
<1> QED BY <1>1, <1>2, <1>3, <1>4 DEF DiskLive

\* The tags in memory as they are.
LEMMA LearnedSame == UNCHANGED <<mem, queued, unread>> => LearnedNow
BY DEF Learned, LearnedNow

\* The disk, when only the tags in memory change.
LEMMA DiskGoodKept ==
    ASSUME JobInv, PlacesInv, DiskGood, UNCHANGED <<disk, src>>, LearnedNow
    PROVE  DiskGood'
<1>1. UNCHANGED <<diskHeader, cells, diskDir, src>>
  BY DEF disk
<1>2. ASSUME NEW k \in Visible, diskDir.dir[k].name # JunkName, DiskLive
      PROVE  Good(diskDir.dir[k], cells, src, mem', queued', unread')
  <2>1. Good(diskDir.dir[k], cells, src, mem, queued, unread)
    BY <1>2 DEF DiskGood
  <2>2. diskDir.dir[k].name \in Names
    BY <1>2, EntryTypes, VisibleEntries
  <2> QED BY <2>1, <2>2, GoodLearn DEF LearnedNow
<1> QED BY <1>1, <1>2 DEF DiskGood, DiskLive, Visible

\* With the drive closed the disk and the tags in memory are all there is.
LEMMA ClosedStore ==
    ASSUME JobInv', MemOK', DiskGood', ~isOpen',
           job' \in {"none", "parse", "saveOpen", "saveCreate", "loadOpen"}
    PROVE  StoreInv'
<1>1. pc' = "idle" /\ \A h \in Handles : ~handles'[h].open
  BY DEF JobInv, JobPhase, HandlesOK
<1> QED BY <1>1 DEF StoreInv, MemoryGood, Written, TempGood, Ahead, Follows, Done, Ours, Saving

LEMMA InitStoreInv == Init /\ ~OldFormat => StoreInv
<1> SUFFICES ASSUME Init, ~OldFormat PROVE StoreInv
  OBVIOUS
<1>1. ~diskHeader.ok
  BY DEF Init, NoFile, FreshHeader
<1>2. DiskGood
  BY <1>1 DEF DiskGood, DiskLive
<1>3. MemOK
  BY DEF Init, MemOK, Unparsed
<1>4. ~isOpen /\ job = "none" /\ pc = "idle" /\ \A h \in Handles : ~handles[h].open
  BY DEF Init, AllClosed, ClosedHandle
<1> QED BY <1>2, <1>3, <1>4
        DEF StoreInv, MemoryGood, Written, TempGood, Ahead, Follows, Done, Ours, Saving

\* A step of the client that leaves the drive alone.
LEMMA LearnStore ==
    ASSUME JobInv, JobInv', PlacesInv, StoreInv, UNCHANGED <<driveVars, job, cur, early>>,
           \/ UNCHANGED src /\ LearnedNow
           \/ UNCHANGED <<mem, queued, unread>> /\ \E n \in Names : src' = [src EXCEPT ![n] = @ + 1],
           Saving => UNCHANGED mem, MemOK', Done'
    PROVE  StoreInv'
<1>0. /\ UNCHANGED <<isOpen, readOnly, changed, header, dir, fmap, handles, writer, diskHeader, cells, diskDir,
                     pc, temp>>
      /\ src \in [Names -> Times]
  BY DEF driveVars, memory, disk, JobInv, ClientOK
<1>1. ASSUME NEW e \in Entry, NEW c, e.name # JunkName, Good(e, c, src, mem, queued, unread)
      PROVE  Good(e, c, src', mem', queued', unread')
  <2>1. e.name \in Names
    BY <1>1, EntryTypes
  <2>2. CASE UNCHANGED src /\ LearnedNow
    BY <1>1, <2>1, <2>2, GoodLearn DEF LearnedNow
  <2>3. ASSUME NEW n \in Names, UNCHANGED <<mem, queued, unread>>, src' = [src EXCEPT ![n] = @ + 1]
        PROVE  Good(e, c, src', mem', queued', unread')
    BY <1>0, <1>1, <2>1, <2>3, GoodEdit
  <2> QED BY <2>2, <2>3
<1>2. MemoryGood'
  BY <1>0, <1>1, EntryTypes DEF StoreInv, MemoryGood, InHand
<1>3. DiskGood'
  BY <1>0, <1>1, EntryTypes, VisibleEntries DEF StoreInv, DiskGood, DiskLive, Visible
<1>4. Written'
  <2>1. CASE job = "saveWrite"
    <3>1. UNCHANGED mem
      BY <2>1 DEF Saving
    <3>2. FileContents(cur)' = FileContents(cur)
      BY <3>1 DEF FileContents
    <3> QED BY <1>0, <3>1, <3>2 DEF StoreInv, Written
  <2>2. CASE job # "saveWrite"
    BY <2>2 DEF JobInv, HandlesOK, Written
  <2> QED BY <2>1, <2>2
<1>5. TempGood'
  BY <1>0, <1>1, EntryTypes DEF StoreInv, TempGood, EntryOf
<1>6. Ahead' /\ Follows' /\ Ours'
  <2>1. Ahead'
    BY <1>0 DEF StoreInv, Ahead, Saving, Count
  <2>2. Follows'
    BY <1>0 DEF StoreInv, Follows, Saving, DiskLive, Visible
  <2>3. Ours'
    BY <1>0 DEF StoreInv, Ours
  <2> QED BY <2>1, <2>2, <2>3
<1> QED BY <1>2, <1>3, <1>4, <1>5, <1>6 DEF StoreInv

\* The options the rest is about: the time stamps of files are compared, and the
\* database was not written by an older version of the program.
Trusting == AutoRefresh /\ ~OldFormat

\* An entry that is loaded is of the present version, and holds its tags if it was
\* read; the program holds that version or none.
LEMMA LoadTrusted ==
    ASSUME JobInv, PlacesInv, StoreInv, AutoRefresh, LoadFile, ~NotLoaded
    PROVE  /\ LoadEntry.name \in Names /\ LoadEntry.time = src[LoadEntry.name]
           /\ LoadEntry.time \in Times
           /\ LET n == LoadEntry.name
              IN /\ mem[n].time \in {0, src[n]}
                 /\ <<n, src[n]>> \notin unread => LoadContents = Version(n, src[n]) /\ n \notin queued
           /\ GoodFormat
<1> DEFINE n == LoadEntry.name
<1>1. /\ job = "loadFile" /\ Ready /\ isOpen /\ idx <= limit
      /\ Found(n) /\ n \in files /\ LoadEntry.time = src[n]
  BY DEF LoadFile, NotLoaded, Ready
<1>2. /\ idx \in Nat \ {0} /\ limit \in Int /\ limit <= Count /\ files \subseteq Names /\ IInv
      /\ src \in [Names -> Times]
  BY <1>1 DEF JobInv, ClientOK
<1>3. Count \in Nat /\ DOMAIN dir = 1 .. Count
  BY <1>1, <1>2, OpenDrive DEF Directory
<1>4. idx \in DOMAIN dir
  <2> HIDE DEF Count
  <2> QED BY <1>1, <1>2, <1>3
<1>5. n \in Names /\ n # JunkName /\ LoadEntry = dir[idx]
  BY <1>1, <1>2, NamesAssumption DEF JunkName, LoadEntry
<1>6. EntryOf(n) = LoadEntry
  BY <1>1, <1>4, <1>5 DEF PlacesInv, MemorySound, MapKnows, EntryOf
<1>7. Good(LoadEntry, cells, src, mem, queued, unread)
  <2>1. ~InHand(dir[idx])
    BY <1>1 DEF InHand
  <2> QED BY <1>1, <1>4, <1>5, <2>1 DEF StoreInv, MemoryGood
<1>8. src[n] >= 1 /\ src[n] \in Times
  BY <1>2, <1>5 DEF StoreInv, MemOK
<1>9. /\ mem[n].time \in {0, src[n]}
      /\ <<n, src[n]>> \notin unread => LoadContents = Version(n, src[n]) /\ n \notin queued
  <2>1. LoadEntry.time # 0 /\ LoadEntry.time \in {src[n], mem[n].time} /\ LoadEntry.time = src[n]
    BY <1>1, <1>8
  <2>2. /\ mem[n].time \in {0, src[n]}
        /\ <<n, src[n]>> \notin unread => Contents(LoadEntry, cells) = Version(n, src[n]) /\ n \notin queued
    BY <1>7, <2>1 DEF Good
  <2> QED BY <1>6, <2>2 DEF LoadContents
<1>10. GoodFormat
  <2>1. 1 \in DOMAIN LoadContents /\ LoadContents[1] = FormatCell
    BY <1>6, <1>7 DEF Good, LoadContents
  <2> QED BY <2>1 DEF GoodFormat
<1> QED BY <1>1, <1>5, <1>8, <1>9, <1>10

\* So a load takes over the tags of the present version of a file, and nothing else,
\* unless that version was left unread: then these may be any tags, or none.
LEMMA LoadTakes ==
    ASSUME JobInv, PlacesInv, StoreInv, AutoRefresh, LoadTags
    PROVE  \E n \in Names :
              /\ \E f : mem' = [mem EXCEPT ![n] = f] /\ f.time \in {0, src[n]}
              /\ <<n, src[n]>> \notin unread =>
                    n \notin queued /\ mem' = [mem EXCEPT ![n] = Listed(src[n], Tags(n, src[n]))]
<1> DEFINE n == LoadEntry.name
           tags == SubSeq(LoadContents, 2, Len(LoadContents))
<1>1. /\ n \in Names /\ LoadEntry.time = src[n] /\ src[n] \in Times
      /\ mem[n].time \in {0, src[n]}
      /\ <<n, src[n]>> \notin unread => LoadContents = Version(n, src[n]) /\ n \notin queued
  <2>1. LoadFile /\ ~NotLoaded
    BY DEF LoadTags
  <2> QED BY <2>1, LoadTrusted
<1>2. \/ mem' = [mem EXCEPT ![n] = Listed(LoadEntry.time, tags)]
      \/ ~WellFormed(tags) /\ mem' = [mem EXCEPT ![n].tags = << >>, ![n].count = 0]
  BY DEF LoadTags
<1>3. ASSUME <<n, src[n]>> \notin unread
      PROVE  n \notin queued /\ mem' = [mem EXCEPT ![n] = Listed(src[n], Tags(n, src[n]))]
  <2>1. tags = Tags(n, src[n])
    BY <1>1, <1>3, VersionType
  <2>2. WellFormed(tags)
    BY <1>1, <2>1 DEF WellFormed
  <2> QED BY <1>1, <1>2, <1>3, <2>1, <2>2
<1>4. \E f : mem' = [mem EXCEPT ![n] = f] /\ f.time \in {0, src[n]}
  <2>1. mem \in [Names -> FileObject]
    BY DEF JobInv, ClientOK
  <2> HIDE DEF tags
  <2>2. CASE mem' = [mem EXCEPT ![n] = Listed(LoadEntry.time, tags)]
    <3>1. Listed(LoadEntry.time, tags).time = src[n]
      BY <1>1 DEF Listed
    <3> QED BY <2>2, <3>1
  <2>3. CASE mem' = [mem EXCEPT ![n].tags = << >>, ![n].count = 0]
    <3> DEFINE f == [mem[n] EXCEPT !.tags = << >>, !.count = 0]
    <3>1. f.time = mem[n].time
      BY <1>1, <2>1 DEF FileObject
    <3>2. mem' = [mem EXCEPT ![n] = f]
      BY <1>1, <2>1, <2>3
    <3> HIDE DEF f
    <3> QED BY <1>1, <3>1, <3>2
  <2> QED BY <1>2, <2>2, <2>3
<1> QED BY <1>1, <1>3, <1>4

\* The steps of the source files, of the project and of a load.
LEMMA ClientStore ==
    ASSUME JobInv, JobInv', PlacesInv, StoreInv, Trusting,
           \/ \E n \in Names : Edit(n) \/ ChangeProject(n) \/ SaveSkip(n)
           \/ RemoveAll \/ LoadSkip \/ LoadTags \/ UNCHANGED vars
    PROVE  StoreInv'
<1>0. /\ mem \in [Names -> FileObject] /\ src \in [Names -> Times] /\ MemOK
      /\ \A n \in Names : src[n] \in Nat
  <2>1. mem \in [Names -> FileObject] /\ src \in [Names -> Times] /\ MemOK
    BY DEF JobInv, ClientOK, StoreInv
  <2> QED BY <2>1, DatabaseAssumption
<1>1. ASSUME NEW n \in Names, Edit(n) PROVE StoreInv'
  <2>1. /\ UNCHANGED <<driveVars, job, cur, early, mem, queued, unread, files, todo>>
        /\ src' = [src EXCEPT ![n] = @ + 1]
    BY <1>1 DEF Edit, saveVars, refreshVars
  <2>2. MemOK'
    <3>1. \A m \in Names : src'[m] \in Nat /\ src'[m] >= src[m] /\ (src'[m] = src[m] \/ src'[m] > src[m])
      BY <1>0, <2>1
    <3>2. \A m \in Names : mem[m].time \in Nat
      BY <1>0, DatabaseAssumption DEF FileObject
    <3>3. \A m \in Names : src'[m] >= 1
      BY <1>0, <3>1 DEF MemOK
    <3>4. ASSUME NEW m \in Names, mem[m].time # 0
          PROVE  mem[m].time <= src'[m] /\ (mem[m].time = src'[m] => mem[m].time = src[m])
      <4>1. mem[m].time <= src[m]
        BY <1>0, <3>4 DEF MemOK
      <4> QED BY <1>0, <3>1, <3>2, <4>1
    <3>5. \A m \in Names : WasRead(m, mem[m].time)' = WasRead(m, mem[m].time)
      BY <2>1 DEF WasRead
    <3> QED BY <1>0, <2>1, <3>3, <3>4, <3>5 DEF MemOK
  <2>3. Done'
    <3>1. UNCHANGED <<pc, dir, temp, mem, files, todo, job, early>>
      BY <2>1 DEF driveVars, memory
    <3> QED BY <3>1 DEF StoreInv, Done, Saving, HasEntry
  <2> QED BY <2>1, <2>2, <2>3, LearnStore
<1>2. ASSUME UNCHANGED <<driveVars, src, job, cur, early, unread>>, ~Saving, job # "parse", queued' \subseteq queued,
             \A n \in Names : \/ mem'[n] = mem[n]
                              \/ mem'[n].time = 0 /\ mem'[n].tags \in {<< >>, mem[n].tags}
                              \/ mem'[n] = Listed(src[n], Tags(n, src[n])) /\ n \notin queued
                              \/ mem'[n].time \in {0, src[n]} /\ <<n, src[n]>> \in unread
      PROVE  StoreInv'
  <2>1. ASSUME NEW n \in Names
        PROVE  LET f == Listed(src[n], Tags(n, src[n]))
               IN f.time = src[n] /\ f.tags = Tags(n, src[n]) /\ f.count = Len(Tags(n, src[n]))
    <3> DEFINE tags == Tags(n, src[n])
    <3> HIDE DEF tags
    <3>1. LET f == Listed(src[n], tags)
          IN f.time = src[n] /\ f.tags = tags /\ f.count = Len(tags)
      BY DEF Listed
    <3> QED BY <3>1 DEF tags
  <2>2. LearnedNow
    BY <1>2, <2>1 DEF Learned, LearnedNow
  <2>3. MemOK'
    <3>1. ASSUME NEW n \in Names, mem'[n].time # 0
          PROVE  /\ mem'[n].time <= src[n]
                 /\ WasRead(n, mem[n].time)' =>
                       /\ mem'[n].tags = Tags(n, mem'[n].time) /\ mem'[n].count = Len(mem'[n].tags)
                       /\ mem'[n].time = src[n] => n \notin queued'
      <4>1. CASE mem'[n] = mem[n]
        <5>1. WasRead(n, mem[n].time)' => WasRead(n, mem[n].time)
          BY <1>2, <4>1 DEF WasRead
        <5> QED BY <1>0, <1>2, <3>1, <4>1, <5>1 DEF MemOK
      <4>2. CASE mem'[n] = Listed(src[n], Tags(n, src[n])) /\ n \notin queued
        <5>1. /\ mem'[n].time = src[n] /\ mem'[n].tags = Tags(n, src[n])
              /\ mem'[n].count = Len(Tags(n, src[n]))
          BY <2>1, <4>2
        <5>2. src[n] <= src[n]
          BY <1>0
        <5> QED BY <1>2, <4>2, <5>1, <5>2
      <4>3. CASE mem'[n].time \in {0, src[n]} /\ <<n, src[n]>> \in unread
        <5>1. mem'[n].time = src[n] /\ src[n] <= src[n]
          BY <1>0, <3>1, <4>3
        <5> QED BY <1>2, <4>3, <5>1 DEF WasRead
      <4> QED BY <1>2, <3>1, <4>1, <4>2, <4>3
    <3>2. \A n \in Names : src'[n] >= 1
      BY <1>0, <1>2 DEF MemOK
    <3> QED BY <1>2, <3>1, <3>2 DEF MemOK
  <2>4. Done' /\ (Saving => UNCHANGED mem)
    BY <1>2 DEF Done, Saving
  <2> QED BY <1>2, <2>2, <2>3, <2>4, LearnStore
<1>3. CASE RemoveAll \/ \E n \in Names : ChangeProject(n)
  <2>1. UNCHANGED <<driveVars, src, job, cur, early, unread>> /\ ~Saving /\ job # "parse" /\ queued' \subseteq queued
    BY <1>3 DEF ChangeProject, RemoveAll, saveVars, refreshVars, Saving
  <2>2. ASSUME NEW n \in Names
        PROVE  \/ mem'[n] = mem[n]
               \/ mem'[n].time = 0 /\ mem'[n].tags \in {<< >>, mem[n].tags}
    <3>1. [mem[n] EXCEPT !.time = 0, !.count = 0].time = 0
          /\ [mem[n] EXCEPT !.time = 0, !.count = 0].tags = mem[n].tags
      BY <1>0 DEF FileObject
    <3>2. Unparsed.time = 0 /\ Unparsed.tags = << >>
      BY DEF Unparsed
    <3>3. mem'[n] \in {mem[n], Unparsed, [mem[n] EXCEPT !.time = 0, !.count = 0]}
      BY <1>0, <1>3 DEF ChangeProject, RemoveAll
    <3> QED BY <3>1, <3>2, <3>3
  <2> QED BY <1>2, <2>1, <2>2
<1>4. CASE LoadSkip \/ LoadTags
  <2>1. UNCHANGED <<driveVars, src, job, cur, early, queued, unread>> /\ ~Saving /\ job # "parse"
    BY <1>4 DEF LoadSkip, LoadTags, LoadFile, saveVars, refreshVars, Saving
  <2>2. CASE LoadSkip
    <3>1. UNCHANGED mem
      BY <2>2 DEF LoadSkip
    <3> QED BY <1>2, <2>1, <3>1
  <2>3. CASE LoadTags
    <3>1. PICK n \in Names :
             /\ \E f : mem' = [mem EXCEPT ![n] = f] /\ f.time \in {0, src[n]}
             /\ <<n, src[n]>> \notin unread =>
                   n \notin queued /\ mem' = [mem EXCEPT ![n] = Listed(src[n], Tags(n, src[n]))]
      BY <2>3, LoadTakes DEF Trusting
    <3>2. PICK f : mem' = [mem EXCEPT ![n] = f] /\ f.time \in {0, src[n]}
      BY <3>1
    <3>3. mem'[n] = f /\ \A m \in Names \ {n} : mem'[m] = mem[m]
      BY <1>0, <3>2
    <3>4. \/ mem'[n] = Listed(src[n], Tags(n, src[n])) /\ n \notin queued
          \/ mem'[n].time \in {0, src[n]} /\ <<n, src[n]>> \in unread
      BY <1>0, <3>1, <3>2, <3>3
    <3> QED BY <1>2, <2>1, <3>3, <3>4
  <2> QED BY <1>4, <2>2, <2>3
<1>5. ASSUME NEW n \in Names, SaveSkip(n) PROVE StoreInv'
  <2>1. /\ UNCHANGED <<driveVars, src, files, mem, queued, unread, job, cur, early>>
        /\ job = "saveFile" /\ UpToDate(n) /\ todo' = todo \ {n}
    BY <1>5 DEF SaveSkip, refreshVars
  <2>2. MemOK'
    BY <1>0, <2>1, MemKept
  <2>3. UNCHANGED <<pc, dir>> /\ pc = "idle" /\ isOpen
    BY <2>1 DEF driveVars, memory, JobInv, JobPhase
  <2>4. HasEntry(dir, n)
    <3>1. fmap[n] \in 1 .. Count /\ dir[fmap[n]].name = n /\ dir[fmap[n]].time = mem[n].time
      BY <2>1, <2>3 DEF UpToDate, Found, EntryOf, JobInv, IInv, MapSound
    <3>2. DOMAIN dir = 1 .. Count
      BY <2>3 DEF JobInv, IInv, TypeOK, Directory, Count
    <3> QED BY <3>1, <3>2 DEF HasEntry
  <2>5. Done'
    <3>1. HasEntry(dir, n)'
      BY <2>1, <2>3, <2>4 DEF HasEntry
    <3> QED BY <2>1, <2>3, <2>4 DEF StoreInv, Done, Saving, HasEntry
  <2> QED BY <2>1, <2>2, <2>5, LearnedSame, LearnStore
<1>6. CASE UNCHANGED vars
  <2>1. UNCHANGED <<driveVars, src, files, mem, queued, unread, job, cur, early, todo, pc, dir, temp>>
    BY <1>6 DEF vars, clientVars, saveVars, refreshVars, driveVars, memory
  <2>2. MemOK'
    BY <1>0, <2>1 DEF MemOK, WasRead
  <2>3. Done'
    BY <2>1 DEF StoreInv, Done, Saving, HasEntry
  <2> QED BY <2>1, <2>2, <2>3, LearnedSame, LearnStore
<1> QED BY <1>1, <1>3, <1>4, <1>5, <1>6

\* A refresh takes over a time stamp and does not yet believe it; it ends with the tags
\* of that version, or with the note that they were not read.
LEMMA RefreshStore ==
    ASSUME JobInv, JobInv', PlacesInv, StoreInv, RefreshSteps
    PROVE  StoreInv'
<1>0. /\ mem \in [Names -> FileObject] /\ MemOK /\ DiskGood
      /\ \A n \in Names : src[n] \in Nat /\ src[n] >= 1
  <2>1. mem \in [Names -> FileObject] /\ src \in [Names -> Times] /\ MemOK /\ DiskGood
    BY DEF JobInv, ClientOK, StoreInv
  <2> QED BY <2>1, DatabaseAssumption DEF MemOK
<1>1. UNCHANGED <<disk, src>> /\ job' \in {"none", "parse"} /\ ~isOpen'
  <2>1. UNCHANGED <<driveVars, src>> /\ job \in {"none", "parse"} /\ job' \in {"none", "parse"}
    BY DEF RefreshSteps, Detect, Requeued, Parse, Misparse, NotParsed, ParseEnd
  <2> QED BY <2>1 DEF driveVars, JobInv, JobPhase
<1>2. ASSUME NEW n \in Names, Detect(n) PROVE MemOK' /\ LearnedNow
  <2>1. /\ job = "none" /\ job' = "parse" /\ cur' = n /\ UNCHANGED <<src, queued, unread>>
        /\ mem' = [mem EXCEPT ![n].time = src[n], ![n].count = 0]
    BY <1>2 DEF Detect, refreshVars
  <2>2. /\ mem'[n].time = src[n] /\ mem'[n].tags = mem[n].tags
        /\ \A m \in Names \ {n} : mem'[m] = mem[m]
    BY <1>0, <2>1 DEF FileObject
  <2>3. MemOK'
    <3>1. src[n] # 0 /\ src[n] <= src[n]
      BY <1>0
    <3>2. ASSUME NEW m \in Names, mem'[m].time # 0
          PROVE  /\ mem'[m].time <= src[m]
                 /\ WasRead(m, mem[m].time)' =>
                       /\ mem'[m].tags = Tags(m, mem'[m].time) /\ mem'[m].count = Len(mem'[m].tags)
                       /\ mem'[m].time = src[m] => m \notin queued
      <4>1. CASE m = n
        BY <2>1, <2>2, <3>1, <4>1 DEF WasRead
      <4>2. CASE m # n
        <5>1. mem'[m] = mem[m]
          BY <2>2, <4>2
        <5>2. job # "parse" /\ unread' = unread
          BY <2>1
        <5>3. WasRead(m, mem[m].time)' => WasRead(m, mem[m].time)
          BY <5>1, <5>2 DEF WasRead
        <5> QED BY <1>0, <3>2, <5>1, <5>3 DEF MemOK
      <4> QED BY <4>1, <4>2
    <3> QED BY <1>0, <2>1, <2>2, <3>1, <3>2 DEF MemOK
  <2>4. LearnedNow
    BY <2>1, <2>2 DEF Learned, LearnedNow
  <2> QED BY <2>3, <2>4
<1>3. ASSUME NEW n \in Names, Requeued(n) PROVE MemOK' /\ LearnedNow
  <2>1. job = "none" /\ cur' = n /\ n \in queued /\ UNCHANGED <<src, mem, queued, unread>>
    BY <1>3 DEF Requeued, refreshVars
  <2>2. \A m \in Names : WasRead(m, mem[m].time)' => WasRead(m, mem[m].time)
    BY <2>1 DEF WasRead
  <2>3. MemOK'
    BY <1>0, <2>1, <2>2 DEF MemOK
  <2> QED BY <2>1, <2>3, LearnedSame
<1>4. ASSUME Parse \/ Misparse \/ NotParsed PROVE MemOK' /\ LearnedNow
  <2>1. job = "parse" /\ cur \in Names /\ job' = "none" /\ UNCHANGED src
    BY <1>4 DEF Parse, Misparse, NotParsed, ParseEnd, JobInv, ClientOK
  <2>2. /\ mem'[cur].time = mem[cur].time
        /\ \A m \in Names \ {cur} : mem'[m] = mem[m]
    <3>1. \/ UNCHANGED mem
          \/ \E tags : mem' = [mem EXCEPT ![cur] = Listed(mem[cur].time, tags)]
      BY <1>4 DEF Parse, Misparse, NotParsed
    <3>2. \A tags : Listed(mem[cur].time, tags).time = mem[cur].time
      BY DEF Listed
    <3> QED BY <1>0, <2>1, <3>1, <3>2
  <2>3. unread \subseteq unread' /\ queued' \in {queued \ {cur}, queued \cup {cur}}
    BY <1>4 DEF Parse, Misparse, NotParsed, NoteUnread
  <2>4. \/ <<cur, mem[cur].time>> \in unread'
        \/ /\ src[cur] = mem[cur].time /\ cur \notin queued'
           /\ mem'[cur].tags = Tags(cur, src[cur]) /\ mem'[cur].count = Len(mem'[cur].tags)
    <3>1. CASE Misparse \/ NotParsed \/ (Parse /\ src[cur] # mem[cur].time)
      BY <3>1 DEF Misparse, NotParsed, NoteUnread, Parse, Stamp
    <3>2. CASE Parse /\ src[cur] = mem[cur].time
      <4> DEFINE tags == Tags(cur, src[cur])
      <4>1. mem' = [mem EXCEPT ![cur] = Listed(mem[cur].time, tags)] /\ queued' = queued \ {cur}
        BY <3>2 DEF Parse
      <4> HIDE DEF tags
      <4>2. mem'[cur] = Listed(mem[cur].time, tags)
        BY <1>0, <2>1, <4>1
      <4>3. mem'[cur].tags = tags /\ mem'[cur].count = Len(mem'[cur].tags)
        BY <4>2 DEF Listed
      <4> QED BY <3>2, <4>1, <4>3 DEF tags
    <3> QED BY <1>4, <3>1, <3>2
  <2>5. MemOK'
    <3>1. ASSUME NEW m \in Names, mem'[m].time # 0
          PROVE  /\ mem'[m].time <= src[m]
                 /\ WasRead(m, mem[m].time)' =>
                       /\ mem'[m].tags = Tags(m, mem'[m].time) /\ mem'[m].count = Len(mem'[m].tags)
                       /\ mem'[m].time = src[m] => m \notin queued'
      <4>1. CASE m = cur
        BY <1>0, <2>2, <2>4, <3>1, <4>1 DEF MemOK, WasRead
      <4>2. CASE m # cur
        <5>1. mem'[m] = mem[m] /\ (WasRead(m, mem[m].time)' => WasRead(m, mem[m].time))
          BY <2>2, <2>3, <4>2 DEF WasRead
        <5> QED BY <1>0, <2>3, <3>1, <4>2, <5>1 DEF MemOK
      <4> QED BY <4>1, <4>2
    <3> QED BY <1>0, <2>1, <3>1 DEF MemOK
  <2>6. LearnedNow
    <3>1. mem[cur].time = 0 => cur \in queued
      BY <1>0, <2>1 DEF MemOK
    <3>2. \/ mem'[cur].tags = Tags(cur, src[cur]) /\ cur \notin queued'
          \/ <<cur, src[cur]>> \in unread' \/ cur \in queued \/ mem[cur].time \notin {0, src[cur]}
      BY <2>4, <3>1
    <3>3. ASSUME NEW m \in Names \ {cur} PROVE mem'[m] = mem[m] /\ (m \in queued' => m \in queued)
      BY <2>2, <2>3
    <3> QED BY <2>2, <2>3, <3>2, <3>3 DEF Learned, LearnedNow
  <2> QED BY <2>5, <2>6
<1>5. MemOK' /\ LearnedNow
  BY <1>2, <1>3, <1>4 DEF RefreshSteps
<1>6. DiskGood'
  BY <1>0, <1>1, <1>5, DiskGoodKept
<1> QED BY <1>1, <1>5, <1>6, ClosedStore

(***************************************************************************)
(* Opening and closing the drive                                           *)
(***************************************************************************)
\* The header that points to the directory makes the files in memory visible.
LEMMA HeaderStore ==
    ASSUME JobInv, PlacesInv, StoreInv, pc \in {"close", "pack"}, job # "saveWrite",
           diskHeader' = header, UNCHANGED <<cells, diskDir, src, mem, queued, unread>>
    PROVE  DiskGood' /\ Visible' \subseteq DOMAIN dir /\ diskDir.dir = dir
<1>1. isOpen /\ diskDir.dir = dir
  BY DEF JobInv, IInv, Phase, PlacesInv, Flushing
<1>2. ASSUME NEW i \in DOMAIN dir, dir[i].name # JunkName
      PROVE  Good(dir[i], cells, src, mem, queued, unread)
  BY <1>1, <1>2 DEF StoreInv, MemoryGood, InHand
<1>3. Visible' \subseteq DOMAIN dir
  <2>1. header.count \in Nat /\ Len(diskDir.dir) \in Nat /\ DOMAIN dir = 1 .. Len(diskDir.dir)
    BY <1>1, VisibleEntries DEF JobInv, IInv, TypeOK, Header
  <2> QED BY <2>1 DEF Visible, AtMost
<1> QED BY <1>1, <1>2, <1>3 DEF DiskGood

\* A job that begins, fails or ends; a crash; and the end of the last file.
LEMMA CloseStore ==
    ASSUME JobInv, JobInv', PlacesInv, StoreInv,
           \/ \E f \in BOOLEAN : SaveStart(f) \/ LoadFails(f)
           \/ LoadStart \/ SaveOpenFails \/ SaveUnlink \/ SaveClosed \/ Crash
           \/ (LoadEnd /\ CloseUnchanged)
    PROVE  StoreInv'
<1>0. MemOK /\ DiskGood
  BY DEF StoreInv
<1>1. job' \in {"none", "saveOpen", "saveCreate", "loadOpen"} /\ UNCHANGED src
  BY DEF SaveStart, LoadFails, LoadStart, SaveOpenFails, SaveUnlink, SaveClosed, Crash, LoadEnd, CloseUnchanged, Close,
         FlushDirectory
<1>2. ~isOpen'
  BY <1>1 DEF JobInv, JobPhase
<1>3. \/ /\ \A n \in Names : mem'[n].time = 0 /\ mem'[n].tags = << >>
         /\ queued' = {} /\ UNCHANGED unread /\ job' = "none"
      \/ UNCHANGED <<mem, queued, unread>> /\ job # "parse"
  <2>1. CASE Crash
    BY <2>1 DEF Crash, Unparsed
  <2>2. CASE ~Crash
    BY <2>2 DEF SaveStart, LoadFails, LoadStart, SaveOpenFails, SaveUnlink, SaveClosed, LoadEnd, refreshVars
  <2> QED BY <2>1, <2>2
<1>4. MemOK' /\ LearnedNow
  <2>1. CASE UNCHANGED <<mem, queued, unread>> /\ job # "parse"
    BY <1>0, <1>1, <2>1, MemKept, LearnedSame
  <2>2. CASE /\ \A n \in Names : mem'[n].time = 0 /\ mem'[n].tags = << >>
             /\ queued' = {} /\ UNCHANGED unread /\ job' = "none"
    BY <1>0, <1>1, <2>2 DEF MemOK, Learned, LearnedNow
  <2> QED BY <1>3, <2>1, <2>2
<1>6. DiskGood'
  <2>1. CASE \/ \E f \in BOOLEAN : SaveStart(f) \/ LoadFails(f)
             \/ LoadStart \/ SaveOpenFails \/ Crash \/ (LoadEnd /\ CloseUnchanged)
    <3>1. UNCHANGED disk
      BY <2>1 DEF SaveStart, LoadFails, LoadStart, SaveOpenFails, Crash, CloseUnchanged, Construct, OpenFails, disk
    <3> QED BY <1>0, <1>1, <1>4, <3>1, DiskGoodKept
  <2>2. CASE SaveUnlink
    BY <2>2 DEF SaveUnlink, DiskGood, DiskLive, NoFile, FreshHeader
  <2>3. CASE SaveClosed
    <3>1. /\ pc \in {"close", "pack"} /\ job # "saveWrite" /\ diskHeader' = header
          /\ UNCHANGED <<cells, diskDir, src, mem, queued, unread>>
      BY <2>3 DEF SaveClosed, CloseHeader, WriteHeader, refreshVars
    <3> QED BY <3>1, HeaderStore
  <2> QED BY <2>1, <2>2, <2>3
<1> QED BY <1>1, <1>2, <1>4, <1>6, ClosedStore

\* A load changes nothing on disk.
LEMMA LoadOnlyReads == StoreInv => ~LoadClosed /\ ~(LoadEnd /\ Close)
BY DEF StoreInv, Ours, LoadClosed, LoadEnd, Close, FlushDirectory

\* A drive that is created anew has no files.
LEMMA CreateStore ==
    ASSUME JobInv, JobInv', StoreInv, SaveCreate
    PROVE  StoreInv'
<1>1. /\ isOpen' /\ header' = FreshHeader /\ dir' = NoDir /\ diskHeader' = FreshHeader /\ pc' = "idle"
      /\ UNCHANGED <<src, mem, queued, unread, files>> /\ job = "saveCreate" /\ job' = "saveFile" /\ todo' = files /\ ~early'
  BY DEF SaveCreate, Create, SaveBegin, Idle, refreshVars
<1>2. DOMAIN NoDir = {} /\ FreshHeader.ok /\ FreshHeader.count = 0 /\ FreshHeader.dirOffset \in Nat
  BY FreshTypes DEF NoDir, FreshHeader
<1>3. \A h \in Handles : ~handles'[h].open
  BY <1>1 DEF JobInv, HandlesOK
<1>4. MemOK'
  BY <1>1, MemKept DEF StoreInv
<1>5. MemoryGood' /\ DiskGood' /\ Follows'
  BY <1>1, <1>2 DEF MemoryGood, DiskGood, Follows, DiskLive
<1>6. Ahead'
  BY <1>1, <1>2 DEF Ahead, Count
<1>7. Done' /\ Ours' /\ Written' /\ TempGood'
  BY <1>1, <1>2, <1>3 DEF Done, Ours, Written, TempGood, Saving
<1> QED BY <1>4, <1>5, <1>6, <1>7 DEF StoreInv

\* A drive that is opened has the files of the directory on disk, each where it is.
LEMMA OpenStore ==
    ASSUME JobInv, JobInv', PlacesInv, StoreInv, NEW ro \in BOOLEAN, SaveOpen \/ LoadOpen(ro)
    PROVE  StoreInv'
<1> DEFINE n == diskHeader.count
           d == diskDir.dir
<1>1. /\ Openable /\ isOpen' /\ ~changed' /\ header' = diskHeader /\ pc' = "idle" /\ job' \in {"saveFile", "loadFile"}
      /\ dir' \in Parsed(d, n) /\ UNCHANGED <<diskHeader, cells, diskDir, src, mem, queued, unread, files>>
      /\ job \in {"saveOpen", "loadOpen"} /\ (job' = "saveFile" => todo' = files /\ ~early')
  BY DEF SaveOpen, LoadOpen, Open, Idle, SaveBegin, disk, refreshVars
<1>2. /\ n \in Nat /\ Len(d) \in Nat /\ DOMAIN d = 1 .. Len(d) /\ diskHeader.ok
      /\ diskHeader.dirOffset \in Nat
  BY <1>1, VisibleEntries DEF Openable, JobInv, IInv, TypeOK, Header
<1>3. PICK j \in JunkEntry : dir' = [i \in 1 .. n |-> IF i \in DOMAIN d THEN d[i] ELSE j]
  BY <1>1 DEF Parsed
<1>4. /\ DOMAIN dir' = 1 .. n
      /\ \A i \in 1 .. n : dir'[i].name # JunkName => i \in DOMAIN d /\ dir'[i] = d[i]
      /\ \A i \in 1 .. n : i \in DOMAIN d => dir'[i] = d[i]
  BY <1>3 DEF JunkEntry
<1>5. Visible = {i \in 1 .. n : i \in DOMAIN d}
  BY <1>2 DEF Visible, AtMost
<1>6. n > 0 => DiskLive
  BY <1>1 DEF Openable, DiskLive
<1>7. \A h \in Handles : ~handles'[h].open
  BY <1>1 DEF JobInv, HandlesOK
<1>8. MemOK' /\ DiskGood'
  BY <1>1, MemKept DEF StoreInv, DiskGood, DiskLive, Visible
<1>9. MemoryGood'
  <2>1. ASSUME NEW i \in 1 .. n, dir'[i].name # JunkName
        PROVE  Good(dir'[i], cells, src, mem, queued, unread)
    <3>1. i \in Visible /\ dir'[i] = d[i]
      BY <1>4, <1>5, <2>1
    <3>2. DiskLive
      BY <1>2, <1>6, <2>1
    <3> QED BY <2>1, <3>1, <3>2 DEF StoreInv, DiskGood
  <2> QED BY <1>1, <1>4, <2>1 DEF MemoryGood
<1>10. Ahead'
  BY <1>1, <1>2 DEF Ahead, Count
<1>11. Follows'
  <2>1. ASSUME NEW i \in DOMAIN dir', dir'[i].name # JunkName
        PROVE  /\ i \in DOMAIN d /\ d[i].name = dir'[i].name /\ d[i].offset = dir'[i].offset
               /\ dir'[i].size <= d[i].size
    <3>1. i \in DOMAIN d /\ dir'[i] = d[i]
      BY <1>4, <2>1
    <3>2. d[i] \in Entry
      BY <3>1, EntryTypes
    <3>3. d[i].size \in Nat
      BY <3>2 DEF Entry
    <3> QED BY <3>1, <3>3
  <2>2. ASSUME NEW k \in Visible
        PROVE  k \in DOMAIN dir' /\ dir'[k] = d[k]
    BY <1>4, <1>5
  <2>3. UNCHANGED <<diskDir, diskHeader>>
    BY <1>1
  <2> QED BY <2>1, <2>2, <2>3 DEF Follows, Visible, DiskLive
<1>12. Done' /\ Ours' /\ Written' /\ TempGood'
  BY <1>1, <1>2, <1>7 DEF Done, Ours, Written, TempGood, Saving
<1> QED BY <1>8, <1>9, <1>10, <1>11, <1>12 DEF StoreInv

(***************************************************************************)
(* Writing a file                                                          *)
(***************************************************************************)
\* Between two files, the entries of the drive.
LEMMA SavingNow ==
    ASSUME JobInv, PlacesInv, StoreInv, job = "saveFile"
    PROVE  /\ isOpen /\ pc = "idle" /\ header.dirOffset \in Nat /\ diskHeader.dirOffset \in Nat
           /\ writer = NoHandle /\ \A h \in Handles : ~handles[h].open
           /\ MapKnows /\ DOMAIN dir = 1 .. Count /\ Count \in Nat
           /\ \A i \in DOMAIN dir : dir[i] \in Entry
           /\ \A i \in DOMAIN dir : dir[i].name # JunkName => Good(dir[i], cells, src, mem, queued, unread)
<1>1. isOpen /\ pc = "idle"
  BY DEF JobInv, JobPhase
<1>2. JobInv /\ MemorySound /\ isOpen /\ job # "saveWrite"
  BY <1>1 DEF PlacesInv
<1>3. /\ header.dirOffset \in Nat /\ writer = NoHandle /\ \A h \in Handles : ~handles[h].open
      /\ MapKnows /\ DOMAIN dir = 1 .. Count /\ Count \in Nat
      /\ \A i \in 1 .. Count : dir[i] \in Entry
  BY <1>2, QuietNow
<1>4. \A i \in DOMAIN dir : dir[i].name # JunkName => Good(dir[i], cells, src, mem, queued, unread)
  BY <1>2 DEF StoreInv, MemoryGood, InHand
<1>5. diskHeader.dirOffset \in Nat
  BY DEF JobInv, IInv, TypeOK, Header
<1> QED BY <1>1, <1>3, <1>4, <1>5

\* The step that gives a file its entry i, for what is to be written: all others stay,
\* and it is where it was and no larger, or behind all data.
LEMMA EntryStore ==
    ASSUME JobInv, JobInv', PlacesInv, StoreInv, NEW n \in Names, NEW h \in Handles, SaveFile(n, h), NEW i,
           DOMAIN dir' = DOMAIN dir \cup {i}, dir'[i].name = n, dir'[i].time = mem[n].time,
           \A k \in DOMAIN dir' \ {i} : k \in DOMAIN dir /\ dir'[k] = dir[k] /\ dir[k].name # n,
           i \in DOMAIN dir => dir[i].name = n,
           \/ i \in DOMAIN dir /\ dir'[i].offset = dir[i].offset /\ dir'[i].size <= dir[i].size
              /\ dir'[i].size \in Nat
           \/ dir'[i].offset = header.dirOffset,
           handles'[h].idx = i, handles'[h].pos = 0, \A g \in Handles : handles'[g].open => g = h,
           UNCHANGED <<isOpen, disk, pc, temp>>, header'.dirOffset = header.dirOffset, header'.ok = header.ok,
           writer' = h \/ (writer' = NoHandle /\ header'.count = header.count)
    PROVE  StoreInv'
<1>1. /\ isOpen /\ pc = "idle" /\ header.dirOffset \in Nat /\ diskHeader.dirOffset \in Nat
      /\ writer = NoHandle /\ DOMAIN dir = 1 .. Count
      /\ \A k \in DOMAIN dir : dir[k] \in Entry
      /\ \A k \in DOMAIN dir : dir[k].name # JunkName => Good(dir[k], cells, src, mem, queued, unread)
  <2>1. job = "saveFile"
    BY DEF SaveFile
  <2> QED BY <2>1, SavingNow
<1>2. /\ job = "saveFile" /\ n \in todo
      /\ UNCHANGED <<src, mem, queued, unread, files, todo, diskHeader, diskDir, cells, pc, isOpen>>
      /\ cur' = n /\ job' = "saveWrite" /\ n # JunkName
  BY NamesAssumption DEF SaveFile, FirstFile, disk, JunkName, refreshVars
<1>3. MemOK' /\ DiskGood'
  BY <1>2, MemKept DEF StoreInv, DiskGood, DiskLive, Visible
<1>4. MemoryGood'
  BY <1>1, <1>2 DEF MemoryGood, InHand
<1>5. Written'
  BY <1>2 DEF Written
<1>6. Ahead'
  BY <1>1, <1>2, SentinelAssumption DEF StoreInv, Ahead, Saving, Count
<1>7. Follows'
  <2> SUFFICES ASSUME DiskLive PROVE Follows'
    BY <1>2 DEF Follows, DiskLive
  <2>1. /\ \A k \in DOMAIN dir : dir[k].name # JunkName /\ dir[k].offset < diskDir.at =>
              \E m \in DOMAIN diskDir.dir :
                 /\ diskDir.dir[m].name = dir[k].name /\ diskDir.dir[m].offset = dir[k].offset
                 /\ dir[k].size <= diskDir.dir[m].size
        /\ \A m \in Visible : diskDir.dir[m].name # JunkName =>
              \E k \in DOMAIN dir : /\ dir[k].name = diskDir.dir[m].name
                                    /\ dir[k].time \in {diskDir.dir[m].time, mem[dir[k].name].time}
    BY <1>1, <1>2 DEF StoreInv, Follows, Saving
  <2>2. header.dirOffset >= diskDir.at
    BY <1>1, <1>2 DEF StoreInv, Ahead, Saving, DiskLive
  <2>3. ASSUME NEW k \in DOMAIN dir', dir'[k].name # JunkName, dir'[k].offset < diskDir.at
        PROVE  \E m \in DOMAIN diskDir.dir :
                  /\ diskDir.dir[m].name = dir'[k].name /\ diskDir.dir[m].offset = dir'[k].offset
                  /\ dir'[k].size <= diskDir.dir[m].size
    <3>1. CASE k # i
      BY <2>1, <2>3, <3>1
    <3>2. CASE k = i
      <4>1. dir'[i].offset # header.dirOffset
        BY <1>1, <2>2, <2>3, <3>2, VisibleEntries
      <4>2. /\ i \in DOMAIN dir /\ dir'[i].offset = dir[i].offset /\ dir[i].name = n
            /\ dir'[i].size <= dir[i].size /\ dir'[i].size \in Nat
        BY <4>1
      <4>3. PICK m \in DOMAIN diskDir.dir :
               /\ diskDir.dir[m].name = n /\ diskDir.dir[m].offset = dir[i].offset
               /\ dir[i].size <= diskDir.dir[m].size
        BY <1>2, <2>1, <2>3, <3>2, <4>2
      <4>4. dir[i].size \in Nat /\ diskDir.dir[m].size \in Nat
        <5>1. dir[i] \in Entry /\ diskDir.dir[m] \in Entry
          BY <1>1, <4>2, EntryTypes
        <5> QED BY <5>1 DEF Entry
      <4>5. dir'[i].size <= diskDir.dir[m].size
        BY <4>2, <4>3, <4>4
      <4> QED BY <3>2, <4>2, <4>3, <4>5
    <3> QED BY <3>1, <3>2
  <2>4. ASSUME NEW m \in Visible, diskDir.dir[m].name # JunkName
        PROVE  \E k \in DOMAIN dir' : /\ dir'[k].name = diskDir.dir[m].name
                                      /\ dir'[k].time \in {diskDir.dir[m].time, mem[dir'[k].name].time}
    <3>1. PICK k \in DOMAIN dir : /\ dir[k].name = diskDir.dir[m].name
                                  /\ dir[k].time \in {diskDir.dir[m].time, mem[dir[k].name].time}
      BY <2>1, <2>4
    <3>2. CASE k # i
      BY <3>1, <3>2
    <3>3. CASE k = i
      BY <3>1, <3>3
    <3> QED BY <3>2, <3>3
  <2> QED BY <1>2, <2>3, <2>4 DEF Follows, Visible
<1>8. Done'
  <2>1. ASSUME NEW m \in files \ todo, HasEntry(dir, m) PROVE HasEntry(dir, m)'
    <3>1. PICK k \in DOMAIN dir : dir[k].name = m /\ dir[k].time = mem[m].time
      BY <2>1 DEF HasEntry
    <3>2. k # i
      BY <1>2, <2>1, <3>1
    <3> QED BY <1>2, <3>1, <3>2 DEF HasEntry
  <2>2. ~early
    BY <1>2 DEF StoreInv, Done
  <2> SUFFICES ASSUME ~early', NEW m \in files \ todo, mem[m].time # 0
               PROVE  HasEntry(dir, m)'
    BY <1>1, <1>2 DEF Done
  <2> QED BY <1>1, <1>2, <2>1, <2>2 DEF StoreInv, Done, Saving
<1>9. Ours' /\ TempGood'
  BY <1>1, <1>2 DEF StoreInv, Ours, TempGood
<1> QED BY <1>3, <1>4, <1>5, <1>6, <1>7, <1>8, <1>9 DEF StoreInv

\* Copying a file over its old data, or to the end of the drive.
LEMMA SaveFileStore ==
    ASSUME JobInv, JobInv', PlacesInv, StoreInv, NEW n \in Names, NEW h \in Handles, SaveFile(n, h)
    PROVE  StoreInv'
<1>1. /\ isOpen /\ pc = "idle" /\ \A g \in Handles : ~handles[g].open /\ writer = NoHandle
      /\ MapKnows /\ DOMAIN dir = 1 .. Count /\ Count \in Nat
      /\ \A i \in DOMAIN dir : dir[i] \in Entry
  <2>1. job = "saveFile"
    BY DEF SaveFile
  <2> QED BY <2>1, SavingNow
<1>2. /\ handles \in [Handles -> Handle] /\ n # JunkName /\ IInv /\ Ready /\ ClientOK
      /\ header \in Header
  BY <1>1, NamesAssumption DEF JobInv, IInv, TypeOK, Ready, Idle, JunkName
<1>3. ASSUME Found(n)
      PROVE  fmap[n] \in DOMAIN dir /\ dir[fmap[n]].name = n
  BY <1>1, <1>2, <1>3, OpenDrive DEF Found
<1>4. ASSUME NEW i, Found(n) => i = fmap[n], NEW k \in DOMAIN dir \ {i} PROVE dir[k].name # n
  <2> SUFFICES ASSUME dir[k].name = n PROVE FALSE
    OBVIOUS
  <2>1. n \in DOMAIN fmap /\ fmap[n] = k
    BY <1>1, <1>2 DEF MapKnows
  <2>2. Found(n)
    BY <1>1, <2>1 DEF Found
  <2> QED BY <1>4, <2>1, <2>2
<1>5. ASSUME NEW i, OpenHandle(h, n, i)
      PROVE  handles'[h].idx = i /\ handles'[h].pos = 0 /\ \A g \in Handles : handles'[g].open => g = h
  BY <1>1, <1>2, <1>5 DEF OpenHandle
<1>6. CASE CopyInPlace(n, h)
  <2> DEFINE i == fmap[n]
             size == FileSize(n)
             e == [dir[i] EXCEPT !.time = mem[n].time, !.size = size]
  <2>1. Found(n) /\ OpenHandle(h, n, i) /\ size <= dir[i].size /\ UNCHANGED <<isOpen, writer, disk, pc, temp>>
        /\ dir' = [dir EXCEPT ![i] = e]
    BY <1>6 DEF CopyInPlace, Fits, EntryOf
  <2>2. i \in DOMAIN dir /\ dir[i].name = n /\ dir[i] \in Entry
    BY <1>1, <1>3, <2>1
  <2>3. e.name = n /\ e.offset = dir[i].offset /\ e.time = mem[n].time /\ e.size = size
    BY <2>2 DEF Entry
  <2>4. size \in Nat
    BY <1>2, FileContentsType
  <2>5. header'.dirOffset = header.dirOffset /\ header'.ok = header.ok /\ header'.count = header.count
    BY <1>2, <1>6 DEF CopyInPlace, NotePack, Header
  <2> HIDE DEF e, size
  <2>6. /\ DOMAIN dir' = DOMAIN dir \cup {i} /\ dir'[i] = e
        /\ \A k \in DOMAIN dir' \ {i} : k \in DOMAIN dir /\ dir'[k] = dir[k]
    BY <2>1, <2>2
  <2>7. \A k \in DOMAIN dir \ {i} : dir[k].name # n
    BY <1>4
  <2>8. handles'[h].idx = i /\ handles'[h].pos = 0 /\ \A g \in Handles : handles'[g].open => g = h
    BY <1>5, <2>1
  <2>9. writer' = NoHandle
    BY <1>1, <2>1
  <2>10. /\ DOMAIN dir' = DOMAIN dir \cup {i} /\ dir'[i].name = n /\ dir'[i].time = mem[n].time
         /\ \A k \in DOMAIN dir' \ {i} : k \in DOMAIN dir /\ dir'[k] = dir[k] /\ dir[k].name # n
         /\ i \in DOMAIN dir => dir[i].name = n
         /\ i \in DOMAIN dir /\ dir'[i].offset = dir[i].offset /\ dir'[i].size <= dir[i].size /\ dir'[i].size \in Nat
    BY <2>1, <2>2, <2>3, <2>4, <2>6, <2>7
  <2> HIDE DEF i
  <2> QED BY <2>1, <2>5, <2>8, <2>9, <2>10, EntryStore
<1>7. CASE CopyToEnd(n, h)
  <2> DEFINE i == IF Found(n) THEN fmap[n] ELSE Count + 1
             e == [name |-> n, time |-> mem[n].time, offset |-> header.dirOffset, size |-> 0]
  <2>1. OpenHandle(h, n, i) /\ writer' = h /\ UNCHANGED <<isOpen, disk, pc, temp>>
    BY <1>7 DEF CopyToEnd, FileCreate
  <2>2. header'.dirOffset = header.dirOffset /\ header'.ok = header.ok
    BY <1>2, <1>7 DEF CopyToEnd, FileCreate, Header
  <2>3. /\ DOMAIN dir' = DOMAIN dir \cup {i} /\ dir'[i] = e
        /\ \A k \in DOMAIN dir' \ {i} : k \in DOMAIN dir /\ dir'[k] = dir[k]
        /\ i \in DOMAIN dir => Found(n)
    <3>1. CASE Found(n)
      <4>1. i = fmap[n] /\ i \in DOMAIN dir
        BY <1>3, <3>1
      <4>2. dir' = [dir EXCEPT ![i] = e]
        BY <1>7, <3>1 DEF CopyToEnd, FileCreate
      <4> HIDE DEF i, e
      <4> QED BY <3>1, <4>1, <4>2
    <3>2. CASE ~Found(n)
      <4>1. i = Count + 1
        BY <3>2
      <4>2. dir' = Append1(dir, Count, e)
        BY <1>7, <3>2 DEF CopyToEnd, FileCreate
      <4> HIDE DEF i, e
      <4>3. DOMAIN dir' = 1 .. Count + 1 /\ dir'[Count + 1] = e /\ \A k \in 1 .. Count : dir'[k] = dir[k]
        BY <1>1, <4>2 DEF Append1
      <4>4. 1 .. Count + 1 = 1 .. Count \cup {i} /\ i \notin 1 .. Count
        BY <1>1, <4>1
      <4> QED BY <1>1, <4>1, <4>3, <4>4
    <3> QED BY <3>1, <3>2
  <2>4. e.name = n /\ e.time = mem[n].time /\ e.offset = header.dirOffset
    OBVIOUS
  <2>5. \A k \in DOMAIN dir \ {i} : dir[k].name # n
    <3>1. Found(n) => i = fmap[n]
      OBVIOUS
    <3> HIDE DEF i
    <3> QED BY <1>4, <3>1
  <2>6. i \in DOMAIN dir => dir[i].name = n
    BY <1>3, <2>3
  <2>7. handles'[h].idx = i /\ handles'[h].pos = 0 /\ \A g \in Handles : handles'[g].open => g = h
    BY <1>5, <2>1
  <2> HIDE DEF i, e
  <2>8. /\ DOMAIN dir' = DOMAIN dir \cup {i} /\ dir'[i].name = n /\ dir'[i].time = mem[n].time
        /\ \A k \in DOMAIN dir' \ {i} : k \in DOMAIN dir /\ dir'[k] = dir[k] /\ dir[k].name # n
        /\ dir'[i].offset = header.dirOffset
    BY <2>3, <2>4, <2>5
  <2>9. \/ i \in DOMAIN dir /\ dir'[i].offset = dir[i].offset /\ dir'[i].size <= dir[i].size /\ dir'[i].size \in Nat
        \/ dir'[i].offset = header.dirOffset
    BY <2>8
  <2>10. writer' = h \/ (writer' = NoHandle /\ header'.count = header.count)
    BY <2>1
  <2> QED BY <2>1, <2>2, <2>6, <2>7, <2>8, <2>9, <2>10, EntryStore
<1> QED BY <1>6, <1>7 DEF SaveFile

\* Two entries that are apart have no cell in common.
LEMMA ApartCells ==
    ASSUME NEW e \in Entry, NEW f \in Entry, Apart(e, f), NEW o \in Extent(e)
    PROVE  o \notin Extent(f)
<1>1. e.offset \in Nat /\ e.size \in Nat /\ f.offset \in Nat /\ f.size \in Nat
  BY DEF Entry
<1>2. \/ e.offset + e.size <= f.offset \/ f.offset + f.size <= e.offset
      \/ e.size = 0 \/ f.size = 0
  BY DEF Apart
<1> HIDE DEF Entry
<1> QED BY ONLY <1>1, <1>2, o \in Extent(e) DEF Extent

\* What a written cell does to the file in hand, to its neighbours, and to the
\* directory on disk.
LEMMA WriteShape ==
    ASSUME JobInv, PlacesInv, StoreInv, NEW h \in Handles, SaveWrite(h)
    PROVE  \E i \in DOMAIN dir, pos \in Nat, o \in Offsets :
              /\ i = handles[h].idx /\ pos = handles[h].pos /\ o = dir[i].offset + pos
              /\ dir[i].name = cur /\ pos + 1 <= FileSize(cur)
              /\ cells' = [cells EXCEPT ![o] = FileContents(cur)[pos + 1]]
              /\ handles'[h].pos = pos + 1 /\ handles'[h].idx = i
              /\ \A g \in Handles : handles'[g].open => g = h
              /\ DOMAIN dir' = DOMAIN dir /\ \A k \in DOMAIN dir \ {i} : dir'[k] = dir[k]
              /\ dir'[i].name = cur /\ dir'[i].time = dir[i].time /\ dir'[i].offset = dir[i].offset
              /\ \A k \in DOMAIN dir \ {i} : dir[k].name # JunkName => o \notin Extent(dir[k]) /\ dir[k].name # cur
              /\ DiskLive' => DiskLive /\ diskDir' = diskDir /\ o < diskDir.at /\ dir' = dir
<1> DEFINE i == handles[h].idx
           pos == handles[h].pos
           o == dir[i].offset + pos
           D == header.dirOffset
           c == FileContents(cur)[pos + 1]
<1>0. handles[h].open /\ pos < FileSize(cur) /\ Write(h, c)
  BY DEF SaveWrite
<1>1. /\ job = "saveWrite" /\ isOpen /\ pc = "idle" /\ cur \in Names /\ cur # JunkName
      /\ i \in 1 .. Count /\ dir[i] \in Entry /\ dir[i].name = cur
      /\ pos \in Nat /\ FileSize(cur) \in Nat
      /\ \A g \in Handles : handles[g].open => g = h
      /\ writer \in {h, NoHandle} /\ h # NoHandle
      /\ DOMAIN dir = 1 .. Count /\ \A k \in 1 .. Count : dir[k] \in Entry
      /\ D \in Nat /\ D >= HeaderEnd
      /\ MapKnows /\ Sound(dir, DataEnd, cells) /\ DataEnd \in Nat
  BY <1>0, FileInHand
<1>2. /\ cells' = [cells EXCEPT ![o] = c] /\ o <= MaxOffset
      /\ handles' = [handles EXCEPT ![h].pos = pos + 1]
      /\ dir' = IF pos + 1 > dir[i].size THEN [dir EXCEPT ![i].size = pos + 1] ELSE dir
      /\ diskDir' = IF o >= diskDir.at THEN NoDiskDir ELSE diskDir
      /\ UNCHANGED diskHeader
  BY <1>0 DEF Write, At
<1>3. dir[i].offset \in Nat /\ dir[i].size \in Nat
  BY <1>1 DEF Entry
<1>4. o \in Offsets
  <2>1. dir[i].offset >= HeaderEnd
    BY <1>1 DEF Sound, Placed
  <2>2. o >= HeaderEnd /\ o <= MaxOffset /\ o \in Nat
    BY <1>1, <1>2, <1>3, <2>1 DEF HeaderEnd
  <2> HIDE DEF o
  <2> QED BY <2>2, BoundsAssumption DEF Offsets, HeaderEnd
<1>5. /\ handles'[h].pos = pos + 1 /\ handles'[h].idx = i
      /\ \A g \in Handles : handles'[g].open => g = h
  <2>1. handles \in [Handles -> Handle]
    BY DEF JobInv, IInv, TypeOK
  <2>2. handles'[h].pos = pos + 1 /\ handles'[h].idx = i
    BY <1>2, <2>1 DEF Handle
  <2>3. \A g \in Handles \ {h} : handles'[g] = handles[g]
    BY <1>2, <2>1, SMTT(30)
  <2> QED BY <1>1, <2>2, <2>3
<1>6. /\ DOMAIN dir' = DOMAIN dir /\ \A k \in DOMAIN dir \ {i} : dir'[k] = dir[k]
      /\ dir'[i].name = cur /\ dir'[i].time = dir[i].time /\ dir'[i].offset = dir[i].offset
  <2>1. CASE dir' = dir
    BY <1>1, <2>1
  <2>2. CASE dir' = [dir EXCEPT ![i].size = pos + 1]
    <3>1. dir'[i] = [dir[i] EXCEPT !.size = pos + 1]
      BY <1>1, <2>2
    <3>2. dir'[i].name = cur /\ dir'[i].time = dir[i].time /\ dir'[i].offset = dir[i].offset
      BY <1>1, <3>1 DEF Entry
    <3> QED BY <2>2, <3>2
  <2> QED BY <1>2, <2>1, <2>2
<1>7. ASSUME NEW k \in DOMAIN dir \ {i}, dir[k].name # JunkName
      PROVE  o \notin Extent(dir[k]) /\ dir[k].name # cur
  <2>1. dir[k] \in Entry /\ dir[k].offset \in Nat /\ dir[k].size \in Nat
    BY <1>1 DEF Entry
  <2>2. Apart(dir[i], dir[k])
    BY <1>1, <1>7 DEF Sound
  <2>3. CASE writer = h
    <3>1. dir[i].offset = D /\ dir[k].offset + dir[k].size <= D
      BY <1>1, <1>7, <2>3 DEF PlacesInv, MemorySound, Appending
    <3>2. o >= D
      BY <1>1, <3>1
    <3> HIDE DEF o, D
    <3>3. o \notin Extent(dir[k])
      BY <1>1, <1>4, <2>1, <3>1, <3>2 DEF Extent, Offsets
    <3> QED BY <1>1, <2>2, <3>3 DEF Apart
  <2>4. CASE writer = NoHandle
    <3>1. dir[i].size = FileSize(cur)
      BY <1>0, <1>1, <2>4 DEF PlacesInv, MemorySound, InPlace
    <3>2. o \in Extent(dir[i])
      <4>1. \A x, p, z \in Nat : p < z => x + p \in x .. x + z - 1
        OBVIOUS
      <4> QED BY <1>0, <1>1, <1>3, <3>1, <4>1 DEF Extent
    <3> HIDE DEF o
    <3>3. o \notin Extent(dir[k])
      BY <1>1, <2>1, <2>2, <3>2, ApartCells
    <3> QED BY <1>1, <2>2, <3>3 DEF Apart
  <2> QED BY <1>1, <2>3, <2>4
<1>8. ASSUME DiskLive'
      PROVE  DiskLive /\ diskDir' = diskDir /\ o < diskDir.at /\ dir' = dir
  <2>1. diskDir' # NoDiskDir
    <3>1. diskHeader.ok => diskHeader.dirOffset >= 1
      BY DEF PlacesInv, DiskSound, HeaderEnd
    <3> QED BY <1>2, <1>8, <3>1 DEF DiskLive, NoDiskDir
  <2>2. diskDir' = diskDir /\ ~(o >= diskDir.at)
    BY <1>2, <2>1
  <2>3. DiskLive
    BY <1>2, <1>8, <2>2 DEF DiskLive
  <2>4. diskDir.at \in Nat /\ o \in Nat
    BY <1>1, <1>3 DEF JobInv, IInv, TypeOK
  <2>5. o < diskDir.at
    <3> HIDE DEF o
    <3> QED BY <2>2, <2>4
  <2>6. D >= diskDir.at
    BY <1>1, <2>3 DEF StoreInv, Ahead, Saving, DiskLive
  <2>7. writer = NoHandle
    <3> SUFFICES ASSUME writer = h PROVE FALSE
      BY <1>1
    <3>1. dir[i].offset = D
      BY <1>1 DEF PlacesInv, MemorySound, Appending
    <3>2. o >= D
      BY <1>1, <3>1
    <3> HIDE DEF o, D
    <3> QED BY <1>1, <2>4, <2>5, <2>6, <3>2
  <2>8. dir[i].size = FileSize(cur)
    BY <1>0, <1>1, <2>7 DEF PlacesInv, MemorySound, InPlace
  <2>9. dir' = dir
    BY <1>0, <1>1, <1>2, <2>8
  <2> QED BY <2>2, <2>3, <2>5, <2>9
<1>9. pos + 1 <= FileSize(cur)
  BY <1>0, <1>1
<1> HIDE DEF o, c, D
<1>10. i \in DOMAIN dir /\ pos \in Nat /\ dir[i].name = cur
  BY <1>1
<1>11. o = dir[i].offset + pos /\ cells' = [cells EXCEPT ![o] = FileContents(cur)[pos + 1]]
  BY <1>2 DEF o, c
<1> HIDE DEF i, pos
<1>12. i = handles[h].idx /\ pos = handles[h].pos
  BY DEF i, pos
<1> QED BY <1>4, <1>5, <1>6, <1>7, <1>8, <1>9, <1>10, <1>11, <1>12

\* A written cell belongs to no file that is trusted, or holds already what is written.
LEMMA WriteStore ==
    ASSUME JobInv, JobInv', PlacesInv, StoreInv, NEW h \in Handles, SaveWrite(h)
    PROVE  StoreInv'
<1>1. PICK i \in DOMAIN dir, pos \in Nat, o \in Offsets :
              /\ i = handles[h].idx /\ pos = handles[h].pos /\ o = dir[i].offset + pos
              /\ dir[i].name = cur /\ pos + 1 <= FileSize(cur)
              /\ cells' = [cells EXCEPT ![o] = FileContents(cur)[pos + 1]]
              /\ handles'[h].pos = pos + 1 /\ handles'[h].idx = i
              /\ \A g \in Handles : handles'[g].open => g = h
              /\ DOMAIN dir' = DOMAIN dir /\ \A k \in DOMAIN dir \ {i} : dir'[k] = dir[k]
              /\ dir'[i].name = cur /\ dir'[i].time = dir[i].time /\ dir'[i].offset = dir[i].offset
              /\ \A k \in DOMAIN dir \ {i} : dir[k].name # JunkName => o \notin Extent(dir[k]) /\ dir[k].name # cur
              /\ DiskLive' => DiskLive /\ diskDir' = diskDir /\ o < diskDir.at /\ dir' = dir
  BY WriteShape
<1>2. /\ job = "saveWrite" /\ handles[h].open /\ UNCHANGED clientVars
      /\ UNCHANGED <<isOpen, changed, header, writer, diskHeader, pc, temp>>
  BY DEF SaveWrite, Write
<1>3. /\ isOpen /\ pc = "idle" /\ cur \in Names /\ cur \in todo /\ cur # JunkName
      /\ \A k \in DOMAIN dir : dir[k] \in Entry
      /\ cells \in [Offsets -> Data \cup {Empty}]
  BY <1>2, FileInHand DEF JobInv, IInv, TypeOK
<1>4. UNCHANGED <<src, mem, queued, unread, files, job, todo, cur, early>> /\ MemOK
  BY <1>2 DEF clientVars, saveVars, refreshVars, StoreInv
<1>5. ASSUME NEW e \in Entry, o \notin Extent(e)
      PROVE  Contents(e, cells') = Contents(e, cells)
  <2>1. \A x \in Offsets : x \in Extent(e) => cells'[x] = cells[x]
    BY <1>1, <1>3, <1>5
  <2> QED BY <2>1, ContentsKept
<1>6. MemOK'
  BY <1>2, <1>4, MemKept
<1>7. MemoryGood'
  <2>1. ASSUME NEW k \in DOMAIN dir', dir'[k].name # JunkName, ~InHand(dir[k])'
        PROVE  Good(dir'[k], cells', src, mem, queued, unread)
    <3>1. k # i /\ k \in DOMAIN dir /\ dir'[k] = dir[k] /\ dir[k].name # JunkName
      BY <1>1, <1>2, <1>4, <2>1 DEF InHand
    <3>2. o \notin Extent(dir[k]) /\ ~InHand(dir[k])
      BY <1>1, <3>1 DEF InHand
    <3>3. Good(dir[k], cells, src, mem, queued, unread)
      BY <1>3, <3>1, <3>2 DEF StoreInv, MemoryGood
    <3>4. Contents(dir[k], cells') = Contents(dir[k], cells)
      BY <1>3, <1>5, <3>1, <3>2
    <3> QED BY <3>1, <3>3, <3>4, GoodSame
  <2> QED BY <1>4, <2>1 DEF MemoryGood
<1>8. DiskGood'
  <2> SUFFICES ASSUME DiskLive', NEW k \in Visible, diskDir.dir[k].name # JunkName
               PROVE  Good(diskDir.dir[k], cells', src, mem, queued, unread)
    BY <1>1, <1>2, <1>4 DEF DiskGood, Visible
  <2> DEFINE d == diskDir.dir
  <2>1. DiskLive /\ o < diskDir.at
    BY <1>1
  <2>2. /\ Good(d[k], cells, src, mem, queued, unread) /\ k \in DOMAIN d
        /\ \A j \in DOMAIN d : d[j] \in Entry
        /\ d[k].name \in Names
    BY <2>1, VisibleEntries, EntryTypes DEF StoreInv, DiskGood
  <2>3. /\ dir[i].offset \in Nat /\ o \in Nat /\ diskDir.at \in Nat
        /\ dir[i].offset < diskDir.at
    <3>1. dir[i].offset \in Nat /\ diskDir.at \in Nat /\ o = dir[i].offset + pos
      BY <1>1, <1>3 DEF Entry, JobInv, IInv, TypeOK
    <3> QED BY <2>1, <3>1
  <2>4. PICK j \in DOMAIN d : d[j].name = cur /\ d[j].offset = dir[i].offset /\ dir[i].size <= d[j].size
    BY <1>1, <1>2, <1>3, <2>1, <2>3 DEF StoreInv, Follows, Saving
  <2>5. pos + 1 <= d[j].size /\ d[j].size \in Nat /\ dir[i].size \in Nat
    <3>1. dir[i].size \in Nat /\ d[j].size \in Nat
      BY <1>3, <2>2 DEF Entry
    <3>2. pos + 1 <= dir[i].size
      <4>1. writer # h => dir[i].size = FileSize(cur)
        BY <1>1, <1>2, <1>3 DEF PlacesInv, MemorySound, InPlace
      <4>2. writer = h => dir[i].offset = header.dirOffset
        BY <1>1, <1>3, SentinelAssumption DEF PlacesInv, MemorySound, Appending
      <4>3. header.dirOffset >= diskDir.at /\ header.dirOffset \in Nat
        BY <1>2, <1>3, <2>1 DEF StoreInv, Ahead, Saving, DiskLive, JobInv, IInv, TypeOK, Header
      <4>4. writer # h
        BY <2>3, <4>2, <4>3
      <4> QED BY <1>1, <4>1, <4>4
    <3> QED BY <2>4, <3>1, <3>2
  <2>6. o \in Extent(d[j])
    <3>1. \A x, p, z \in Nat : p + 1 <= z => x + p \in x .. x + z - 1
      OBVIOUS
    <3> QED BY <1>1, <2>3, <2>4, <2>5, <3>1 DEF Extent
  <2>7. CASE k # j
    <3>1. Apart(d[j], d[k])
      BY <1>3, <2>2, <2>4, <2>7 DEF PlacesInv, DiskSound, Sound
    <3>2. o \notin Extent(d[k])
      BY <2>2, <2>6, <3>1, ApartCells
    <3> QED BY <1>5, <2>2, <3>2, GoodSame
  <2>8. CASE k = j
    <3>0. pos + 1 \in 1 .. FileSize(cur) /\ ClientOK
      BY <1>1 DEF JobInv
    <3>1. Contents(d[k], cells)[pos + 1] = cells[o]
      <4>1. pos + 1 \in 1 .. d[k].size
        BY <2>5, <2>8
      <4>2. d[k].offset + (pos + 1) - 1 = o
        BY <1>1, <2>3, <2>4, <2>8
      <4> QED BY <4>1, <4>2 DEF Contents
    <3>2. CASE Contents(d[k], cells)[pos + 1] = FileContents(cur)[pos + 1]
      <4>1. cells' = cells
        BY <1>1, <1>3, <3>1, <3>2
      <4> QED BY <2>2, <4>1
    <3>3. CASE /\ d[k].time # 0 /\ d[k].time \in {src[cur], mem[cur].time}
               /\ <<cur, d[k].time>> \notin unread
      <4>1. Contents(d[k], cells)[pos + 1] = FileContents(cur)[pos + 1]
        BY <1>2, <1>4, <2>2, <2>4, <2>8, <3>0, <3>3, SameData
      <4> QED BY <3>2, <4>1
    <3>4. CASE ~(/\ d[k].time # 0 /\ d[k].time \in {src[cur], mem[cur].time}
                 /\ <<cur, d[k].time>> \notin unread)
      <4>1. CASE pos = 0
        <5>1. FileContents(cur)[pos + 1] = FormatCell
          BY <1>3, <3>0, <4>1, FirstCell
        <5>2. Contents(d[k], cells)[pos + 1] = FormatCell
          BY <2>2, <4>1 DEF Good
        <5> QED BY <3>2, <5>1, <5>2
      <4>2. CASE pos # 0
        <5>1. d[k].offset \in Nat /\ d[k].size \in Nat /\ 1 \in 1 .. d[k].size
          <6>1. d[k].offset \in Nat /\ d[k].size \in Nat
            BY <2>2 DEF Entry
          <6> QED BY <2>5, <2>8, <6>1
        <5>2. d[k].offset + 1 - 1 # o
          BY <1>1, <2>3, <2>4, <2>8, <4>2
        <5>3. /\ DOMAIN Contents(d[k], cells') = DOMAIN Contents(d[k], cells)
              /\ Contents(d[k], cells')[1] = Contents(d[k], cells)[1]
          BY <1>1, <1>3, <5>1, <5>2 DEF Contents
        <5>4. cur = d[k].name
          BY <2>4, <2>8
        <5>5. Good(d[k], cells', src, mem, queued, unread)
          BY <2>2, <3>4, <5>3, <5>4 DEF Good
        <5> QED BY <5>5
      <4> QED BY <4>1, <4>2
    <3> QED BY <3>3, <3>4
  <2> QED BY <2>7, <2>8
<1>9. Written'
  <2>1. FileContents(cur)' = FileContents(cur)
    BY <1>4 DEF FileContents
  <2>2. /\ dir[i].time = mem[cur].time
        /\ \A k \in 1 .. pos : cells[dir[i].offset + k - 1] = FileContents(cur)[k]
    BY <1>1, <1>2 DEF StoreInv, Written
  <2>3. ASSUME NEW k \in 1 .. pos + 1
        PROVE  cells'[dir[i].offset + k - 1] = FileContents(cur)[k]
    <3>1. dir[i].offset \in Nat
      BY <1>3 DEF Entry
    <3>2. CASE k = pos + 1
      <4>1. dir[i].offset + k - 1 = o
        BY <1>1, <3>1, <3>2
      <4> QED BY <1>1, <1>3, <3>2, <4>1
    <3>3. CASE k # pos + 1
      <4>1. k \in 1 .. pos /\ dir[i].offset + k - 1 # o
        BY <1>1, <3>1, <3>3
      <4> QED BY <1>1, <1>3, <2>2, <4>1
    <3> QED BY <3>2, <3>3
  <2> QED BY <1>1, <1>4, <2>1, <2>2, <2>3 DEF Written
<1>10. Ahead'
  BY <1>2, <1>4 DEF StoreInv, Ahead, Saving, Count
<1>11. Follows'
  <2> SUFFICES ASSUME DiskLive' PROVE Follows'
    BY DEF Follows
  <2>1. DiskLive /\ UNCHANGED <<diskDir, dir, diskHeader, mem, job, isOpen>>
    BY <1>1, <1>2, <1>4
  <2> QED BY <2>1 DEF StoreInv, Follows, Saving, Visible
<1>12. Done'
  <2>1. ASSUME NEW m \in files \ todo, HasEntry(dir, m) PROVE HasEntry(dir, m)'
    <3>1. PICK k \in DOMAIN dir : dir[k].name = m /\ dir[k].time = mem[m].time
      BY <2>1 DEF HasEntry
    <3>2. k # i
      BY <1>1, <1>3, <2>1, <3>1
    <3> QED BY <1>1, <1>4, <3>1, <3>2 DEF HasEntry
  <2> SUFFICES ASSUME ~early, NEW m \in files \ todo, mem[m].time # 0
               PROVE  HasEntry(dir, m)'
    BY <1>2, <1>3, <1>4 DEF Done
  <2> QED BY <1>2, <1>3, <2>1 DEF StoreInv, Done, Saving
<1>13. Ours' /\ TempGood'
  BY <1>2, <1>3, <1>4 DEF StoreInv, Ours, TempGood
<1> QED BY <1>6, <1>7, <1>8, <1>9, <1>10, <1>11, <1>12, <1>13 DEF StoreInv

\* A file that is written to its end holds the tags of its time stamp.
LEMMA WrittenGood ==
    ASSUME JobInv, PlacesInv, StoreInv, NEW h \in Handles, handles[h].open, handles[h].pos = FileSize(cur)
    PROVE  LET i == handles[h].idx
           IN /\ i \in DOMAIN dir /\ dir[i].name = cur /\ dir[i].time = mem[cur].time
              /\ Good(dir[i], cells, src, mem, queued, unread)
              /\ \A k \in DOMAIN dir : dir[k].name = cur => k = i
              /\ writer = h => dir[i].offset + handles[h].pos > header.dirOffset
<1> DEFINE i == handles[h].idx
           e == dir[i]
           size == FileSize(cur)
<1>1. /\ job = "saveWrite" /\ isOpen /\ cur \in Names /\ cur # JunkName
      /\ i \in 1 .. Count /\ i = fmap[cur] /\ e \in Entry /\ e.name = cur
      /\ writer \in {h, NoHandle} /\ h # NoHandle
      /\ DOMAIN dir = 1 .. Count /\ header.dirOffset \in Nat
      /\ MapKnows /\ Sound(dir, DataEnd, cells) /\ DataEnd \in Nat
  BY FileInHand
<1>2. /\ FileContents(cur) \in Seq(Data) /\ Len(FileContents(cur)) = size /\ size \in Nat /\ size >= 1
  BY <1>1, FileContentsType DEF JobInv
<1>3. e.size = size /\ (writer = h => e.offset = header.dirOffset)
  <2>1. CASE writer = h
    BY <1>1, <2>1 DEF PlacesInv, MemorySound, Appending
  <2>2. CASE writer = NoHandle
    BY <1>1, <2>2 DEF PlacesInv, MemorySound, InPlace
  <2> QED BY <1>1, <2>1, <2>2
<1>4. e.time = mem[cur].time /\ \A k \in 1 .. size : cells[e.offset + k - 1] = FileContents(cur)[k]
  BY <1>1 DEF StoreInv, Written
<1>5. e.offset \in Nat /\ e.size \in Nat /\ Placed(e, DataEnd, cells)
  BY <1>1 DEF Entry, Sound
<1> HIDE DEF e, size
<1>6. Contents(e, cells) = FileContents(cur)
  <2>1. \A k \in 1 .. size : e.offset + k - 1 \in Offsets
    <3>1. \A x, k, z \in Nat : 1 <= k /\ k <= z => x + k - 1 \in x .. x + z - 1
      OBVIOUS
    <3>2. \A k \in 1 .. size : e.offset + k - 1 \in Extent(e)
      BY <1>2, <1>3, <1>5, <3>1 DEF Extent
    <3> QED BY <1>5, <3>2 DEF Placed
  <2>2. Contents(e, cells) = [k \in 1 .. size |-> FileContents(cur)[k]]
    BY <1>3, <1>4, <2>1 DEF Contents
  <2> QED BY <1>2, <2>2
<1>7. Good(e, cells, src, mem, queued, unread)
  <2>1. e.name = cur
    BY <1>1 DEF e
  <2>2. src[cur] \in Nat /\ mem[cur].time \in Nat /\ src[cur] >= 1
    <3>1. src[cur] \in Times /\ mem[cur].time \in Times
      BY <1>1 DEF JobInv, ClientOK, FileObject
    <3>2. src[cur] >= 1
      BY <1>1 DEF StoreInv, MemOK
    <3> QED BY <3>1, <3>2, DatabaseAssumption
  <2>3. 1 \in DOMAIN Contents(e, cells) /\ Contents(e, cells)[1] = FormatCell
    <3>1. ClientOK
      BY DEF JobInv
    <3>2. DOMAIN Contents(e, cells) = 1 .. size
      BY <1>3 DEF Contents
    <3> QED BY <1>1, <1>6, <3>1, <3>2, FirstCell DEF size
  <2>4. mem[cur].time <= src[cur]
    BY <1>1, <2>2 DEF StoreInv, MemOK
  <2>5. ASSUME mem[cur].time # 0, <<cur, mem[cur].time>> \notin unread
        PROVE  /\ Contents(e, cells) = Version(cur, e.time) /\ mem[cur].tags = Tags(cur, e.time)
               /\ e.time = src[cur] => cur \notin queued
    <3>1. WasRead(cur, mem[cur].time)
      BY <1>1, <2>5 DEF WasRead
    <3>2. FileContents(cur) = Version(cur, e.time)
      BY <1>1, <1>4, <2>5, <3>1, MemoryVersion DEF StoreInv
    <3> QED BY <1>1, <1>4, <1>6, <2>5, <3>1, <3>2 DEF StoreInv, MemOK
  <2> QED BY <1>4, <2>1, <2>2, <2>3, <2>4, <2>5 DEF Good
<1>8. \A k \in DOMAIN dir : dir[k].name = cur => k = i
  BY <1>1 DEF MapKnows
<1>9. writer = h => e.offset + handles[h].pos > header.dirOffset
  BY <1>1, <1>2, <1>3 DEF size
<1> QED BY <1>1, <1>4, <1>7, <1>8, <1>9 DEF e

\* Closing it makes it one of the files of the drive.
LEMMA FileCloseStore ==
    ASSUME JobInv, JobInv', PlacesInv, StoreInv, NEW h \in Handles, SaveFileClose(h)
    PROVE  StoreInv'
<1> DEFINE i == handles[h].idx
<1>1. /\ i \in DOMAIN dir /\ dir[i].name = cur /\ dir[i].time = mem[cur].time
      /\ Good(dir[i], cells, src, mem, queued, unread)
      /\ \A k \in DOMAIN dir : dir[k].name = cur => k = i
      /\ writer = h => dir[i].offset + handles[h].pos > header.dirOffset
      /\ handles[h].open
  BY WrittenGood DEF SaveFileClose
<1>2. /\ job = "saveWrite" /\ isOpen /\ cur \in Names /\ cur # JunkName /\ i \in 1 .. Count
      /\ writer \in {h, NoHandle} /\ h # NoHandle /\ pc = "idle"
      /\ DOMAIN dir = 1 .. Count /\ header.dirOffset \in Nat
  BY <1>1, FileInHand
<1>3. /\ job' = "saveFile" /\ UNCHANGED <<isOpen, changed, dir, diskHeader, cells, diskDir, pc, temp>>
      /\ UNCHANGED <<src, mem, queued, unread, files, cur, early>>
      /\ todo' = IF early THEN {} ELSE todo \ {cur}
      /\ IF h = writer
         THEN /\ \E o \in IF Live(h) THEN {At(h).offset + handles[h].pos} ELSE Offsets :
                    header' = [header EXCEPT !.dirOffset = o]
              /\ writer' = NoHandle
         ELSE UNCHANGED <<header, writer>>
  BY DEF SaveFileClose, FileClose, disk, refreshVars
<1>4. header'.ok = header.ok /\ header'.count = header.count
      /\ (h = writer => header'.dirOffset = dir[i].offset + handles[h].pos)
      /\ (h # writer => header' = header /\ writer = NoHandle)
  <2>1. header \in Header
    BY DEF JobInv, IInv, TypeOK
  <2>2. Live(h) /\ At(h) = dir[i]
    BY <1>1, <1>2 DEF Live, At
  <2>3. CASE h = writer
    <3>1. header' = [header EXCEPT !.dirOffset = dir[i].offset + handles[h].pos]
      BY <1>3, <2>2, <2>3
    <3> QED BY <2>1, <2>3, <3>1 DEF Header
  <2>4. CASE h # writer
    BY <1>2, <1>3, <2>4
  <2> QED BY <2>3, <2>4
<1> HIDE DEF i
<1>5. MemOK' /\ DiskGood'
  BY <1>2, <1>3, MemKept DEF StoreInv, DiskGood, DiskLive, Visible
<1>6. MemoryGood'
  <2>1. ASSUME NEW k \in DOMAIN dir, dir[k].name # JunkName
        PROVE  Good(dir[k], cells, src, mem, queued, unread)
    <3>1. CASE dir[k].name = cur
      BY <1>1, <3>1
    <3>2. CASE dir[k].name # cur
      BY <1>2, <2>1, <3>2 DEF StoreInv, MemoryGood, InHand
    <3> QED BY <3>1, <3>2
  <2> QED BY <1>3, <2>1 DEF MemoryGood
<1>7. Written'
  BY <1>3 DEF JobInv, HandlesOK, Written
<1>8. Ahead'
  <2>1. header.dirOffset >= diskHeader.dirOffset /\ diskHeader.dirOffset \in Nat
    BY <1>2 DEF StoreInv, Ahead, Saving, JobInv, IInv, TypeOK, Header
  <2>2. CASE h = writer
    <3>1. header'.dirOffset > header.dirOffset /\ header'.dirOffset \in Nat
      BY <1>1, <1>4, <2>2 DEF JobInv, IInv, TypeOK, Header
    <3>2. header'.dirOffset > diskHeader.dirOffset
      BY <1>2, <2>1, <3>1
    <3> QED BY <1>3, <3>1, <3>2, <2>1 DEF Ahead
  <2>3. CASE h # writer
    BY <1>2, <1>3, <1>4, <2>3 DEF StoreInv, Ahead, Saving, Count
  <2> QED BY <2>2, <2>3
<1>9. Follows'
  BY <1>2, <1>3 DEF StoreInv, Follows, Saving, DiskLive, Visible
<1>10. Done'
  <2>1. early => todo' = {}
    BY <1>3
  <2>2. ASSUME ~early, NEW m \in files \ todo', mem[m].time # 0
        PROVE  HasEntry(dir, m)'
    <3>1. CASE m = cur
      BY <1>1, <1>3, <3>1 DEF HasEntry
    <3>2. CASE m # cur
      <4>1. m \in files \ todo
        BY <1>3, <2>2, <3>2
      <4>2. HasEntry(dir, m)
        BY <1>2, <2>2, <4>1 DEF StoreInv, Done, Saving
      <4> QED BY <1>3, <4>2 DEF HasEntry
    <3> QED BY <3>1, <3>2
  <2> QED BY <1>2, <1>3, <2>1, <2>2 DEF Done
<1>11. Ours' /\ TempGood'
  BY <1>2, <1>3, <1>4 DEF StoreInv, Ours, TempGood
<1> QED BY <1>5, <1>6, <1>7, <1>8, <1>9, <1>10, <1>11 DEF StoreInv

(***************************************************************************)
(* Flushing, counting and packing                                          *)
(***************************************************************************)
\* A flush sorts the entries and writes them where the data ends.
LEMMA FlushShape ==
    ASSUME JobInv, PlacesInv, NEW next \in {"close", "pack"}, FlushDirectory(next), job # "saveWrite"
    PROVE  /\ isOpen /\ changed /\ pc' = next
           /\ UNCHANGED <<isOpen, changed, header, handles, writer, diskHeader, temp>>
           /\ diskDir' = [at |-> header.dirOffset, dir |-> dir']
           /\ DOMAIN dir = 1 .. Count /\ DOMAIN dir' = 1 .. Count /\ Count \in Nat
           /\ dir' \in Seq(Entry) /\ Len(dir') = Count
           /\ \A i \in 1 .. Count : \E k \in 1 .. Count : dir'[i] = dir[k]
           /\ \A k \in 1 .. Count : \E i \in 1 .. Count : dir'[i] = dir[k]
           /\ \A k \in 1 .. Count : dir[k].name # JunkName => Contents(dir[k], cells') = Contents(dir[k], cells)
<1> DEFINE D == header.dirOffset
<1>0. /\ JobInv /\ MemorySound /\ isOpen /\ changed /\ pc' = next
      /\ UNCHANGED <<isOpen, changed, header, handles, writer, diskHeader, temp>>
      /\ diskDir' = [at |-> D, dir |-> dir']
      /\ cells' = [o \in Offsets |-> IF o < D THEN cells[o] ELSE Empty]
  BY DEF PlacesInv, FlushDirectory, Ready
<1>1. /\ D \in Nat /\ Sound(dir, D, cells)
      /\ Count \in Nat /\ dir \in Directory(Count) /\ DOMAIN dir = 1 .. Count
      /\ \A i \in 1 .. Count : dir[i] \in Entry
  BY <1>0, QuietNow
<1>2. /\ dir' \in Directory(Count)
      /\ \A i \in 1 .. Count : \E k \in 1 .. Count : dir'[i] = dir[k]
      /\ \A k \in 1 .. Count : \E i \in 1 .. Count : dir'[i] = dir[k]
  <2>1. CASE Count > 1
    <3>1. dir' \in Sorted(dir, Count)
      BY <2>1 DEF FlushDirectory
    <3>2. Count \in Nat /\ dir \in Directory(Count)
      BY <1>1
    <3> HIDE DEF Count
    <3> QED BY <3>1, <3>2, SortedType, SortedEntries
  <2>2. CASE ~(Count > 1)
    BY <1>1, <2>2 DEF FlushDirectory
  <2> QED BY <2>1, <2>2
<1>3. dir' \in Seq(Entry) /\ Len(dir') = Count /\ DOMAIN dir' = 1 .. Count
  BY <1>1, <1>2 DEF Directory
<1>4. ASSUME NEW k \in 1 .. Count, dir[k].name # JunkName
      PROVE  Contents(dir[k], cells') = Contents(dir[k], cells)
  <2>1. dir[k] \in Entry /\ dir[k].offset + dir[k].size <= D
    BY <1>1, <1>4 DEF Sound, Placed
  <2>2. \A o \in Offsets : o \in Extent(dir[k]) => o < D
    <3>1. dir[k].offset \in Nat /\ dir[k].size \in Nat
      BY <2>1 DEF Entry
    <3> QED BY <1>1, <2>1, <3>1 DEF Extent, Offsets, HeaderEnd
  <2>3. \A o \in Offsets : o \in Extent(dir[k]) => cells'[o] = cells[o]
    BY <1>0, <2>2
  <2> QED BY <2>1, <2>3, ContentsKept
<1> QED BY <1>0, <1>1, <1>2, <1>3, <1>4

\* The directory on disk then has every file, at its place in memory.
LEMMA FlushStore ==
    ASSUME JobInv, JobInv', PlacesInv, StoreInv, NEW next \in {"close", "pack"}, FlushDirectory(next),
           job \in {"saveFile", "saveClose"}, job' \in {"savePacked", "saveClose"},
           UNCHANGED <<src, files, mem, queued, unread, todo, early>>
    PROVE  StoreInv'
<1>1. /\ isOpen /\ changed /\ pc' = next
      /\ UNCHANGED <<isOpen, changed, header, handles, writer, diskHeader, temp>>
      /\ diskDir' = [at |-> header.dirOffset, dir |-> dir']
      /\ DOMAIN dir = 1 .. Count /\ DOMAIN dir' = 1 .. Count /\ Count \in Nat
      /\ Len(dir') = Count
      /\ \A i \in 1 .. Count : \E k \in 1 .. Count : dir'[i] = dir[k]
      /\ \A k \in 1 .. Count : \E i \in 1 .. Count : dir'[i] = dir[k]
      /\ \A k \in 1 .. Count : dir[k].name # JunkName => Contents(dir[k], cells') = Contents(dir[k], cells)
  BY FlushShape
<1>2. pc # "replace" /\ diskHeader.count \in Nat
  BY <1>1 DEF JobInv, IInv, Phase, TypeOK, Header
<1>3. ASSUME NEW i \in 1 .. Count, dir'[i].name # JunkName
      PROVE  Good(dir'[i], cells', src, mem, queued, unread)
  <2>1. PICK k \in 1 .. Count : dir'[i] = dir[k]
    BY <1>1
  <2>2. k \in DOMAIN dir /\ dir[k].name # JunkName /\ ~InHand(dir[k])
    BY <1>1, <1>3, <2>1 DEF InHand
  <2>3. Good(dir[k], cells, src, mem, queued, unread)
    BY <1>1, <2>2 DEF StoreInv, MemoryGood
  <2>4. Contents(dir[k], cells') = Contents(dir[k], cells)
    BY <1>1, <2>2
  <2> QED BY <2>1, <2>3, <2>4, GoodSame
<1>4. Visible' \subseteq 1 .. Count
  BY <1>1, <1>2 DEF Visible, AtMost
<1>5. MemOK'
  BY MemKept DEF StoreInv
<1>6. MemoryGood' /\ DiskGood'
  <2>1. MemoryGood'
    BY <1>1, <1>3 DEF MemoryGood
  <2>2. DiskGood'
    BY <1>1, <1>3, <1>4 DEF DiskGood
  <2> QED BY <2>1, <2>2
<1>7. Written' /\ TempGood'
  BY <1>1 DEF JobInv, HandlesOK, Written, TempGood
<1>8. Ahead'
  BY <1>1 DEF StoreInv, Ahead, Saving, Count
<1>9. Follows'
  <2>1. ASSUME NEW i \in 1 .. Count, dir'[i].name # JunkName
        PROVE  dir'[i].size <= dir'[i].size
    <3>1. dir'[i].size \in Nat
      BY <1>1 DEF JobInv, IInv, TypeOK, Directory, Count, Entry
    <3> QED BY <3>1
  <2> QED BY <1>1, <1>4, <2>1 DEF Follows
<1>10. Done'
  <2> SUFFICES ASSUME ~early, NEW m \in files \ todo, mem[m].time # 0
               PROVE  HasEntry(dir, m)'
    BY <1>1, <1>2 DEF Done
  <2>1. HasEntry(dir, m)
    BY <1>2 DEF StoreInv, Done, Saving
  <2>2. PICK k \in 1 .. Count : dir[k].name = m /\ dir[k].time = mem[m].time
    BY <1>1, <2>1 DEF HasEntry
  <2>3. \E i \in 1 .. Count : dir'[i] = dir[k]
    <3>1. \A j \in 1 .. Count : \E i \in 1 .. Count : dir'[i] = dir[j]
      BY <1>1
    <3> QED BY <2>2, <3>1
  <2>4. PICK i \in 1 .. Count : dir'[i] = dir[k]
    BY <2>3
  <2>5. i \in DOMAIN dir' /\ dir'[i].name = m /\ dir'[i].time = mem[m].time
    BY <1>1, <2>2, <2>4
  <2> QED BY <2>5 DEF HasEntry
<1>11. Ours'
  BY <1>1 DEF StoreInv, Ours
<1> QED BY <1>5, <1>6, <1>7, <1>8, <1>9, <1>10, <1>11 DEF StoreInv

\* Steps between the last file and the end that leave the files alone: the header
\* counts them, or they begin to be copied.
LEMMA HeaderOnlyStore ==
    ASSUME JobInv, JobInv', PlacesInv, StoreInv, isOpen, pc # "replace", pc' # "replace",
           job \in {"saveFile", "savePacked"}, job' \in {"savePacked", "saveClose"},
           UNCHANGED <<isOpen, dir, fmap, handles, writer, cells, diskDir, src, files, mem, queued, unread, todo, early>>,
           header'.dirOffset = header.dirOffset, header'.count = header.count, header'.ok = header.ok,
           UNCHANGED diskHeader \/ (pc = "pack" /\ diskHeader' = header /\ UNCHANGED header),
           pc' = "copy" => temp'.header.ok /\ (DOMAIN temp'.dir = {} \/ (pc = "copy" /\ TempGood'))
    PROVE  StoreInv'
<1>1. /\ header.dirOffset \in Nat /\ header.count \in Nat
      /\ DOMAIN dir = 1 .. Count /\ \A i \in DOMAIN dir : dir[i] \in Entry
  BY DEF JobInv, IInv, TypeOK, Directory, Count, Header
<1>2. MemOK' /\ MemoryGood'
  BY MemKept DEF StoreInv, MemoryGood, InHand
<1>3. Written'
  BY DEF JobInv, HandlesOK, Written
<1>4. DiskGood'
  <2>1. CASE UNCHANGED diskHeader
    BY <2>1 DEF StoreInv, DiskGood, DiskLive, Visible
  <2>2. CASE pc = "pack" /\ diskHeader' = header
    BY <2>2, HeaderStore
  <2> QED BY <2>1, <2>2
<1>5. TempGood'
  BY DEF TempGood
<1>6. Ahead'
  <2>1. CASE UNCHANGED diskHeader
    BY <2>1 DEF StoreInv, Ahead, Saving, Count
  <2>2. CASE diskHeader' = header /\ UNCHANGED header
    BY <1>1, <2>2 DEF Ahead, Count
  <2> QED BY <2>1, <2>2
<1>7. Follows'
  <2>1. CASE UNCHANGED diskHeader
    BY <2>1 DEF StoreInv, Follows, Saving, DiskLive, Visible
  <2>2. CASE pc = "pack" /\ diskHeader' = header
    <3>1. Visible' \subseteq DOMAIN dir /\ diskDir.dir = dir
      BY <2>2, HeaderStore
    <3>2. \A i \in DOMAIN dir : dir[i].size <= dir[i].size
      BY <1>1 DEF Entry
    <3> QED BY <3>1, <3>2 DEF Follows
  <2> QED BY <2>1, <2>2
<1>8. Done'
  BY DEF StoreInv, Done, Saving, HasEntry
<1>9. Ours'
  BY DEF StoreInv, Ours, JobInv, JobPhase
<1> QED BY <1>2, <1>3, <1>4, <1>5, <1>6, <1>7, <1>8, <1>9 DEF StoreInv

\* A turn of Pack()'s loop takes over the time stamp of the file.
LEMMA PackFileStore ==
    ASSUME JobInv, JobInv', PlacesInv, StoreInv, PackFile \/ PackFails, job = "savePacked",
           UNCHANGED clientVars
    PROVE  StoreInv'
<1>1. /\ pc = "copy" /\ UNCHANGED <<isOpen, header, dir, fmap, handles, writer, cells, diskDir, diskHeader>>
      /\ UNCHANGED <<src, files, mem, queued, unread, todo, early, job>> /\ isOpen
  BY DEF PackFile, PackFails, memory, disk, clientVars, saveVars, refreshVars, JobInv, IInv, Phase
<1>2. /\ MapKnows /\ DOMAIN dir = 1 .. Count /\ Count \in Nat
  <2>1. MemorySound /\ job # "saveWrite"
    BY DEF PlacesInv
  <2> QED BY <1>1, <2>1, QuietNow
<1>3. CASE PackFails
  <2>1. pc' = "idle"
    BY <1>3 DEF PackFails
  <2> QED BY <1>1, <2>1, HeaderOnlyStore
<1>4. CASE PackFile
  <2> DEFINE i == temp.next
             n == dir[i].name
             t == dir[i].time
             s == EntryOf(n)
  <2>1. pc' = "copy" /\ i \in 1 .. Count /\ temp' = CopyInto(temp, n, t, Contents(s, cells), s.size) /\ Found(n)
    <3>1. i \in Nat \ {0}
      BY DEF JobInv, IInv, TypeOK
    <3>2. pc' = "copy" /\ i <= Count /\ temp' = CopyInto(temp, n, t, Contents(s, cells), s.size) /\ Found(n)
      BY <1>4 DEF PackFile, Copyable
    <3> QED BY <1>2, <3>1, <3>2
  <2>2. s \in Entry
    <3>1. fmap[n] \in 1 .. Count
      BY <1>1, <2>1 DEF Found, JobInv, IInv, MapSound
    <3> QED BY <1>1, <1>2, <3>1, EntryTypes DEF EntryOf
  <2>3. Drive(temp) /\ s.size \in Nat
    <3>1. Drive(temp)
      BY DEF JobInv, IInv, TypeOK, Drive
    <3>2. s.size \in Nat
      BY <2>2, SMTT(30) DEF Entry
    <3> QED BY <3>1, <3>2
  <2>4. n # JunkName => t = EntryOf(n).time
    BY <1>2, <2>1 DEF MapKnows, EntryOf
  <2> DEFINE c == Contents(s, cells)
  <2> HIDE DEF i, n, t, s, c
  <2>5. /\ CopyInto(temp, n, t, c, s.size).header.ok = temp.header.ok
        /\ \A k \in DOMAIN CopyInto(temp, n, t, c, s.size).dir :
             LET w == CopyInto(temp, n, t, c, s.size)
             IN \/ w.dir[k].name = n /\ w.dir[k].time = t
                \/ k \in DOMAIN temp.dir /\ w.dir[k] = temp.dir[k]
    BY ONLY <2>3, CopyIntoTimes
  <2>6. /\ temp'.header.ok = temp.header.ok
        /\ \A k \in DOMAIN temp'.dir : \/ temp'.dir[k].name = n /\ temp'.dir[k].time = t
                                       \/ k \in DOMAIN temp.dir /\ temp'.dir[k] = temp.dir[k]
    BY <2>1, <2>5 DEF c
  <2>7. \A k \in DOMAIN temp.dir : temp.dir[k].name # JunkName => temp.dir[k].time = EntryOf(temp.dir[k].name).time
    BY <1>1 DEF StoreInv, TempGood
  <2>8. \A m : EntryOf(m)' = EntryOf(m)
    BY <1>1 DEF EntryOf
  <2>9. ASSUME NEW k \in DOMAIN temp'.dir, temp'.dir[k].name # JunkName
        PROVE  temp'.dir[k].time = EntryOf(temp'.dir[k].name).time
    BY <2>4, <2>6, <2>7, <2>9
  <2>10. TempGood'
    <3>1. \A k \in DOMAIN temp'.dir : temp'.dir[k].name # JunkName =>
             temp'.dir[k].time = (dir'[fmap'[temp'.dir[k].name]]).time
      BY <1>1, <2>9 DEF EntryOf
    <3> QED BY <2>1, <3>1 DEF TempGood, EntryOf
  <2>11. temp'.header.ok
    BY <1>1, <2>6 DEF StoreInv, Ours
  <2> QED BY <1>1, <2>1, <2>10, <2>11, HeaderOnlyStore
<1> QED BY <1>3, <1>4

\* Once every file is copied, the temporary drive has all there was, under the same
\* time stamps.
LEMMA PackReplaceStore ==
    ASSUME JobInv, JobInv', PlacesInv, PackInv, StoreInv, PackReplace, job = "savePacked", UNCHANGED clientVars
    PROVE  StoreInv'
<1> DEFINE N == temp.header.count
<1>1. PICK d \in Sorted(temp.dir, N) :
         temp' = [next |-> temp.next, header |-> temp.header, dir |-> d, cells |-> temp.cells]
  BY DEF PackReplace
<1>2. /\ pc = "copy" /\ pc' = "replace" /\ ~isOpen' /\ diskDir' = NoDiskDir /\ isOpen /\ temp.next > Count
      /\ diskHeader' \in {NoFile, temp.header} /\ UNCHANGED <<src, files, mem, queued, unread, todo, early, job>>
  BY DEF PackReplace, CloseFiles, clientVars, saveVars, refreshVars, JobInv, IInv, Phase
<1>3. /\ MapKnows /\ DOMAIN dir = 1 .. Count /\ Count \in Nat /\ \A i \in DOMAIN dir : dir[i] \in Entry
  <2>1. MemorySound /\ job # "saveWrite"
    BY DEF PlacesInv
  <2> QED BY <1>2, <2>1, QuietNow
<1>4. N \in Nat /\ temp.dir \in Directory(N) /\ DOMAIN temp.dir = 1 .. N /\ temp.next \in Nat
  BY DEF JobInv, IInv, TypeOK, Directory, Header
<1>5. /\ d \in Directory(N) /\ DOMAIN d = 1 .. N
      /\ \A i \in 1 .. N : \E k \in 1 .. N : d[i] = temp.dir[k]
      /\ \A k \in 1 .. N : \E i \in 1 .. N : d[i] = temp.dir[k]
  <2>1. d \in Directory(N)
    BY <1>1, <1>4, SortedType
  <2>2. /\ \A i \in 1 .. N : \E k \in 1 .. N : d[i] = temp.dir[k]
        /\ \A k \in 1 .. N : \E i \in 1 .. N : d[i] = temp.dir[k]
    <3> HIDE DEF N
    <3> QED BY <1>1, <1>4, SortedEntries
  <2> QED BY <2>1, <2>2 DEF Directory
<1>6. temp'.dir = d /\ temp'.header = temp.header /\ temp'.cells = temp.cells
  BY <1>1
<1>7. CopiesAll(temp)
  BY <1>2 DEF PackInv
<1>8. ASSUME NEW k \in 1 .. N, temp.dir[k].name # JunkName
      PROVE  Good(temp.dir[k], temp.cells, src, mem, queued, unread)
  <2> DEFINE n == temp.dir[k].name
             f == EntryOf(n)
  <2>1. n \in DOMAIN fmap /\ Contents(temp.dir[k], temp.cells) = Contents(f, cells)
    BY <1>7 DEF CopiesAll, Copies
  <2>2. fmap[n] \in DOMAIN dir /\ f.name = n
    BY <1>2, <1>3, <2>1 DEF JobInv, IInv, MapSound, EntryOf
  <2>3. ~InHand(f)
    BY DEF InHand
  <2>4. Good(f, cells, src, mem, queued, unread)
    BY <1>2, <1>8, <2>2, <2>3 DEF StoreInv, MemoryGood, EntryOf
  <2>5. temp.dir[k].time = f.time
    BY <1>2, <1>4, <1>8 DEF StoreInv, TempGood
  <2> QED BY <2>1, <2>2, <2>4, <2>5, GoodSame
<1>9. TempGood'
  <2>1. ASSUME NEW i \in 1 .. N, d[i].name # JunkName
        PROVE  Good(d[i], temp.cells, src, mem, queued, unread)
    <3>1. PICK k \in 1 .. N : d[i] = temp.dir[k]
      BY <1>5
    <3> QED BY <1>8, <2>1, <3>1
  <2> QED BY <1>2, <1>5, <1>6, <2>1 DEF TempGood
<1>10. ~DiskLive'
  <2>1. temp.header.dirOffset # 0 /\ NoDiskDir.at = 0 /\ ~NoFile.ok
    BY <1>7 DEF CopiesAll, HeaderEnd, NoDiskDir, NoFile, FreshHeader
  <2> QED BY <1>2, <2>1 DEF DiskLive
<1>11. Done'
  <2>1. ASSUME ~early, NEW n \in files \ todo, mem[n].time # 0
        PROVE  \E i \in 1 .. N : d[i].name = n /\ d[i].time = mem[n].time
    <3>0. n # JunkName
      BY NamesAssumption DEF JobInv, ClientOK, JunkName
    <3>1. HasEntry(dir, n)
      BY <1>2, <2>1 DEF StoreInv, Done, Saving
    <3>2. PICK i \in 1 .. Count : dir[i].name = n /\ dir[i].time = mem[n].time
      BY <1>3, <3>1 DEF HasEntry
    <3>3. i \in 1 .. temp.next - 1
      BY <1>2, <1>3, <1>4
    <3>4. \E k \in 1 .. N : temp.dir[k].name = n
      BY <1>7, <3>2, <3>3 DEF CopiesAll
    <3>5. PICK k \in 1 .. N : temp.dir[k].name = n
      BY <3>4
    <3>6. temp.dir[k].time = EntryOf(n).time
      BY <1>2, <1>4, <3>0, <3>5 DEF StoreInv, TempGood
    <3>7. EntryOf(n) = dir[i]
      BY <1>3, <3>0, <3>2 DEF MapKnows, EntryOf
    <3>8. PICK j \in 1 .. N : d[j] = temp.dir[k]
      BY <1>5
    <3> QED BY <3>2, <3>5, <3>6, <3>7, <3>8
  <2>2. \A n \in files \ todo : ~early /\ mem[n].time # 0 => HasEntry(temp.dir, n)'
    BY <1>2, <1>5, <1>6, <2>1 DEF HasEntry
  <2> QED BY <1>2, <2>2 DEF Done
<1>12. MemOK' /\ Written'
  BY <1>2, MemKept DEF StoreInv, JobInv, HandlesOK, Written
<1>13. Ours'
  BY <1>2, <1>6 DEF StoreInv, Ours
<1> QED BY <1>2, <1>9, <1>10, <1>11, <1>12, <1>13 DEF StoreInv, MemoryGood, DiskGood, Ahead, Follows

\* The packed drive is in memory what it is on disk.
LEMMA PackReopenStore ==
    ASSUME JobInv, JobInv', PlacesInv, StoreInv, PackReopen, job = "savePacked", UNCHANGED clientVars
    PROVE  StoreInv'
<1>1. /\ pc = "replace" /\ pc' = "idle" /\ header' = temp.header /\ dir' = temp.dir /\ cells' = temp.cells
      /\ diskHeader' = temp.header /\ diskDir' = [at |-> temp.header.dirOffset, dir |-> temp.dir] /\ isOpen'
      /\ ~changed' /\ UNCHANGED <<src, files, mem, queued, unread, todo, early, job>>
  BY DEF PackReopen, clientVars, saveVars, refreshVars
<1>2. \A k \in DOMAIN temp.dir : temp.dir[k].name # JunkName => Good(temp.dir[k], temp.cells, src, mem, queued, unread)
  BY <1>1 DEF StoreInv, TempGood
<1>3. /\ temp.header.count \in Nat /\ DOMAIN temp.dir = 1 .. temp.header.count
      /\ temp.dir \in Seq(Entry) /\ temp.header.dirOffset \in Nat
      /\ \A k \in DOMAIN temp.dir : temp.dir[k] \in Entry
  <2>1. temp.header.count \in Nat /\ temp.header.dirOffset \in Nat
    BY DEF JobInv, IInv, TypeOK, Header
  <2>2. temp.dir \in [1 .. temp.header.count -> Entry]
    BY DEF JobInv, IInv, TypeOK, Directory
  <2> HIDE DEF Entry
  <2> QED BY <2>1, <2>2
<1>4. Visible' \subseteq DOMAIN temp.dir
  <2>1. Len(temp.dir) = temp.header.count
    BY <1>3
  <2> QED BY <1>1, <1>3, <2>1 DEF Visible, AtMost
<1>5. MemOK' /\ Written' /\ TempGood'
  BY <1>1, MemKept DEF StoreInv, JobInv, HandlesOK, Written, TempGood
<1>6. MemoryGood' /\ DiskGood'
  BY <1>1, <1>2, <1>4 DEF MemoryGood, DiskGood
<1>7. Ahead'
  BY <1>1, <1>3 DEF Ahead, Count
<1>8. Follows'
  <2>1. \A k \in DOMAIN temp.dir : temp.dir[k].size <= temp.dir[k].size
    BY <1>3 DEF Entry
  <2> QED BY <1>1, <1>4, <2>1 DEF Follows
<1>9. Done'
  BY <1>1 DEF StoreInv, Done, Saving, HasEntry
<1>10. Ours'
  BY <1>1 DEF StoreInv, Ours
<1> QED BY <1>5, <1>6, <1>7, <1>8, <1>9, <1>10 DEF StoreInv

\* The steps of a save after its last file.
LEMMA EndingStore ==
    ASSUME JobInv, JobInv', PlacesInv, PackInv, StoreInv,
           SavePack \/ SavePacking \/ SavePacked \/ SaveCount \/ SaveClose
    PROVE  StoreInv'
<1>0. header \in Header
  BY DEF JobInv, IInv, TypeOK
<1>1. CASE SavePack
  <2>1. /\ job = "saveFile" /\ job' = "savePacked" /\ UNCHANGED <<src, files, mem, queued, unread, todo, early>>
        /\ isOpen /\ pc = "idle"
    BY <1>1 DEF SavePack, saveVars, refreshVars, JobInv, JobPhase
  <2>2. CASE Pack
    <3>1. \E next \in {"close", "pack"} : FlushDirectory(next)
      BY <2>2 DEF Pack
    <3> QED BY <2>1, <3>1, FlushStore
  <2>3. CASE PackUnchanged
    <3>1. /\ UNCHANGED <<isOpen, dir, fmap, handles, writer, cells, diskDir, diskHeader, header>>
          /\ pc' = "copy" /\ temp'.header.ok /\ DOMAIN temp'.dir = {}
      BY <2>3 DEF PackUnchanged, memory, disk, StartCopy, FreshHeader, NoDir
    <3> QED BY <2>1, <3>1, HeaderOnlyStore
  <2>4. CASE UNCHANGED driveVars
    <3>1. UNCHANGED <<isOpen, dir, fmap, handles, writer, cells, diskDir, diskHeader, header, pc>>
      BY <2>4 DEF driveVars, memory, disk
    <3> QED BY <2>1, <3>1, HeaderOnlyStore
  <2> QED BY <1>1, <2>2, <2>3, <2>4 DEF SavePack
<1>2. CASE SavePacking
  <2>1. job = "savePacked" /\ UNCHANGED clientVars
    BY <1>2 DEF SavePacking
  <2>2. CASE PackHeader
    <3>1. /\ UNCHANGED <<isOpen, dir, fmap, handles, writer, cells, diskDir, header>>
          /\ UNCHANGED <<src, files, mem, queued, unread, todo, early, job>> /\ isOpen /\ pc = "pack" /\ diskHeader' = header
          /\ pc' = "copy" /\ temp'.header.ok /\ DOMAIN temp'.dir = {}
      BY <2>1, <2>2 DEF PackHeader, WriteHeader, StartCopy, FreshHeader, NoDir, clientVars, saveVars, refreshVars,
             JobInv, IInv, Phase
    <3> QED BY <2>1, <3>1, HeaderOnlyStore
  <2>3. CASE PackFile \/ PackFails
    BY <2>1, <2>3, PackFileStore
  <2> QED BY <1>2, <2>1, <2>2, <2>3, PackReplaceStore, PackReopenStore DEF SavePacking
<1>3. CASE SavePacked \/ SaveCount
  <2>1. /\ UNCHANGED <<isOpen, dir, fmap, handles, writer, cells, diskDir, diskHeader, pc>>
        /\ UNCHANGED <<src, files, mem, queued, unread, todo, early>>
        /\ job \in {"saveFile", "savePacked"} /\ job' = "saveClose" /\ pc = "idle" /\ isOpen
        /\ \E v : header' = [header EXCEPT !.userData = v]
    BY <1>3 DEF SavePacked, SaveCount, SetHeaderUserData, Ready, Idle, disk, saveVars, refreshVars
  <2>2. header'.dirOffset = header.dirOffset /\ header'.count = header.count /\ header'.ok = header.ok
    BY <1>0, <2>1 DEF Header
  <2> QED BY <2>1, <2>2, HeaderOnlyStore
<1>4. CASE SaveClose
  <2>1. /\ job = "saveClose" /\ job' = "saveClose" /\ UNCHANGED <<src, files, mem, queued, unread, todo, early>>
    BY <1>4 DEF SaveClose, clientVars, saveVars, refreshVars
  <2>2. \E next \in {"close", "pack"} : FlushDirectory(next)
    BY <1>4 DEF SaveClose, Close
  <2> QED BY <2>1, <2>2, FlushStore
<1> QED BY <1>1, <1>2, <1>3, <1>4

(***************************************************************************)
(* The invariant                                                           *)
(***************************************************************************)
LEMMA StoreInvStep ==
    ASSUME TagInv, StoreInv, Trusting, [TagNext]_vars
    PROVE  StoreInv'
<1>0. JobInv /\ JobInv' /\ PlacesInv /\ PackInv
  BY JobInvStep DEF TagInv
<1>1. CASE \/ \E n \in Names : Edit(n) \/ ChangeProject(n) \/ SaveSkip(n)
           \/ RemoveAll \/ LoadSkip \/ LoadTags \/ UNCHANGED vars
  BY <1>0, <1>1, ClientStore
<1>2. CASE \/ \E f \in BOOLEAN : SaveStart(f) \/ LoadFails(f)
           \/ LoadStart \/ SaveOpenFails \/ SaveUnlink \/ SaveClosed \/ Crash
           \/ (LoadEnd /\ CloseUnchanged)
  BY <1>0, <1>2, CloseStore
<1>3. CASE SaveCreate
  BY <1>0, <1>3, CreateStore
<1>4. CASE SaveOpen \/ \E ro \in BOOLEAN : LoadOpen(ro)
  <2>1. \E ro \in BOOLEAN : SaveOpen \/ LoadOpen(ro)
    BY <1>4
  <2> QED BY <1>0, <2>1, OpenStore
<1>5. ASSUME NEW h \in Handles, SaveWrite(h) \/ SaveFileClose(h) \/ \E n \in Names : SaveFile(n, h)
      PROVE  StoreInv'
  BY <1>0, <1>5, WriteStore, FileCloseStore, SaveFileStore
<1>6. CASE SavePack \/ SavePacking \/ SavePacked \/ SaveCount \/ SaveClose
  BY <1>0, <1>6, EndingStore
<1>7. CASE LoadErase
  <2>1. LoadFile /\ ~NotLoaded /\ ~GoodFormat
    BY <1>7 DEF LoadErase
  <2> QED BY <1>0, <2>1, LoadTrusted DEF Trusting
<1>8. CASE LoadClosed \/ (LoadEnd /\ Close)
  BY <1>8, LoadOnlyReads
<1>9. LoadEnd => (LoadEnd /\ CloseUnchanged) \/ (LoadEnd /\ Close)
  BY DEF LoadEnd
<1>10. CASE RefreshSteps
  BY <1>0, <1>10, RefreshStore
<1> QED BY <1>1, <1>2, <1>3, <1>4, <1>5, <1>6, <1>7, <1>8, <1>9, <1>10 DEF TagNext, JobSteps, SaveSteps

LEMMA StoreInvHolds == TagSpec /\ Trusting => [](TagInv /\ StoreInv)
<1>1. Trusting => [](Trusting)
  <2>1. Trusting => Trusting'
    BY DEF Trusting
  <2> QED BY <2>1, PTL
<1>2. Init /\ Trusting => StoreInv
  BY InitStoreInv DEF Trusting
<1>3. TagInv /\ StoreInv /\ Trusting /\ [TagNext]_vars => StoreInv'
  BY StoreInvStep
<1> QED BY <1>1, <1>2, <1>3, TagInvHolds, PTL DEF TagSpec

(***************************************************************************)
(* What a load would find on disk                                          *)
(***************************************************************************)
\* Open() would show an entry for the present version of the file.
Shown(n) == \E e \in LoadableEntries : e.name = n /\ e.time = src[n]

\* The entries a load would look at are the visible ones of a directory in place.
LiveEntries ==
    /\ \A e \in LoadableEntries : DiskLive /\ \E k \in Visible : e = diskDir.dir[k]
    /\ DiskLive => \A k \in Visible : diskDir.dir[k] \in LoadableEntries

LEMMA LoadableLive == JobInv /\ PlacesInv => LiveEntries
<1> SUFFICES ASSUME JobInv, PlacesInv PROVE LiveEntries
  OBVIOUS
<1>1. diskHeader.count \in Nat /\ Len(diskDir.dir) \in Nat
  BY VisibleEntries
<1>2. ASSUME NEW e \in LoadableEntries PROVE DiskLive /\ \E k \in Visible : e = diskDir.dir[k]
  <2>1. Openable /\ \E k \in Visible : e = diskDir.dir[k]
    BY <1>2 DEF LoadableEntries, Visible
  <2>2. diskHeader.count > 0
    BY <1>1, <2>1 DEF Visible, AtMost
  <2> QED BY <2>1, <2>2 DEF Openable, DiskLive
<1>3. ASSUME DiskLive, NEW k \in Visible PROVE diskDir.dir[k] \in LoadableEntries
  BY <1>3 DEF DiskLive, Openable, LoadableEntries, Visible
<1> QED BY <1>2, <1>3 DEF LiveEntries

LEMMA LoadableNext == JobInv' /\ PlacesInv' => LiveEntries'
BY LoadableLive, PTL

\* Such an entry holds the tags of the present version, if that was read.
LEMMA ShownTags ==
    JobInv /\ PlacesInv /\ StoreInv =>
        \A n \in Names : IF Shown(n) THEN <<n, src[n]>> \notin unread => OnDiskTags(n) = {Tags(n, src[n])}
                                     ELSE OnDiskTags(n) = {}
<1> SUFFICES ASSUME JobInv, PlacesInv, StoreInv, NEW n \in Names
             PROVE  /\ Shown(n) /\ <<n, src[n]>> \notin unread => OnDiskTags(n) = {Tags(n, src[n])}
                    /\ ~Shown(n) => OnDiskTags(n) = {}
  OBVIOUS
<1> DEFINE v == src[n]
           Here(e) == e.name = n /\ e.time = v
<1>1. v \in Times /\ v # 0
  BY DEF JobInv, ClientOK, StoreInv, MemOK
<1>2. ASSUME <<n, src[n]>> \notin unread, NEW e \in LoadableEntries, Here(e)
      PROVE  /\ e.size > 0 /\ Contents(e, cells)[1] = FormatCell
             /\ SubSeq(Contents(e, cells), 2, e.size) = Tags(n, v)
  <2>1. PICK k \in Visible : e = diskDir.dir[k]
    BY LoadableLive DEF LiveEntries
  <2>2. DiskLive /\ e \in Entry
    BY <2>1, LoadableLive, VisibleEntries, EntryTypes DEF LiveEntries
  <2>3. Good(e, cells, src, mem, queued, unread)
    BY <1>2, <2>1, <2>2, NamesAssumption DEF StoreInv, DiskGood, JunkName
  <2>4. Contents(e, cells) = Version(n, v)
    BY <1>1, <1>2, <2>3 DEF Good
  <2>5. /\ Version(n, v) \in Seq(Data) /\ Len(Version(n, v)) \in Nat /\ Len(Version(n, v)) > 0
        /\ Version(n, v)[1] = FormatCell
        /\ SubSeq(Version(n, v), 2, Len(Version(n, v))) = Tags(n, v)
    BY <1>1, VersionType
  <2>6. e.size = Len(Version(n, v))
    <3>1. e.size \in Nat /\ DOMAIN Contents(e, cells) = 1 .. e.size
      BY <2>2 DEF Entry, Contents
    <3>2. DOMAIN Version(n, v) = 1 .. Len(Version(n, v))
      BY <2>5
    <3>3. \A x, y \in Nat : 1 .. x = 1 .. y => x = y
      OBVIOUS
    <3> QED BY <2>4, <2>5, <3>1, <3>2, <3>3
  <2> QED BY <2>4, <2>5, <2>6
<1> DEFINE loadable == {e \in LoadableEntries : Here(e) /\ e.size > 0 /\ Contents(e, cells)[1] = FormatCell}
<1>3. OnDiskTags(n) = {SubSeq(Contents(e, cells), 2, e.size) : e \in loadable}
  BY DEF OnDiskTags
<1>4. /\ loadable \subseteq {e \in LoadableEntries : Here(e)}
      /\ <<n, src[n]>> \notin unread => loadable = {e \in LoadableEntries : Here(e)}
  BY <1>2
<1> HIDE DEF loadable
<1>5. CASE Shown(n) /\ <<n, src[n]>> \notin unread
  <2>1. PICK e \in LoadableEntries : Here(e)
    BY <1>5 DEF Shown
  <2>2. e \in loadable
    BY <1>4, <1>5, <2>1
  <2>3. \A f \in loadable : SubSeq(Contents(f, cells), 2, f.size) = Tags(n, v)
    BY <1>2, <1>4, <1>5
  <2>4. OnDiskTags(n) = {Tags(n, v)}
    <3> DEFINE X(f) == SubSeq(Contents(f, cells), 2, f.size)
    <3>1. X(e) = Tags(n, v) /\ \A f \in loadable : X(f) = Tags(n, v)
      BY <2>2, <2>3
    <3>2. OnDiskTags(n) = {X(f) : f \in loadable}
      BY <1>3
    <3> HIDE DEF X, v
    <3> QED BY <2>2, <3>1, <3>2
  <2> QED BY <1>5, <2>4
<1>6. CASE ~Shown(n)
  <2>1. loadable = {}
    BY <1>4, <1>6 DEF Shown
  <2> QED BY <1>3, <1>6, <2>1
<1> QED BY <1>5, <1>6

(***************************************************************************)
(* The steps of TagStore                                                   *)
(***************************************************************************)
\* What the steps of the database are compared by.
StoreTags ==
    \A n \in Names : IF Shown(n) THEN <<n, src[n]>> \notin unread => OnDiskTags(n) = {Tags(n, src[n])}
                                 ELSE OnDiskTags(n) = {}

\* The times that are held are times.
LEMMA HeldType == JobInv => [n \in Names |-> mem[n].time] \in [Names -> 0 .. MaxTime]
BY DatabaseAssumption DEF JobInv, ClientOK, FileObject

\* The disk stays, so that only what is held and what was not read may change.
LEMMA LearnStep ==
    ASSUME JobInv', unread \subseteq unread', UNCHANGED <<diskHeader, cells, diskDir, src>>
    PROVE  Store!Learn
<1>1. [n \in Names |-> mem'[n].time] \in [Names -> 0 .. MaxTime]
  <2>1. \A n \in Names : mem'[n].time \in 0 .. MaxTime
    BY DatabaseAssumption DEF JobInv, ClientOK, FileObject
  <2> QED BY <2>1
<1>2. \A n \in Names : OnDiskTags(n)' = OnDiskTags(n)
  BY DEF OnDiskTags, LoadableEntries, Openable
<1>3. unread' \subseteq Names \X (0 .. MaxTime)
  BY DatabaseAssumption DEF JobInv, RefreshOK
<1> QED BY <1>1, <1>2, <1>3 DEF Store!Learn

\* Nothing is shown any more.
LEMMA ForgetStep ==
    ASSUME UNCHANGED <<src, mem, unread>>, LoadableEntries' = {}
    PROVE  Store!Forget
<1>1. \A n \in Names : OnDiskTags(n)' = {}
  BY DEF OnDiskTags
<1> QED BY <1>1 DEF Store!Forget, Store!Forgotten

\* What is shown changes; what is not shown any more is held in another version.
LEMMA PublishStep ==
    ASSUME StoreTags, StoreTags', UNCHANGED <<src, mem, unread>>,
           \A n \in Names : Shown(n) /\ ~Shown(n)' => mem[n].time # src[n]
    PROVE  \E new, replaced \in SUBSET Names : Store!Publish(new, replaced)
<1> DEFINE new == {n \in Names : Shown(n)'}
           replaced == {n \in Names : Shown(n) /\ ~Shown(n)'}
<1>1. replaced \subseteq {n \in Names : [m \in Names |-> mem[m].time][n] # src[n]}
  OBVIOUS
<1>2. ASSUME NEW n \in Names, <<n, src[n]>> \notin unread
      PROVE  OnDiskTags(n)' = IF n \in new THEN {Tags(n, src[n])} ELSE IF n \in replaced THEN {} ELSE OnDiskTags(n)
  <2>1. OnDiskTags(n) = IF Shown(n) THEN {Tags(n, src[n])} ELSE {}
    BY <1>2 DEF StoreTags
  <2>2. OnDiskTags(n)' = IF Shown(n)' THEN {Tags(n, src[n])} ELSE {}
    BY <1>2 DEF StoreTags
  <2> QED BY <2>1, <2>2
<1>3. new \in SUBSET Names /\ replaced \in SUBSET Names
  OBVIOUS
<1> HIDE DEF new, replaced
<1>4. Store!Publish(new, replaced)
  <2>1. \A n \in Store!Sure :
           [m \in Names |-> OnDiskTags(m)]'[n] =
              IF n \in new THEN {Tags(n, src[n])}
              ELSE IF n \in replaced THEN {} ELSE [m \in Names |-> OnDiskTags(m)][n]
    BY <1>2 DEF Store!Sure
  <2> QED BY <1>1, <2>1 DEF Store!Publish, Store!Stale
<1> QED BY <1>3, <1>4

\* When all files in memory become visible, only a file that Save() wrote is shown no
\* more: its tags in memory are of another version.
LEMMA MemoryPublished ==
    ASSUME JobInv, PlacesInv, StoreInv, StoreTags, StoreTags', Saving, isOpen, UNCHANGED <<src, mem, unread>>,
           \A i \in DOMAIN dir : dir[i] \in LoadableEntries'
    PROVE  \E new, replaced \in SUBSET Names : Store!Publish(new, replaced)
<1>1. ASSUME NEW n \in Names, Shown(n), mem[n].time = src[n] PROVE Shown(n)'
  <2>1. PICK e \in LoadableEntries : e.name = n /\ e.time = src[n]
    BY <1>1 DEF Shown
  <2>2. DiskLive /\ \E k \in Visible : e = diskDir.dir[k]
    BY LoadableLive DEF LiveEntries
  <2>3. PICK k \in Visible : e = diskDir.dir[k]
    BY <2>2
  <2>4. diskDir.dir[k].name # JunkName
    BY <2>1, <2>3, NamesAssumption DEF JunkName
  <2>5. PICK i \in DOMAIN dir : /\ dir[i].name = diskDir.dir[k].name
                                /\ dir[i].time \in {diskDir.dir[k].time, mem[dir[i].name].time}
    BY <2>2, <2>4 DEF StoreInv, Follows
  <2>6. dir[i].name = n /\ dir[i].time = src'[n]
    BY <1>1, <2>1, <2>3, <2>5
  <2> QED BY <2>6 DEF Shown
<1> QED BY <1>1, PublishStep

\* A directory that is written where the last one was has all of its entries shown.
LEMMA FlushSteps ==
    ASSUME JobInv, JobInv', PlacesInv, PlacesInv', StoreInv, StoreTags, StoreTags',
           NEW next \in {"close", "pack"}, FlushDirectory(next), job \in {"saveFile", "saveClose"},
           UNCHANGED <<src, mem, unread>>
    PROVE  Store!StoreNext
<1>1. /\ isOpen /\ UNCHANGED <<header, diskHeader>>
      /\ diskDir' = [at |-> header.dirOffset, dir |-> dir']
      /\ DOMAIN dir = 1 .. Count /\ Count \in Nat /\ Len(dir') = Count
      /\ \A k \in 1 .. Count : \E i \in 1 .. Count : dir'[i] = dir[k]
  BY FlushShape
<1>2. writer = NoHandle /\ diskHeader.count \in Nat /\ header.dirOffset \in Nat /\ diskHeader.dirOffset \in Nat
  BY NothingOpen DEF JobInv, IInv, TypeOK, Header
<1>3. CASE DiskLive'
  <2>1. header.dirOffset = diskHeader.dirOffset
    BY <1>1, <1>3 DEF DiskLive
  <2>2. Count <= diskHeader.count
    <3>1. Count > diskHeader.count => header.dirOffset > diskHeader.dirOffset
      BY <1>1, <1>2 DEF StoreInv, Ahead, Saving
    <3>2. /\ Count \in Nat /\ diskHeader.count \in Nat
          /\ header.dirOffset = diskHeader.dirOffset /\ diskHeader.dirOffset \in Nat
      BY <1>1, <1>2, <2>1
    <3> HIDE DEF Count
    <3> QED BY ONLY <3>1, <3>2
  <2>3. Visible' = 1 .. Count
    BY <1>1, <1>2, <2>2 DEF Visible, AtMost
  <2>4. \A i \in 1 .. Count : dir'[i] \in LoadableEntries'
    BY <1>1, <1>3, <2>3, LoadableNext DEF LiveEntries
  <2>5. ASSUME NEW k \in DOMAIN dir PROVE dir[k] \in LoadableEntries'
    <3>1. \E i \in 1 .. Count : dir'[i] = dir[k]
      BY <1>1, <2>5
    <3> QED BY <2>4, <3>1
  <2>6. \E new, replaced \in SUBSET Names : Store!Publish(new, replaced)
    BY <1>1, <2>5, MemoryPublished DEF Saving
  <2> QED BY <2>6 DEF Store!StoreNext
<1>4. CASE ~DiskLive'
  <2>1. LoadableEntries' = {}
    BY <1>4, LoadableNext DEF LiveEntries
  <2> QED BY <2>1, ForgetStep DEF Store!StoreNext
<1> QED BY <1>3, <1>4

\* The header makes all entries of the directory before it visible.
LEMMA HeaderSteps ==
    ASSUME JobInv, JobInv', PlacesInv, PlacesInv', StoreInv, StoreTags, StoreTags',
           pc \in {"close", "pack"}, Saving, diskHeader' = header, UNCHANGED <<cells, diskDir, src, mem, unread>>
    PROVE  Store!StoreNext
<1>1. isOpen /\ diskDir = [at |-> header.dirOffset, dir |-> dir] /\ header.ok
  BY DEF JobInv, IInv, Phase, PlacesInv, Flushing, StoreInv, Ours
<1>2. DOMAIN dir = 1 .. Count /\ Count \in Nat /\ Len(dir) = Count
  <2>1. DOMAIN dir = 1 .. Count /\ Count \in Nat
    BY <1>1 DEF JobInv, IInv, TypeOK, Directory, Count, Header
  <2>2. DOMAIN dir = 1 .. Len(dir) /\ Len(dir) \in Nat
    BY <1>1, VisibleEntries
  <2> HIDE DEF Count
  <2> QED BY <2>1, <2>2
<1>3. ASSUME NEW i \in DOMAIN dir PROVE dir[i] \in LoadableEntries'
  <2>1. DiskLive'
    <3>1. Count > 0
      BY <1>2
    <3> QED BY <1>1, <3>1 DEF DiskLive, Count
  <2>2. i \in Visible'
    BY <1>1, <1>2 DEF Visible, AtMost, Count
  <2> QED BY <1>1, <2>1, <2>2, LoadableNext DEF LiveEntries
<1>4. \E new, replaced \in SUBSET Names : Store!Publish(new, replaced)
  BY <1>1, <1>3, MemoryPublished
<1> QED BY <1>4 DEF Store!StoreNext

\* An edit makes what is shown of the file useless, and nothing else.
LEMMA EditSteps ==
    ASSUME JobInv, PlacesInv, StoreInv, StoreTags, StoreTags', NEW n \in Names, Edit(n)
    PROVE  Store!StoreNext
<1>1. src[n] < MaxTime /\ src' = [src EXCEPT ![n] = @ + 1] /\ UNCHANGED <<diskHeader, cells, diskDir, mem, unread>>
  BY DEF Edit, driveVars, disk, refreshVars
<1>2. src \in [Names -> Times] /\ src[n] \in Nat
  BY DatabaseAssumption DEF JobInv, ClientOK
<1>3. LoadableEntries' = LoadableEntries
  BY <1>1 DEF LoadableEntries, Openable
<1>4. ~Shown(n)'
  <2> SUFFICES ASSUME NEW e \in LoadableEntries, e.name = n, e.time = src[n] + 1
               PROVE  FALSE
    BY <1>1, <1>2, <1>3 DEF Shown
  <2>1. PICK k \in Visible : e = diskDir.dir[k]
    BY LoadableLive DEF LiveEntries
  <2>2. DiskLive /\ e.name # JunkName
    BY LoadableLive, NamesAssumption DEF JunkName, LiveEntries
  <2>3. e.time <= src[n]
    BY <2>1, <2>2 DEF StoreInv, DiskGood, Good
  <2> QED BY <1>2, <2>3
<1>5. \A m \in Names \ {n} : OnDiskTags(m)' = OnDiskTags(m)
  BY <1>1, <1>2, <1>3 DEF OnDiskTags
<1>6. OnDiskTags(n)' = {}
  BY <1>4 DEF StoreTags
<1>7. [m \in Names |-> OnDiskTags(m)]' = [[m \in Names |-> OnDiskTags(m)] EXCEPT ![n] = {}]
  BY <1>5, <1>6
<1>8. Store!EditFile(n)
  BY <1>1, <1>7 DEF Store!EditFile
<1> QED BY <1>8 DEF Store!StoreNext

\* Every step of the database is one of TagStore.
LEMMA StoreStep ==
    ASSUME TagInv, TagInv', StoreInv, StoreInv', Trusting, StoreTags, StoreTags', [TagNext]_vars
    PROVE  Store!StoreNext
<1>0. JobInv /\ JobInv' /\ PlacesInv /\ PlacesInv'
  BY DEF TagInv
<1>1. ASSUME UNCHANGED <<disk, src>> PROVE Store!StoreNext
  <2>1. unread \subseteq unread'
    BY <1>0, RefreshOKStep
  <2>2. Store!Learn
    BY <1>0, <1>1, <2>1, LearnStep DEF disk
  <2> QED BY <2>2 DEF Store!StoreNext
<1>2. ASSUME LoadableEntries' = {}, UNCHANGED <<src, mem, unread>> PROVE Store!StoreNext
  BY <1>2, ForgetStep DEF Store!StoreNext
<1>3. CASE \E n \in Names : Edit(n)
  BY <1>0, <1>3, EditSteps
<1>4. CASE \/ \E n \in Names : ChangeProject(n) \/ SaveSkip(n)
           \/ RefreshSteps \/ RemoveAll \/ LoadSkip \/ LoadTags \/ UNCHANGED vars
  BY <1>1, <1>4 DEF ChangeProject, SaveSkip, RemoveAll, LoadSkip, LoadTags, vars, clientVars, driveVars,
                    RefreshSteps, Detect, Requeued, Parse, Misparse, NotParsed, ParseEnd
<1>5. CASE \/ \E f \in BOOLEAN : SaveStart(f) \/ LoadFails(f) \/ LoadOpen(f)
           \/ LoadStart \/ SaveOpenFails \/ SaveOpen \/ Crash \/ (LoadEnd /\ CloseUnchanged)
  BY <1>1, <1>5 DEF SaveStart, LoadStart, SaveOpenFails, LoadFails, LoadOpen, SaveOpen, SaveBegin, Construct, Open,
                    OpenFails, Crash, LoadEnd, CloseUnchanged
<1>6. CASE SaveUnlink \/ SaveCreate
  <2>1. UNCHANGED <<src, mem, unread>> /\ (~diskHeader'.ok \/ diskHeader'.count = 0)
    BY <1>6 DEF SaveUnlink, SaveCreate, Create, SaveBegin, NoFile, FreshHeader, refreshVars
  <2>2. ~DiskLive'
    BY <1>0, <2>1 DEF DiskLive
  <2>3. LoadableEntries' = {}
    BY <1>0, <2>2, LoadableNext DEF LiveEntries
  <2> QED BY <1>2, <2>1, <2>3
<1>7. ASSUME NEW h \in Handles, SaveFileClose(h) \/ \E n \in Names : SaveFile(n, h)
      PROVE  Store!StoreNext
  BY <1>1, <1>7 DEF SaveFileClose, FileClose, SaveFile, CopyInPlace, CopyToEnd, FileCreate
<1>8. ASSUME NEW h \in Handles, SaveWrite(h) PROVE Store!StoreNext
  <2>1. UNCHANGED <<src, mem, unread, diskHeader>>
    BY <1>8 DEF SaveWrite, Write, clientVars, refreshVars
  <2>2. CASE DiskLive'
    <3>1. diskDir' = diskDir /\ DiskLive
      BY <1>0, <1>8, <2>2, WriteShape DEF StoreInv
    <3>2. LoadableEntries' = LoadableEntries
      BY <2>1, <3>1 DEF LoadableEntries, Openable
    <3>3. \A n \in Names : Shown(n)' = Shown(n)
      BY <2>1, <3>2 DEF Shown
    <3>4. \E new, replaced \in SUBSET Names : Store!Publish(new, replaced)
      BY <2>1, <3>3, PublishStep
    <3> QED BY <3>4 DEF Store!StoreNext
  <2>3. CASE ~DiskLive'
    <3>1. LoadableEntries' = {}
      BY <1>0, <2>3, LoadableNext DEF LiveEntries
    <3> QED BY <1>2, <2>1, <3>1
  <2> QED BY <2>2, <2>3
<1>9. CASE SavePack \/ SaveClose
  <2>1. job \in {"saveFile", "saveClose"} /\ UNCHANGED <<src, mem, unread>>
    BY <1>9 DEF SavePack, SaveClose, clientVars, refreshVars
  <2>2. CASE Pack \/ Close
    <3>1. \E next \in {"close", "pack"} : FlushDirectory(next)
      BY <2>2 DEF Pack, Close
    <3> QED BY <1>0, <2>1, <3>1, FlushSteps
  <2>3. CASE PackUnchanged \/ UNCHANGED driveVars
    BY <1>1, <2>1, <2>3 DEF PackUnchanged, driveVars
  <2> QED BY <1>9, <2>2, <2>3 DEF SavePack, SaveClose
<1>10. CASE SavePacking
  <2>1. job = "savePacked" /\ UNCHANGED <<src, mem, unread>> /\ Saving
    BY <1>10 DEF SavePacking, clientVars, refreshVars, Saving
  <2>2. CASE PackHeader
    <3>1. pc = "pack" /\ diskHeader' = header /\ UNCHANGED <<cells, diskDir>>
      BY <2>2 DEF PackHeader, WriteHeader
    <3> QED BY <1>0, <2>1, <3>1, HeaderSteps
  <2>3. CASE PackFile \/ PackFails
    BY <1>1, <2>1, <2>3 DEF PackFile, PackFails
  <2>4. CASE PackReplace
    <3>1. diskDir' = NoDiskDir /\ pc = "copy" /\ diskHeader' \in {NoFile, temp.header}
      BY <2>4 DEF PackReplace
    <3>2. NoDiskDir.at = 0 /\ ~NoFile.ok /\ temp.header.dirOffset # 0
      BY <1>0, <3>1 DEF NoDiskDir, NoFile, FreshHeader, PlacesInv, TempSound, Strict, HeaderEnd
    <3>3. ~DiskLive'
      BY <3>1, <3>2 DEF DiskLive
    <3>4. LoadableEntries' = {}
      BY <1>0, <3>3, LoadableNext DEF LiveEntries
    <3> QED BY <1>2, <2>1, <3>4
  <2>5. CASE PackReopen
    <3>1. diskDir = NoDiskDir
      BY <1>0, <2>5 DEF PackReopen, PlacesInv, DiskSound
    <3>2. DOMAIN diskDir.dir = {}
      BY <3>1 DEF NoDiskDir, NoDir
    <3>3. LoadableEntries = {}
      BY <1>0, <3>2, LoadableLive, VisibleEntries DEF LiveEntries
    <3>4. \E new, replaced \in SUBSET Names : Store!Publish(new, replaced)
      BY <2>1, <3>3, PublishStep DEF Shown
    <3> QED BY <3>4 DEF Store!StoreNext
  <2> QED BY <1>10, <2>2, <2>3, <2>4, <2>5 DEF SavePacking
<1>11. CASE SavePacked \/ SaveCount
  BY <1>1, <1>11 DEF SavePacked, SaveCount, SetHeaderUserData
<1>12. CASE SaveClosed
  <2>1. pc = "close" /\ diskHeader' = header /\ UNCHANGED <<cells, diskDir, src, mem, unread>> /\ Saving
    BY <1>12 DEF SaveClosed, CloseHeader, WriteHeader, Saving, refreshVars
  <2> QED BY <1>0, <2>1, HeaderSteps
<1>13. CASE LoadErase
  <2>1. LoadFile /\ ~NotLoaded /\ ~GoodFormat
    BY <1>13 DEF LoadErase
  <2> QED BY <1>0, <2>1, LoadTrusted DEF Trusting
<1>14. CASE LoadClosed \/ (LoadEnd /\ Close)
  BY <1>14, LoadOnlyReads
<1>15. LoadEnd => (LoadEnd /\ CloseUnchanged) \/ (LoadEnd /\ Close)
  BY DEF LoadEnd
<1> QED BY <1>3, <1>4, <1>5, <1>6, <1>7, <1>8, <1>9, <1>10, <1>11, <1>12, <1>13, <1>14, <1>15
        DEF TagNext, JobSteps, SaveSteps

(***************************************************************************)
(* The theorems                                                            *)
(***************************************************************************)
\* The tags in memory are always those of the version that the time stamp of their
\* file names, if a refresh has not left that version unread, whatever was saved over
\* what and wherever a Save() was interrupted: no tags torn between two versions are
\* ever loaded (WorkspaceTags.cpp, the test of the time stamps in LoadProjectTags()).
THEOREM LoadedTagsAreWhole == TagSpec /\ AutoRefresh /\ ~OldFormat => []TagsMatchTime
<1>1. TagInv /\ StoreInv => TagsMatchTime
  BY DEF TagInv, JobInv, ClientOK, StoreInv, MemOK, TagsMatchTime
<1>2. AutoRefresh /\ ~OldFormat => Trusting
  BY DEF Trusting
<1> QED BY <1>1, <1>2, StoreInvHolds, PTL

\* A save that the user does not cancel ends with a drive that can be opened and has
\* the tags of every file of the project that was read under their time stamp.
LEMMA SaveClosedSaves ==
    ASSUME TagInv, StoreInv, SaveClosed, ~early
    PROVE  Openable' /\ \A n \in files : mem[n].time # 0 /\ WasRead(n, mem[n].time) => Saved(n)'
<1>1. /\ pc = "close" /\ job = "saveClose" /\ diskHeader' = header /\ UNCHANGED <<cells, diskDir, mem, files>>
  BY DEF SaveClosed, CloseHeader, WriteHeader
<1>2. /\ JobInv /\ isOpen /\ todo = {} /\ header.ok /\ diskDir = [at |-> header.dirOffset, dir |-> dir]
  BY <1>1 DEF TagInv, JobInv, ClientOK, IInv, Phase, PlacesInv, Flushing, StoreInv, Ours
<1>3. DOMAIN dir = 1 .. header.count
  BY <1>2 DEF JobInv, IInv, TypeOK, Directory, Count
<1>4. Openable'
  BY <1>1, <1>2 DEF Openable
<1>5. ASSUME NEW n \in files, mem[n].time # 0, WasRead(n, mem[n].time) PROVE Saved(n)'
  <2>0. n \in Names /\ n # JunkName
    BY <1>2, NamesAssumption DEF JobInv, ClientOK, JunkName
  <2>1. HasEntry(dir, n)
    BY <1>1, <1>2, <1>5 DEF StoreInv, Done, Saving
  <2>2. PICK i \in DOMAIN dir : dir[i].name = n /\ dir[i].time = mem[n].time
    BY <2>1 DEF HasEntry
  <2>3. Good(dir[i], cells, src, mem, queued, unread)
    BY <1>1, <1>2, <2>0, <2>2 DEF StoreInv, MemoryGood, InHand
  <2>4. Contents(dir[i], cells) = Version(n, mem[n].time)
    BY <1>5, <2>2, <2>3 DEF Good, WasRead
  <2>5. FileContents(n) = Version(n, mem[n].time)
    BY <1>5, <2>0, MemoryVersion DEF StoreInv
  <2>6. FileContents(n)' = FileContents(n)
    BY <1>1 DEF FileContents
  <2> QED BY <1>1, <1>2, <1>3, <2>2, <2>4, <2>5, <2>6 DEF Saved
<1> QED BY <1>4, <1>5

\* A Save() the user does not cancel leaves on disk, for every file of the project
\* whose time stamp no refresh took over without parsing that version, its tags under
\* its time stamp, through packing and whatever saves were interrupted before
\* (WorkspaceTags::Save()).
THEOREM SavesAreDurable == TagSpec /\ AutoRefresh /\ ~OldFormat => SaveIsDurable
<1>1. TagInv /\ StoreInv /\ [TagNext]_vars =>
         [SaveClosed /\ ~early => Openable' /\
             \A n \in files : mem[n].time # 0 /\ WasRead(n, mem[n].time) => Saved(n)']_vars
  BY SaveClosedSaves
<1>2. AutoRefresh /\ ~OldFormat => Trusting
  BY DEF Trusting
<1> QED BY <1>1, <1>2, StoreInvHolds, PTL DEF TagSpec, SaveIsDurable

\* The initial states are those of TagStore.
LEMMA InitStore == Init /\ ~OldFormat => Store!StoreInit
<1> SUFFICES ASSUME Init, ~OldFormat PROVE Store!StoreInit
  OBVIOUS
<1>1. LoadableEntries = {}
  BY DEF Init, NoFile, FreshHeader, LoadableEntries, Openable
<1>2. \A n \in Names : OnDiskTags(n) = {}
  BY <1>1 DEF OnDiskTags
<1>3. \A n \in Names : mem[n].time = 0
  BY DEF Init, Unparsed
<1>4. src = [n \in Names |-> 1]
  BY DEF Init
<1>5. unread = {}
  BY DEF Init
<1> QED BY <1>2, <1>3, <1>4, <1>5 DEF Store!StoreInit, Store!Forgotten

\* Wherever a Save(), a Pack() or the program stops, the disk holds for every source
\* file the tags of its present version or none, unless a refresh took over that
\* version's time stamp and did not parse it: the database implements TagStore.
\* The order in which VirtualDrive writes data, directory and header, and in which
\* Save() takes over time stamps, is what makes it so.
THEOREM DatabaseNeverLies == TagSpec /\ AutoRefresh /\ ~OldFormat => NeverLies
<1>1. Init /\ ~OldFormat => Store!StoreInit
  BY InitStore
<1>2. TagInv /\ StoreInv => StoreTags
  BY ShownTags DEF TagInv, StoreTags
<1>3. /\ TagInv /\ TagInv' /\ StoreInv /\ StoreInv' /\ Trusting /\ StoreTags /\ StoreTags' /\ [TagNext]_vars
      => [Store!StoreNext]_(Store!storeVars)
  BY StoreStep
<1>4. AutoRefresh /\ ~OldFormat => []Trusting
  <2>1. Trusting => Trusting'
    BY DEF Trusting
  <2>2. AutoRefresh /\ ~OldFormat => Trusting
    BY DEF Trusting
  <2> QED BY <2>1, <2>2, PTL
<1> QED BY <1>1, <1>2, <1>3, <1>4, StoreInvHolds, PTL DEF TagSpec, NeverLies, Store!StoreSpec, Trusting
=============================================================================
