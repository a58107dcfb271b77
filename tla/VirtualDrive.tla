---------------------------- MODULE VirtualDrive ----------------------------
(***************************************************************************)
(* The virtual drive of Src/Shared/VirtualDrive.cpp and VirtualFile.cpp:   *)
(* many virtual files, and a directory of them, inside one disk file (the  *)
(* .wwdb tag database of a project).                                       *)
(*                                                                         *)
(* The disk file is a header followed by cells.  A cell stands for a run   *)
(* of bytes, large enough that the directory id and the directory together *)
(* take one or more of them.  Data is written before the directory, the    *)
(* directory before the header; each of the two steps of Flush is an       *)
(* action, so that a specification that extends this one can crash between *)
(* them.                                                                   *)
(***************************************************************************)
EXTENDS Integers, FiniteSets

CONSTANTS
    Names,       \* file names, as numbers in the order strcmp() gives them
    Times,       \* file time stamps
    Data,        \* what one cell of a virtual file can hold
    Handles,     \* VirtualFile objects of the clients
    MaxOffset,   \* bound: the last cell of the disk file
    MaxEntries,  \* bound: directory entries (65535 in the code: a WORD)
    MaxUserData  \* bound: the header's user data

ASSUME NamesAssumption == Names \subseteq Nat \ {0}
ASSUME BoundsAssumption == /\ MaxOffset \in Nat
                           /\ MaxEntries \in Nat
                           /\ MaxUserData \in Nat

JunkName == 0                \* the name of an entry parsed from garbage
HeaderEnd == 1               \* sizeof(FileHeader): the first cell
Empty == << >>                \* a cell that holds no virtual file data
NoHandle == "noHandle"      \* m_curWriteFile == NULL

ASSUME SentinelAssumption == Empty \notin Data /\ NoHandle \notin Handles

Offsets == HeaderEnd .. MaxOffset
Entry == [name : Names \cup {JunkName}, time : Times \cup {0}, offset : Nat, size : Nat]
Header == [ok : BOOLEAN, count : Nat, dirOffset : Nat, needPack : BOOLEAN,
           userData : 0 .. MaxUserData]
ClosedHandle == [open |-> FALSE, idx |-> 0, pos |-> 0, name |-> 0]
Handle == [open : BOOLEAN, idx : Nat, pos : Nat, name : Names \cup {0}]

VARIABLES
    isOpen,      \* m_parentFile # NULL
    readOnly,    \* m_readOnly
    changed,     \* m_changed
    header,      \* m_header
    dir,         \* m_dir, a function from 1 .. header.count to Entry
    fmap,        \* m_filenameMap, from names to indices of dir
    handles,     \* m_openFiles: handle -> where it points and its position;
                 \* the field name is the file the client opened (history)
    writer,      \* m_curWriteFile
    diskHeader,  \* the header on disk (ok = FALSE: no file, or not a drive)
    cells,       \* the data cells on disk
    diskDir,     \* the directory on disk: [at |-> offset, dir |-> entries];
                 \* at = 0 when its id has been overwritten
    pc,          \* which part of a Flush, Close or Pack comes next
    temp         \* the drive Pack() builds and the loop's index

memory == <<isOpen, readOnly, changed, header, dir, fmap, handles, writer>>
disk == <<diskHeader, cells, diskDir>>
driveVars == <<memory, disk, pc, temp>>

FreshHeader == [ok |-> TRUE, count |-> 0, dirOffset |-> HeaderEnd,
                needPack |-> FALSE, userData |-> 0]
NoFile == [FreshHeader EXCEPT !.ok = FALSE]
NoCells == [o \in Offsets |-> Empty]
NoDir == [i \in 1 .. 0 |-> 0]
NoDiskDir == [at |-> 0, dir |-> NoDir]
NoTemp == [next |-> 1, header |-> FreshHeader, dir |-> NoDir, cells |-> NoCells]
AllClosed == [h \in Handles |-> ClosedHandle]

(***************************************************************************)
(* Lookups and directory arithmetic                                        *)
(***************************************************************************)
Count == header.count
Found(n) == Count > 0 /\ n \in DOMAIN fmap        \* GetFileEntryIndex
EntryOf(n) == dir[fmap[n]]                        \* GetFileEntry

\* m_filenameMap[name] = i for i = lo .. hi, in that order, over the map m.
MapFrom(m, d, lo, hi) ==
    LET named(n) == {i \in lo .. hi : d[i].name = n}
        last(n) == CHOOSE i \in named(n) : \A j \in named(n) : j <= i
        new == {d[i].name : i \in lo .. hi}
    IN [n \in DOMAIN m \cup new |-> IF n \in new THEN last(n) ELSE m[n]]
NoMap == [n \in {} |-> 0]

\* The directory sorted by name: what qsort() with Compare() may leave.
Sorted(d, n) ==
    {e \in {[i \in 1 .. n |-> d[p[i]]] :
                p \in {q \in [1 .. n -> 1 .. n] :
                            \A i, j \in 1 .. n : q[i] = q[j] => i = j}} :
        \A i \in 1 .. n : \A j \in i .. n : e[i].name <= e[j].name}

Without(d, n, k) == [i \in 1 .. n - 1 |-> IF i < k THEN d[i] ELSE d[i + 1]]
Append1(d, n, e) == [i \in 1 .. n + 1 |-> IF i <= n THEN d[i] ELSE e]

Extent(e) == e.offset .. e.offset + e.size - 1
\* What reading the whole of an entry returns.
Contents(e, c) == [k \in 1 .. e.size |->
                     IF e.offset + k - 1 \in Offsets THEN c[e.offset + k - 1]
                                                    ELSE Empty]

(***************************************************************************)
(* Creating, opening and closing the drive                                 *)
(***************************************************************************)
DriveInit ==
    /\ isOpen = FALSE /\ readOnly = FALSE /\ changed = FALSE
    /\ header = FreshHeader /\ dir = NoDir /\ fmap = NoMap
    /\ handles = AllClosed /\ writer = NoHandle
    /\ diskHeader = NoFile /\ cells = NoCells
    /\ diskDir = NoDiskDir
    /\ pc = "idle" /\ temp = NoTemp

Idle == pc = "idle"
Ready == Idle /\ isOpen

\* VirtualDrive(): a client's next drive object.
Construct ==
    /\ Idle /\ ~isOpen
    /\ readOnly' = FALSE /\ changed' = FALSE /\ header' = FreshHeader
    /\ UNCHANGED <<isOpen, dir, fmap, handles, writer, disk, pc, temp>>

\* Create(): truncates the disk file and writes an empty header.
Create ==
    /\ Idle /\ ~isOpen
    /\ isOpen' = TRUE /\ readOnly' = FALSE /\ changed' = TRUE
    /\ header' = FreshHeader /\ dir' = NoDir /\ fmap' = NoMap
    /\ writer' = NoHandle
    /\ diskHeader' = FreshHeader /\ cells' = NoCells
    /\ diskDir' = NoDiskDir
    /\ UNCHANGED <<handles, pc, temp>>

\* Open() accepts the disk file: the ids of the header and, when the header
\* counts any entries, of the directory it points to are in place.
Openable == /\ diskHeader.ok
            /\ diskHeader.count > 0 => diskDir.at = diskHeader.dirOffset

\* The entries Open() reads: those of the directory on disk, and garbage past
\* its end when the header counts more than it holds.
JunkEntry == [name : {JunkName}, time : {0}, offset : HeaderEnd .. MaxOffset + 1,
              size : {0, 1}]
Parsed(d, n) ==
    {[i \in 1 .. n |-> IF i \in DOMAIN d THEN d[i] ELSE j] : j \in JunkEntry}

\* Open(), which falls back to read-only access (ro).
Open(ro) ==
    /\ Idle /\ ~isOpen /\ Openable
    /\ isOpen' = TRUE /\ readOnly' = (readOnly \/ ro) /\ changed' = FALSE
    /\ header' = diskHeader
    /\ dir' \in Parsed(diskDir.dir, diskHeader.count)
    /\ fmap' = MapFrom(fmap, dir', 1, diskHeader.count)
    /\ writer' = NoHandle
    /\ UNCHANGED <<handles, disk, pc, temp>>

\* Open() that finds no drive it knows: it has noted the read-only access.
OpenFails(ro) ==
    /\ Idle /\ ~isOpen /\ ~Openable
    /\ readOnly' = (readOnly \/ ro)
    /\ UNCHANGED <<isOpen, changed, header, dir, fmap, handles, writer, disk, pc, temp>>

\* The first half of Flush(): sort, then write the directory and cut the disk
\* file after it.
FlushDirectory(next) ==
    /\ Ready /\ changed
    /\ IF Count > 1
       THEN /\ dir' \in Sorted(dir, Count)
            /\ fmap' = MapFrom(NoMap, dir', 1, Count)
       ELSE UNCHANGED <<dir, fmap>>
    /\ diskDir' = [at |-> header.dirOffset, dir |-> dir']
    /\ cells' = [o \in Offsets |-> IF o < header.dirOffset THEN cells[o]
                                                          ELSE Empty]
    /\ pc' = next
    /\ UNCHANGED <<isOpen, readOnly, changed, header, handles, writer,
                   diskHeader, temp>>

\* The second half: the header that points to the directory.
WriteHeader ==
    /\ diskHeader' = header
    /\ changed' = FALSE

\* Mutant: the directory is emptied and its map is not.
CloseFilesKeepsMap ==
    /\ header' = FreshHeader
    /\ handles' = AllClosed /\ writer' = NoHandle
    /\ dir' = NoDir /\ fmap' = fmap
    /\ isOpen' = FALSE

\* What Close() does after its Flush(): FileCloseAll(), then the directory, the
\* map and the disk file go.  The header left in memory is not read again.
CloseFiles ==
    /\ header' = FreshHeader
    /\ handles' = AllClosed /\ writer' = NoHandle
    /\ dir' = NoDir /\ fmap' = NoMap
    /\ isOpen' = FALSE

Flush == FlushDirectory("flush")
FlushHeader ==
    /\ pc = "flush"
    /\ WriteHeader /\ pc' = "idle"
    /\ UNCHANGED <<isOpen, readOnly, header, dir, fmap, handles, writer,
                   cells, diskDir, temp>>

Close == FlushDirectory("close")
CloseUnchanged ==
    /\ Ready /\ ~changed
    /\ CloseFiles
    /\ UNCHANGED <<readOnly, changed, disk, pc, temp>>
CloseHeader ==
    /\ pc = "close"
    /\ WriteHeader /\ CloseFiles /\ pc' = "idle"
    /\ UNCHANGED <<readOnly, cells, diskDir, temp>>

(***************************************************************************)
(* Virtual files                                                           *)
(***************************************************************************)
OpenHandle(h, n, i) ==
    handles' = [handles EXCEPT ![h] = [open |-> TRUE, idx |-> i, pos |-> 0,
                                       name |-> n]]

\* FileCreate(): a new entry, or the old one of that name, at the end of the
\* data; only one file is being created at a time.
FileCreate(n, t, h) ==
    LET e == [name |-> n, time |-> t, offset |-> header.dirOffset, size |-> 0]
        i == IF Found(n) THEN fmap[n] ELSE Count + 1
    IN /\ Ready /\ ~readOnly /\ writer = NoHandle /\ ~handles[h].open
       /\ i <= MaxEntries
       /\ IF Found(n)
          THEN /\ header' = [header EXCEPT !.needPack = TRUE]
               /\ dir' = [dir EXCEPT ![i] = e]
               /\ fmap' = fmap
          ELSE /\ header' = [header EXCEPT !.count = Count + 1]
               /\ dir' = Append1(dir, Count, e)
               /\ fmap' = [m \in DOMAIN fmap \cup {n} |-> IF m = n THEN i ELSE fmap[m]]
       /\ OpenHandle(h, n, i) /\ writer' = h
       /\ changed' = TRUE
       /\ UNCHANGED <<isOpen, readOnly, disk, pc, temp>>

FileOpen(n, h) ==
    /\ Ready /\ Found(n) /\ ~handles[h].open
    /\ OpenHandle(h, n, fmap[n])
    /\ UNCHANGED <<isOpen, readOnly, changed, header, dir, fmap, writer, disk,
                   pc, temp>>

\* The entry a handle points to: after another file was erased it may be past
\* the end of the directory.
Live(h) == handles[h].open /\ handles[h].idx \in 1 .. Count
At(h) == dir[handles[h].idx]

\* FileClose(): closing the file being created ends the data after it.  The
\* offset is read through a dangling pointer when the handle is not live; it is
\* bounded here.
FileClose(h) ==
    /\ Ready /\ handles[h].open
    /\ handles' = [handles EXCEPT ![h] = ClosedHandle]
    /\ IF h = writer
       THEN /\ \E o \in IF Live(h) THEN {At(h).offset + handles[h].pos} ELSE Offsets :
                    /\ o <= MaxOffset + 1
                    /\ header' = [header EXCEPT !.dirOffset = o]
            /\ writer' = NoHandle
       ELSE UNCHANGED <<header, writer>>
    /\ UNCHANGED <<isOpen, readOnly, changed, dir, fmap, disk, pc, temp>>

\* VirtualFile::Write() of one cell; it also grows a file that was only opened.
Write(h, d) ==
    LET o == At(h).offset + handles[h].pos
        p == handles[h].pos + 1
    IN /\ Ready /\ ~readOnly /\ Live(h) /\ o <= MaxOffset
       /\ cells' = [cells EXCEPT ![o] = d]
       /\ diskDir' = IF o >= diskDir.at THEN NoDiskDir ELSE diskDir
       /\ handles' = [handles EXCEPT ![h].pos = p]
       /\ dir' = IF p > At(h).size THEN [dir EXCEPT ![handles[h].idx].size = p]
                                   ELSE dir
       /\ UNCHANGED <<isOpen, readOnly, changed, header, fmap, writer,
                      diskHeader, pc, temp>>

MovePosition(h, p) ==
    /\ handles' = [handles EXCEPT ![h].pos = p]
    /\ UNCHANGED <<isOpen, readOnly, changed, header, dir, fmap, writer, disk,
                   pc, temp>>

\* VirtualFile::Read() of k cells stops at the end of the file.
Read(h, k) ==
    /\ Ready /\ Live(h)
    /\ MovePosition(h, IF handles[h].pos + k > At(h).size THEN At(h).size
                                                        ELSE handles[h].pos + k)

\* VirtualFile::Seek(): from the beginning or the current position it stays in
\* the file; from the end it lands k cells behind the end (bounded here).
Seek(h, p) == Ready /\ Live(h) /\ p <= At(h).size /\ MovePosition(h, p)
SeekEnd(h, k) ==
    /\ Ready /\ Live(h) /\ handles[h].pos - k >= 0
    /\ At(h).offset + At(h).size + k <= MaxOffset + 1
    /\ MovePosition(h, At(h).size + k)

SetLength(h, s) ==
    /\ Ready /\ ~readOnly /\ Live(h) /\ s <= At(h).size
    /\ dir' = [dir EXCEPT ![handles[h].idx].size = s]
    /\ header' = [header EXCEPT !.needPack = TRUE]
    /\ changed' = TRUE
    /\ UNCHANGED <<isOpen, readOnly, fmap, handles, writer, disk, pc, temp>>

\* FileEntry::SetTimeStamp()
SetTimeStamp(n, t) ==
    /\ Ready /\ ~readOnly /\ Found(n)
    /\ dir' = [dir EXCEPT ![fmap[n]].time = t]
    /\ changed' = TRUE
    /\ UNCHANGED <<isOpen, readOnly, header, fmap, handles, writer, disk, pc, temp>>

\* SetHeaderUserDataDWORD(); its callers have checked IsReadOnly().
SetHeaderUserData(v) ==
    /\ Ready /\ ~readOnly
    /\ header' = [header EXCEPT !.userData = v]
    /\ changed' = TRUE
    /\ UNCHANGED <<isOpen, readOnly, dir, fmap, handles, writer, disk, pc, temp>>

\* FileErase() refuses a file that an open handle points to.  Past the end of
\* the directory the array still has the bytes of the entry moved from there.
PointsTo(h) == IF Live(h) THEN At(h).name ELSE handles[h].name
\* Mutant: the entries after the erased one are not entered in the map again.
FileEraseStaleMap(n) ==
    /\ Ready /\ ~readOnly /\ Found(n)
    /\ \A h \in Handles : handles[h].open => PointsTo(h) # n
    /\ dir' = Without(dir, Count, fmap[n])
    /\ fmap' = [m \in DOMAIN fmap \ {n} |-> fmap[m]]
    /\ header' = [header EXCEPT !.count = Count - 1, !.needPack = TRUE]
    /\ changed' = TRUE
    /\ UNCHANGED <<isOpen, readOnly, handles, writer, disk, pc, temp>>

FileErase(n) ==
    LET i == fmap[n]
        kept == [m \in DOMAIN fmap \ {n} |-> fmap[m]]
    IN /\ Ready /\ ~readOnly /\ Found(n)
       /\ \A h \in Handles : handles[h].open => PointsTo(h) # n
       /\ dir' = Without(dir, Count, i)
       /\ fmap' = MapFrom(kept, dir', i, Count - 1)
       /\ header' = [header EXCEPT !.count = Count - 1, !.needPack = TRUE]
       /\ changed' = TRUE
       /\ UNCHANGED <<isOpen, readOnly, handles, writer, disk, pc, temp>>

\* FileRename() does not look whether the new name is taken.
FileRename(n, m) ==
    LET i == fmap[n]
        kept == [k \in DOMAIN fmap \ {n} |-> fmap[k]]
    IN /\ Ready /\ ~readOnly /\ Found(n)
       /\ dir' = [dir EXCEPT ![i].name = m]
       /\ fmap' = [k \in DOMAIN kept \cup {m} |-> IF k = m THEN i ELSE kept[k]]
       /\ handles' = [h \in Handles |-> IF handles[h].idx = i /\ handles[h].name = n
                                        THEN [handles[h] EXCEPT !.name = m]
                                        ELSE handles[h]]
       /\ changed' = TRUE
       /\ UNCHANGED <<isOpen, readOnly, header, writer, disk, pc, temp>>

(***************************************************************************)
(* Pack(): flush, copy every file to a temporary drive, close, copy the    *)
(* temporary file over the disk file (not atomically), open it again.      *)
(***************************************************************************)
PackGuard == Ready /\ ~readOnly /\ header.needPack
\* Mutant: the new drive's data starts where that of the old one ends.
StartCopyAtEnd ==
    temp' = [next |-> 1, header |-> [FreshHeader EXCEPT !.userData = header.userData,
                                                        !.dirOffset = header.dirOffset],
             dir |-> NoDir, cells |-> NoCells]
StartCopy ==
    temp' = [next |-> 1, header |-> [FreshHeader EXCEPT !.userData = header.userData],
             dir |-> NoDir, cells |-> NoCells]

Pack == PackGuard /\ FlushDirectory("pack")
PackUnchanged ==
    /\ PackGuard /\ ~changed
    /\ StartCopy /\ pc' = "copy"
    /\ UNCHANGED <<memory, disk>>
PackHeader ==
    /\ pc = "pack"
    /\ WriteHeader /\ StartCopy /\ pc' = "copy"
    /\ UNCHANGED <<isOpen, readOnly, header, dir, fmap, handles, writer,
                   cells, diskDir>>

\* The temporary drive after newDrive.FileCopy() of the file n: over an entry
\* of that name it fits in, or at the end of the data.
CopyInto(v, n, t, contents, size) ==
    LET count == v.header.count
        same == {k \in 1 .. count : v.dir[k].name = n}
        k == IF same = {} THEN count + 1 ELSE CHOOSE i \in same : TRUE
        fits == same # {} /\ size <= v.dir[k].size
        at == IF fits THEN v.dir[k].offset ELSE v.header.dirOffset
        e == [name |-> n, time |-> t, offset |-> at, size |-> size]
        repack == same # {} /\ (~fits \/ size < v.dir[k].size)
    IN [next |-> v.next + 1,
        header |-> [v.header EXCEPT !.count = IF same = {} THEN count + 1 ELSE count,
                                    !.dirOffset = IF fits THEN @ ELSE at + size,
                                    !.needPack = @ \/ repack],
        dir |-> IF same = {} THEN Append1(v.dir, count, e) ELSE [v.dir EXCEPT ![k] = e],
        cells |-> [o \in Offsets |-> IF o \in at .. at + size - 1
                                     THEN contents[o - at + 1] ELSE v.cells[o]]]

\* One turn of Pack()'s loop: the file is looked up by its name, opened, and
\* copied (within the bound on offsets).
Copyable(n) == /\ Found(n)
               /\ temp.header.dirOffset + EntryOf(n).size - 1 <= MaxOffset

\* Mutant: the entry is copied itself, and not the file found under its name.
PackFileByIndex ==
    LET i == temp.next
    IN /\ pc = "copy" /\ i <= Count
       /\ Copyable(dir[i].name)
       /\ temp' = CopyInto(temp, dir[i].name, dir[i].time, Contents(dir[i], cells),
                           dir[i].size)
       /\ UNCHANGED <<memory, disk, pc>>

PackFile ==
    LET i == temp.next
        src == EntryOf(dir[i].name)
    IN /\ pc = "copy" /\ i <= Count
       /\ Copyable(dir[i].name)
       /\ temp' = CopyInto(temp, dir[i].name, dir[i].time,
                           Contents(src, cells), src.size)
       /\ UNCHANGED <<memory, disk, pc>>

\* FileOpen() fails for an entry whose name was taken over, or FileCopy() fails:
\* the temporary drive is deleted and Pack() gives up.
PackFails ==
    /\ pc = "copy" /\ temp.next <= Count /\ ~Copyable(dir[temp.next].name)
    /\ pc' = "idle" /\ temp' = NoTemp
    /\ UNCHANGED <<memory, disk>>

\* newDrive.Close(), Close(), and CopyFile() under way: what it has written is
\* a prefix of the temporary file, so at most the header can be recognised.
PackReplace ==
    /\ pc = "copy" /\ temp.next > Count
    /\ \E d \in Sorted(temp.dir, temp.header.count) :
          temp' = [next |-> temp.next, header |-> temp.header, dir |-> d,
                   cells |-> temp.cells]
    /\ CloseFiles
    /\ diskHeader' \in {NoFile, temp.header}
    /\ cells' = NoCells /\ diskDir' = NoDiskDir
    /\ pc' = "replace"
    /\ UNCHANGED <<readOnly, changed>>

\* CopyFile() is done and Open() reads the packed drive.
PackReopen ==
    /\ pc = "replace"
    /\ diskHeader' = temp.header /\ cells' = temp.cells
    /\ diskDir' = [at |-> temp.header.dirOffset, dir |-> temp.dir]
    /\ isOpen' = TRUE /\ changed' = FALSE
    /\ header' = temp.header /\ dir' = temp.dir
    /\ fmap' = MapFrom(fmap, temp.dir, 1, temp.header.count)
    /\ pc' = "idle" /\ temp' = NoTemp
    /\ UNCHANGED <<readOnly, handles, writer>>

PackSteps == \/ PackUnchanged \/ Pack \/ PackHeader \/ PackFile \/ PackFails
             \/ PackReplace \/ PackReopen

(***************************************************************************)
(* The interface used in any order by any client                           *)
(***************************************************************************)
Sizes == 0 .. MaxOffset
HandleSteps(h) ==
    \/ \E n \in Names, t \in Times : FileCreate(n, t, h)
    \/ \E n \in Names : FileOpen(n, h)
    \/ FileClose(h)
    \/ \E d \in Data : Write(h, d)
    \/ \E k \in Sizes : Read(h, k) \/ Seek(h, k) \/ SeekEnd(h, k) \/ SetLength(h, k)

Next ==
    \/ Construct \/ Create
    \/ \E ro \in BOOLEAN : Open(ro) \/ OpenFails(ro)
    \/ Flush \/ FlushHeader \/ Close \/ CloseUnchanged \/ CloseHeader
    \/ \E h \in Handles : HandleSteps(h)
    \/ \E n \in Names : FileErase(n)
    \/ \E n, m \in Names : FileRename(n, m)
    \/ \E n \in Names, t \in Times : SetTimeStamp(n, t)
    \/ \E v \in 0 .. MaxUserData : SetHeaderUserData(v)
    \/ PackSteps

Spec == DriveInit /\ [][Next]_driveVars

(***************************************************************************)
(* Properties of the interface                                             *)
(***************************************************************************)
Directory(n) == [1 .. n -> Entry]

\* The types of the drive's state; an open drive's directory has exactly the
\* entries its header counts (m_dir.SetCount in VirtualDrive.cpp).
TypeOK ==
    /\ isOpen \in BOOLEAN /\ readOnly \in BOOLEAN /\ changed \in BOOLEAN
    /\ header \in Header /\ diskHeader \in Header
    /\ IF isOpen THEN dir \in Directory(Count) ELSE dir = NoDir /\ fmap = NoMap
    /\ DOMAIN fmap \subseteq Names \cup {JunkName}
    /\ handles \in [Handles -> Handle]
    /\ writer \in Handles \cup {NoHandle}
    /\ cells \in [Offsets -> Data \cup {Empty}]
    /\ diskDir.at \in Nat
    /\ \A i \in DOMAIN diskDir.dir : diskDir.dir[i] \in Entry
    /\ temp.next \in Nat \ {0} /\ temp.header \in Header
    /\ temp.dir \in Directory(temp.header.count)
    /\ temp.cells \in [Offsets -> Data \cup {Empty}]
    /\ pc \in {"idle", "flush", "close", "pack", "copy", "replace"}

\* A name the filename map knows leads to the directory entry of that name,
\* whatever was created, erased, renamed, sorted by Flush() or packed: the
\* index held by m_filenameMap is never stale (VirtualDrive.cpp:356, 634).
MapSound ==
    isOpen => \A n \in DOMAIN fmap : /\ fmap[n] \in 1 .. Count
                                     /\ dir[fmap[n]].name = n

\* While Pack() copies, the temporary drive holds for every file already copied
\* exactly what the drive being packed holds under that name.
PackKeepsContents ==
    pc = "copy" =>
        \A i \in 1 .. temp.next - 1 :
            \E k \in 1 .. temp.header.count :
                LET new == temp.dir[k]
                    old == EntryOf(dir[i].name)
                IN /\ new.name = dir[i].name
                   /\ Contents(new, temp.cells) = Contents(old, cells)

\* "Packs a virtual drive, removing all unused space" (VirtualDrive.cpp:776):
\* the packed drive has no cell between the header and the directory that
\* belongs to no file.
PackLeavesNoHole ==
    pc = "replace" =>
        \A o \in HeaderEnd .. temp.header.dirOffset - 1 :
            \E k \in 1 .. temp.header.count : o \in Extent(temp.dir[k])

=============================================================================
