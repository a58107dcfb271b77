----------------------------- MODULE TagDatabase -----------------------------
(***************************************************************************)
(* The tag database of one project: WorkspaceTags::Save() and              *)
(* LoadProjectTags() (Src/WWhizInterface/WorkspaceTags.cpp) as the client  *)
(* of a virtual drive that keeps one virtual file of tags per source file, *)
(* with crashes of the program between any two writes to the disk; the     *)
(* directory counts as one write.                                          *)
(*                                                                         *)
(* The version of a source file is its modification time; the tags parsed  *)
(* from version v of n are the cells <<n, v, 1>>, <<n, v, 2>> ...           *)
(*                                                                         *)
(* Refresh() takes over the file's time stamp when it detects a change,    *)
(* and its tags when it parses what Ctags has read.  In between the user   *)
(* may cancel, Ctags fail and the file change; a refresh is here a refresh *)
(* of one file, module TagRefresh has the others.                          *)
(***************************************************************************)
EXTENDS VirtualDrive, Sequences, SequencesExt

CONSTANTS
    MaxTime,       \* bound: versions of a source file
    TagCount,      \* TagCount[n][v]: how many tags version v of file n has
    PackAmount,    \* GetTagAutoPackAmount()
    AutoRefresh,   \* GetAutoRefreshTags()
    Changing,      \* bound: the files that change, and that a refresh may leave unread
    MaxUnread,     \* bound: how many versions a refresh may leave unread
    Crashes,       \* whether the program may crash
    OldFormat      \* whether the disk starts with a database of an older version

ASSUME DatabaseAssumption ==
    /\ IsFiniteSet(Names)
    /\ MaxTime \in Nat \ {0} /\ Times = 0 .. MaxTime
    /\ \A n \in Names : /\ TagCount[n] \in [Times -> Nat]
                        /\ TagCount[n][0] = 0
    /\ PackAmount \in 0 .. MaxUserData /\ MaxUnread \in Nat
    /\ AutoRefresh \in BOOLEAN /\ Crashes \in BOOLEAN /\ OldFormat \in BOOLEAN
    /\ OldFormat => Cardinality(Names) <= MaxOffset

FormatCell == <<0, 1, 0>>      \* the magic "WWIF" and FILE_FORMAT_VERSION
OldCell == <<0, 0, 0>>         \* "WWIF" and an older version
Tags(n, v) == [k \in 1 .. TagCount[n][v] |-> <<n, v, k>>]
TagCells == UNION {{<<n, v, k>> : k \in 1 .. TagCount[n][v]} : n \in Names, v \in Times}

ASSUME CellAssumption == Data = {FormatCell, OldCell} \cup TagCells

VARIABLES
    src,      \* source file -> its modification time
    files,    \* the project's file list
    mem,      \* File objects: the time stamp, the tag buffer, and the length of
              \* the tag list
    queued,   \* s_filenameList: the files an interrupted refresh has left in it
    job,      \* "none", or the part of Refresh(), Save() or LoadProjectTags()
              \* that is next
    todo,     \* Save(): the files the loop has still to look at
    cur,      \* Save(): the file being copied; Refresh(): the file being parsed
    created,  \* Save(): createdDrive
    early,    \* Save(): earlyExit
    numTags,  \* Save(): numChangedTags
    idx,      \* LoadProjectTags(): i + 1
    limit,    \* LoadProjectTags(): fileCount
    unpacked, \* history: the tags written since the drive was packed or created,
              \* as the code counts them, up to MaxUserData; kept at 0 when the
              \* program may crash
    unread    \* history: pairs <<n, v>>, a refresh ended with the time stamp v
              \* in file n and had not read the tags of that version

saveVars == <<todo, cur, created, early, numTags>>
loadVars == <<idx, limit>>
refreshVars == <<queued, unread>>
clientVars == <<src, files, mem, refreshVars, job, saveVars, loadVars, unpacked>>
vars == <<driveVars, clientVars>>

Unparsed == [time |-> 0, tags |-> << >>, count |-> 0]
Listed(v, t) == [time |-> v, tags |-> t, count |-> Len(t)]
\* The locals of Save() and of LoadProjectTags() are gone.
EndSave == /\ todo' = {} /\ cur' = 0 /\ created' = FALSE
           /\ early' = FALSE /\ numTags' = 0
EndLoad == idx' = 1 /\ limit' = 0

\* A database an older version of the program has written: every file, each one
\* cell long.
OldDatabase ==
    LET order == CHOOSE s \in SetToSeqs(Names) : \A i, j \in DOMAIN s : i < j => s[i] < s[j]
        N == Cardinality(Names)
        end == HeaderEnd + N
    IN /\ diskHeader = [FreshHeader EXCEPT !.count = N, !.dirOffset = end]
       /\ cells = [o \in Offsets |-> IF o < end THEN OldCell ELSE Empty]
       /\ diskDir = [at |-> end,
                     dir |-> [i \in 1 .. N |-> [name |-> order[i], time |-> 1,
                                                offset |-> HeaderEnd + i - 1, size |-> 1]]]

Init ==
    /\ isOpen = FALSE /\ readOnly = FALSE /\ changed = FALSE
    /\ header = FreshHeader /\ dir = NoDir /\ fmap = NoMap
    /\ handles = AllClosed /\ writer = NoHandle
    /\ pc = "idle" /\ temp = NoTemp
    /\ IF OldFormat THEN OldDatabase
       ELSE diskHeader = NoFile /\ cells = NoCells /\ diskDir = NoDiskDir
    /\ src = [n \in Names |-> 1] /\ files = Names
    /\ mem = [n \in Names |-> Unparsed] /\ queued = {} /\ unread = {}
    /\ job = "none" /\ todo = {} /\ cur = 0 /\ created = FALSE
    /\ early = FALSE /\ numTags = 0 /\ idx = 1 /\ limit = 0 /\ unpacked = 0

(***************************************************************************)
(* The source files, the project, and the tags in memory                   *)
(***************************************************************************)
\* Bound: this refresh may leave the version unread.
MayMiss(n) == n \in Changing /\ Cardinality(unread) < MaxUnread

\* The user saves the source file; its modification time only ever grows.  Bound:
\* the file Ctags is about to read changes only when it may be left unread.
Edit(n) ==
    /\ n \in Changing /\ src[n] < MaxTime
    /\ job = "parse" /\ n = cur => MayMiss(n)
    /\ src' = [src EXCEPT ![n] = @ + 1]
    /\ UNCHANGED <<driveVars, files, mem, refreshVars, job, saveVars, loadVars, unpacked>>

\* WorkspaceTags::Refresh() finds the file changed: it takes over the time stamp
\* and empties the tag list; the tag buffer stays.
Detect(n) ==
    /\ job = "none" /\ n \in files /\ mem[n].time # src[n]
    /\ mem' = [mem EXCEPT ![n].time = src[n], ![n].count = 0]
    /\ cur' = n /\ job' = "parse"
    /\ UNCHANGED <<driveVars, src, files, refreshVars, todo, created, early, numTags,
                   loadVars, unpacked>>

\* It finds the file in s_filenameList, where an interrupted refresh has left it.
Requeued(n) ==
    /\ job = "none" /\ n \in files \cap queued
    /\ cur' = n /\ job' = "parse"
    /\ UNCHANGED <<driveVars, src, files, mem, refreshVars, todo, created, early,
                   numTags, loadVars, unpacked>>

ParseEnd == /\ job = "parse" /\ job' = "none" /\ cur' = 0
            /\ UNCHANGED <<driveVars, src, files, todo, created, early, numTags,
                           loadVars, unpacked>>
Stamp == <<cur, mem[cur].time>>
NoteUnread == MayMiss(cur) /\ unread' = unread \cup {Stamp}

\* Ctags reads the file as it is now, and ParseTextTags() takes over its tags.
Parse ==
    /\ ParseEnd
    /\ mem' = [mem EXCEPT ![cur] = Listed(mem[cur].time, Tags(cur, src[cur]))]
    /\ queued' = queued \ {cur}
    /\ unread' = IF src[cur] = mem[cur].time THEN unread ELSE unread \cup {Stamp}

\* Ctags died before it came to the file or a file whose path is part of this one's
\* took its lines, or it takes those of another file as well.
Misparse ==
    /\ ParseEnd /\ NoteUnread
    /\ \E tags \in {<< >>} \cup {Tags(cur, src[cur]) \o Tags(m, src[m]) : m \in Names \ {cur}} :
          mem' = [mem EXCEPT ![cur] = Listed(mem[cur].time, tags)]
    /\ queued' = queued \ {cur}

\* The user cancels, Ctags is missing, or its output is empty: the file keeps its
\* old tag buffer under the new time stamp.  It stays in s_filenameList when the
\* function returned or was cancelled before ParseTextTags().
NotParsed ==
    /\ ParseEnd /\ NoteUnread
    /\ queued' \in {queued \ {cur}, queued \cup {cur}}
    /\ UNCHANGED mem

\* The project file changed: the file leaves it, or joins it as a new File.  (The
\* pointer s_filenameList may have to the old one is left out.)
ChangeProject(n) ==
    /\ job = "none" /\ n \in Changing
    /\ files' = IF n \in files THEN files \ {n} ELSE files \cup {n}
    /\ mem' = [mem EXCEPT ![n] = Unparsed] /\ queued' = queued \ {n}
    /\ UNCHANGED <<driveVars, src, job, saveVars, loadVars, unpacked, unread>>

\* WorkspaceTags::RemoveAll() empties the tag lists and leaves the tag buffers.
RemoveAll ==
    /\ job = "none"
    /\ mem' = [n \in Names |-> IF n \in files THEN [mem[n] EXCEPT !.time = 0, !.count = 0]
                                               ELSE mem[n]]
    /\ UNCHANGED <<driveVars, src, files, refreshVars, job, saveVars, loadVars, unpacked>>

(***************************************************************************)
(* WorkspaceTags::Save()                                                   *)
(***************************************************************************)
FileSize(n) == 1 + Len(mem[n].tags)
FileContents(n) == <<FormatCell>> \o mem[n].tags
AtMost(k, bound) == IF k <= bound THEN k ELSE bound

\* Bound: a Save() that does not truncate starts only when the data it may
\* append stays below MaxOffset.
OnDisk(n) == \E i \in DOMAIN diskDir.dir :
                diskDir.dir[i].name = n /\ diskDir.dir[i].time = mem[n].time
RoomToSave ==
    LET toWrite == {n \in files : ~OnDisk(n)}
    IN Openable => diskHeader.dirOffset + MapThenSumSet(FileSize, toWrite) - 1 <= MaxOffset

\* A project with files: the drive is created anew, or opened.
SaveStart(forceSave) ==
    /\ job = "none" /\ files # {} /\ (forceSave \/ RoomToSave)
    /\ Construct
    /\ job' = IF forceSave THEN "saveCreate" ELSE "saveOpen"
    /\ UNCHANGED <<src, files, refreshVars, mem, saveVars, loadVars, unpacked>>

\* Without files its database is deleted.
SaveUnlink ==
    /\ job = "none" /\ files = {}
    /\ diskHeader' = NoFile /\ cells' = NoCells /\ diskDir' = NoDiskDir
    /\ unpacked' = 0
    /\ UNCHANGED <<memory, pc, temp, src, files, refreshVars, mem, job, saveVars, loadVars>>

SaveBegin(isNew) ==
    /\ created' = isNew /\ early' = FALSE /\ cur' = 0
    /\ todo' = files /\ numTags' = header'.userData
    /\ unpacked' = IF isNew THEN 0 ELSE unpacked
    /\ job' = "saveFile"
    /\ UNCHANGED <<src, files, refreshVars, mem, loadVars>>

SaveOpen == job = "saveOpen" /\ Open(FALSE) /\ SaveBegin(FALSE)
SaveCreate == job = "saveCreate" /\ Create /\ SaveBegin(TRUE)
SaveOpenFails ==
    /\ job = "saveOpen" /\ OpenFails(FALSE)
    /\ job' = "saveCreate"
    /\ UNCHANGED <<src, files, refreshVars, mem, saveVars, loadVars, unpacked>>

FirstFile(n) == n \in todo /\ \A m \in todo : n <= m      \* the loop's next file
UpToDateByName(n) == Found(n)           \* mutant: the time stamps are not compared
UpToDate(n) == Found(n) /\ EntryOf(n).time = mem[n].time

SaveSkip(n) ==
    /\ job = "saveFile" /\ FirstFile(n) /\ UpToDate(n)
    /\ todo' = todo \ {n}
    /\ UNCHANGED <<driveVars, src, files, refreshVars, mem, job, cur, created, early, numTags,
                   loadVars, unpacked>>

FitsAlmost(n) == FileSize(n) <= EntryOf(n).size + 1     \* mutant: off by one
Fits(n) == FileSize(n) <= EntryOf(n).size
NotePackNever(shrinks) == header' = header              \* mutant: forgotten
NotePack(shrinks) == header' = [header EXCEPT !.needPack = @ \/ shrinks]

\* FileCopy() over the file's old data, which is long enough.
CopyInPlace(n, h) ==
    LET i == fmap[n]
        size == FileSize(n)
    IN /\ Ready /\ ~readOnly
       /\ Found(n) /\ Fits(n)
       /\ OpenHandle(h, n, i)
       /\ dir' = [dir EXCEPT ![i].time = mem[n].time, ![i].size = size]
       /\ NotePack(size < dir[i].size)
       /\ changed' = TRUE
       /\ UNCHANGED <<isOpen, readOnly, fmap, writer, disk, pc, temp>>
\* FileCopy() to the end of the drive.
CopyToEnd(n, h) ==
    /\ Found(n) => ~Fits(n)
    /\ FileCreate(n, mem[n].time, h)

\* The tag callback returns FALSE when the user cancels.
SaveFile(n, h) ==
    /\ job = "saveFile" /\ FirstFile(n) /\ ~UpToDate(n)
    /\ CopyInPlace(n, h) \/ CopyToEnd(n, h)
    /\ early' \in BOOLEAN
    /\ cur' = n /\ job' = "saveWrite"
    /\ UNCHANGED <<src, files, refreshVars, mem, todo, created, numTags, loadVars, unpacked>>

\* The loop of FileCopy(), a cell at a time, and its Close().
SaveWrite(h) ==
    /\ job = "saveWrite" /\ handles[h].open /\ handles[h].pos < FileSize(cur)
    /\ Write(h, FileContents(cur)[handles[h].pos + 1])
    /\ UNCHANGED clientVars
SaveFileClose(h) ==
    /\ job = "saveWrite" /\ handles[h].open /\ handles[h].pos = FileSize(cur)
    /\ FileClose(h)
    /\ numTags' = AtMost(numTags + mem[cur].count, MaxUserData)
    /\ unpacked' = IF Crashes THEN 0 ELSE AtMost(unpacked + mem[cur].count, MaxUserData)
    /\ todo' = IF early THEN {} ELSE todo \ {cur}
    /\ job' = "saveFile"
    /\ UNCHANGED <<src, files, refreshVars, mem, cur, created, early, loadVars>>

\* After the loop: pack the drive, or count the tags in its header.  The sum,
\* a DWORD in the code, stops growing at the bound MaxUserData.
TimeToPack == ~created /\ numTags >= PackAmount /\ ~early

SavePack ==
    /\ job = "saveFile" /\ todo = {} /\ TimeToPack
    /\ IF header.needPack THEN Pack \/ PackUnchanged ELSE UNCHANGED driveVars
    /\ job' = "savePacked"
    /\ UNCHANGED <<src, files, refreshVars, mem, saveVars, loadVars, unpacked>>
SavePacking ==
    /\ job = "savePacked"
    /\ PackHeader \/ PackFile \/ PackFails \/ PackReplace \/ PackReopen
    /\ UNCHANGED clientVars
SavePacked ==
    /\ job = "savePacked" /\ SetHeaderUserData(0)
    /\ job' = "saveClose" /\ unpacked' = 0
    /\ UNCHANGED <<src, files, refreshVars, mem, saveVars, loadVars>>
CountedTags == IF created THEN 0 ELSE AtMost(header.userData + numTags, MaxUserData)
\* Mutant: a Save() the user cancels does not count what it wrote.
SaveCountUnlessEarly ==
    /\ job = "saveFile" /\ todo = {} /\ ~TimeToPack
    /\ SetHeaderUserData(IF early THEN header.userData ELSE CountedTags)
    /\ job' = "saveClose"
    /\ unpacked' = IF created THEN 0 ELSE unpacked
    /\ UNCHANGED <<src, files, refreshVars, mem, saveVars, loadVars>>
SaveCount ==
    /\ job = "saveFile" /\ todo = {} /\ ~TimeToPack
    /\ SetHeaderUserData(CountedTags)
    /\ job' = "saveClose"
    /\ unpacked' = IF created THEN 0 ELSE unpacked
    /\ UNCHANGED <<src, files, refreshVars, mem, saveVars, loadVars>>

SaveClose == job = "saveClose" /\ Close /\ UNCHANGED clientVars
SaveClosed ==
    /\ job = "saveClose" /\ CloseHeader
    /\ job' = "none" /\ EndSave
    /\ UNCHANGED <<src, files, refreshVars, mem, loadVars, unpacked>>

(***************************************************************************)
(* WorkspaceTags::LoadProjectTags()                                        *)
(***************************************************************************)
LoadStart ==
    /\ job = "none" /\ Construct
    /\ job' = "loadOpen"
    /\ UNCHANGED <<src, files, refreshVars, mem, saveVars, loadVars, unpacked>>
LoadOpen(ro) ==
    /\ job = "loadOpen" /\ Open(ro)
    /\ idx' = 1 /\ limit' = header'.count
    /\ job' = "loadFile"
    /\ UNCHANGED <<src, files, refreshVars, mem, saveVars, unpacked>>
LoadFails(ro) ==
    /\ job = "loadOpen" /\ OpenFails(ro)
    /\ job' = "none"
    /\ UNCHANGED <<src, files, refreshVars, mem, saveVars, loadVars, unpacked>>

LoadEntry == dir[idx]
LoadFile == job = "loadFile" /\ Ready /\ idx <= limit
\* What the virtual file opened under the entry's name holds.
LoadContents == Contents(EntryOf(LoadEntry.name), cells)
GoodFormat == LoadContents # << >> /\ LoadContents[1] = FormatCell

\* Mutant: the time stamps are not compared.
NotLoadedByName == ~Found(LoadEntry.name) \/ LoadEntry.name \notin files
\* The entry is not to be loaded: it cannot be opened, it is not in the project,
\* or its time stamp is not the source file's.
NotLoaded ==
    \/ ~Found(LoadEntry.name)
    \/ LoadEntry.name \notin files
    \/ AutoRefresh /\ LoadEntry.time # src[LoadEntry.name]

LoadSkip ==
    /\ LoadFile /\ NotLoaded
    /\ idx' = idx + 1
    /\ UNCHANGED <<driveVars, src, files, refreshVars, mem, job, saveVars, limit, unpacked>>

\* Mutant: the limit only moves when the entry is really erased.
LoadEraseKeepsLimit ==
    LET n == LoadEntry.name
    IN /\ LoadFile /\ ~NotLoaded /\ ~GoodFormat
       /\ mem' = [mem EXCEPT ![n].tags = << >>, ![n].count = 0]
       /\ IF readOnly THEN UNCHANGED <<driveVars, limit>>
                      ELSE FileErase(n) /\ limit' = limit - 1
       /\ UNCHANGED <<src, files, refreshVars, job, saveVars, idx, unpacked>>

\* A file of another format is erased, if the drive is not read-only, and the
\* same index is looked at again.
LoadErase ==
    LET n == LoadEntry.name
    IN /\ LoadFile /\ ~NotLoaded /\ ~GoodFormat
       /\ mem' = [mem EXCEPT ![n].tags = << >>, ![n].count = 0]
       /\ IF readOnly THEN UNCHANGED driveVars ELSE FileErase(n)
       /\ limit' = limit - 1
       /\ UNCHANGED <<src, files, refreshVars, job, saveVars, idx, unpacked>>

\* ReadTags() accepts the tags of some version of a file, and may reject any
\* other bytes: it then clears the tags and the time stamp stays.
WellFormed(tags) == \E m \in Names, v \in Times : tags = Tags(m, v)
LoadTags ==
    LET n == LoadEntry.name
        tags == SubSeq(LoadContents, 2, Len(LoadContents))
    IN /\ LoadFile /\ ~NotLoaded /\ GoodFormat
       /\ \/ mem' = [mem EXCEPT ![n] = Listed(LoadEntry.time, tags)]
          \/ ~WellFormed(tags) /\ mem' = [mem EXCEPT ![n].tags = << >>, ![n].count = 0]
       /\ idx' = idx + 1
       /\ UNCHANGED <<driveVars, src, files, refreshVars, job, saveVars, limit, unpacked>>

\* ~VirtualDrive() closes the drive when the function returns.
LoadEnd ==
    /\ job = "loadFile" /\ idx > limit
    /\ \/ CloseUnchanged /\ job' = "none" /\ EndLoad
       \/ Close /\ job' = "loadClose" /\ UNCHANGED loadVars
    /\ UNCHANGED <<src, files, refreshVars, mem, saveVars, unpacked>>
LoadClosed ==
    /\ job = "loadClose" /\ CloseHeader
    /\ job' = "none" /\ EndLoad
    /\ UNCHANGED <<src, files, refreshVars, mem, saveVars, unpacked>>

(***************************************************************************)
(* A crash loses all memory and nothing that was written                   *)
(***************************************************************************)
Crash ==
    /\ Crashes /\ job # "none"
    /\ CloseFiles /\ readOnly' = FALSE /\ changed' = FALSE
    /\ pc' = "idle" /\ temp' = NoTemp
    /\ mem' = [n \in Names |-> Unparsed] /\ queued' = {}
    /\ job' = "none" /\ EndSave /\ EndLoad
    /\ UNCHANGED <<disk, src, files, unpacked, unread>>

SaveSteps ==
    \/ \E forceSave \in BOOLEAN : SaveStart(forceSave)
    \/ SaveUnlink

RefreshSteps ==
    \/ \E n \in Names : Detect(n) \/ Requeued(n)
    \/ Parse \/ Misparse \/ NotParsed

\* What the program goes on to do by itself once a Save() or a load has begun.
JobSteps ==
    \/ SaveOpen \/ SaveCreate \/ SaveOpenFails
    \/ \E n \in Names : SaveSkip(n) \/ \E h \in Handles : SaveFile(n, h)
    \/ \E h \in Handles : SaveWrite(h) \/ SaveFileClose(h)
    \/ SavePack \/ SavePacking \/ SavePacked \/ SaveCount
    \/ SaveClose \/ SaveClosed
    \/ \E ro \in BOOLEAN : LoadOpen(ro) \/ LoadFails(ro)
    \/ LoadSkip \/ LoadErase \/ LoadTags \/ LoadEnd \/ LoadClosed

TagNext ==
    \/ \E n \in Names : Edit(n) \/ ChangeProject(n)
    \/ RefreshSteps \/ RemoveAll \/ SaveSteps \/ LoadStart
    \/ JobSteps
    \/ Crash

TagSpec == Init /\ [][TagNext]_vars /\ WF_vars(JobSteps)

(***************************************************************************)
(* Properties                                                              *)
(***************************************************************************)
TagTypeOK ==
    /\ TypeOK
    /\ src \in [Names -> Times] /\ files \subseteq Names
    /\ \A n \in Names : /\ mem[n].time \in Times /\ mem[n].count \in Nat
                        /\ \A k \in 1 .. Len(mem[n].tags) : mem[n].tags[k] \in Data
    /\ queued \subseteq Names /\ unread \subseteq Names \X Times
    /\ job \in {"none", "parse", "saveOpen", "saveCreate", "saveFile", "saveWrite",
                "savePacked", "saveClose", "loadOpen", "loadFile", "loadClose"}
    /\ todo \subseteq files /\ cur \in Names \cup {0}
    /\ created \in BOOLEAN /\ early \in BOOLEAN
    /\ numTags \in 0 .. MaxUserData
    /\ idx \in Nat \ {0} /\ limit \in Int
    /\ unpacked \in 0 .. MaxUserData

\* No refresh was interrupted between taking over the time stamp v of the file
\* and parsing that version, nor is one between the two now.
WasRead(n, v) == <<n, v>> \notin unread /\ ~(job = "parse" /\ cur = n)

\* The tags of a file in memory are those of the version its time stamp names,
\* whatever was saved over what, and wherever a Save() was interrupted: no tags
\* torn between two versions are ever loaded (WorkspaceTags.cpp:2433, the test
\* of the time stamps).  A time stamp that a refresh took over without parsing
\* that version (2639, and the returns before 1922) promises nothing: Save()
\* writes the old buffer under it, and a load believes it.
TagsMatchTime ==
    \A n \in files : mem[n].time # 0 /\ WasRead(n, mem[n].time) =>
        mem[n].tags = Tags(n, mem[n].time) /\ mem[n].count = Len(mem[n].tags)

\* The entries of the project's drive never share a cell, and none reaches into
\* the directory, except the file being written, which is the last one.
FilesDisjoint ==
    isOpen =>
        \A i \in 1 .. Count :
            dir[i].name # JunkName =>
               /\ \A j \in 1 .. Count \ {i} :
                     dir[j].name = JunkName \/ Extent(dir[i]) \cap Extent(dir[j]) = {}
               /\ \/ \A o \in Extent(dir[i]) : o < header.dirOffset
                  \/ \E h \in Handles : h = writer /\ handles[h].idx = i

\* Space that belongs to no file is always noted in m_needPack, so that Pack()
\* does not decline to remove it.
NeedPackCoversHoles ==
    isOpen /\ ~header.needPack =>
        \A o \in HeaderEnd .. header.dirOffset - 1 :
            \E i \in 1 .. Count : o \in Extent(dir[i])

\* The tags written over or behind old ones since the drive was last packed or
\* created are all counted in its header, through cancelled saves and any number
\* of sessions: Save() packs at the latest when they reach PackAmount.  (It may
\* pack earlier: WorkspaceTags.cpp:2210 adds the header's count to itself.)
PackNotLate ==
    job = "none" /\ Openable => diskHeader.userData >= unpacked

\* A Save() the user does not cancel leaves on disk, for every file of the
\* project that has been parsed, its tags under its time stamp: the next Open()
\* finds them.  A time stamp that was saved without its version's tags is found
\* up to date when these are parsed later, and is not saved again.
Saved(n) ==
    \E i \in 1 .. diskHeader.count :
        LET e == diskDir.dir[i]
        IN /\ e.name = n /\ e.time = mem[n].time
           /\ Contents(e, cells) = FileContents(n)
SaveIsDurable ==
    [][SaveClosed /\ ~early => Openable' /\
          \A n \in files : mem[n].time # 0 /\ WasRead(n, mem[n].time) => Saved(n)']_vars

(***************************************************************************)
(* The database implements TagStore                                        *)
(***************************************************************************)
\* The entries a load of the drive on disk would look at.
LoadableEntries ==
    IF Openable THEN {diskDir.dir[i] : i \in 1 .. AtMost(diskHeader.count, Len(diskDir.dir))}
                ELSE {}

\* What LoadProjectTags() would find on disk for the file, were it to run now.
OnDiskTags(n) ==
    LET loadable == {e \in LoadableEntries :
                        /\ e.name = n /\ e.time = src[n]
                        /\ e.size > 0 /\ Contents(e, cells)[1] = FormatCell}
    IN {SubSeq(Contents(e, cells), 2, e.size) : e \in loadable}

Store == INSTANCE TagStore WITH held <- [n \in Names |-> mem[n].time],
                                skipped <- unread,
                                stored <- [n \in Names |-> OnDiskTags(n)]

\* Wherever a Save(), a Pack() or the program stops, the disk holds for every
\* source file the tags of its present version or none, unless a refresh took over
\* the version's time stamp and did not parse it; and a Save() gives up only what
\* the program holds other tags of, or all for a while.  The order in which
\* VirtualDrive writes data, directory and header, and in which Save() takes over
\* time stamps, is what makes it so.
NeverLies == Store!StoreSpec

\* A Save() and a load of the tags end: the loop over the entries that moves its
\* limit when it erases one does not run forever, even on a read-only drive.
JobEnds == job \notin {"none", "parse"} ~> job = "none"
=============================================================================
