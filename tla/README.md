# Workspace Whiz in TLA+

Workspace Whiz is an add-in for Visual C++ 6 and Visual Studio .NET: it knows every file of the
workspace and every tag (function, class, member...) in those files, jumps to them, and keeps a
history of the jumps. This directory is a verification project for it: TLA+ modules for the parts
that hold state over time, TLC runs that check them on small instances, and proofs that the TLAPS
proof system checks for all values of the constants. All paths below are relative to the
repository; `Src/` is its source directory.

## 1. Inventory

| Component | Source | State it keeps | Operations | Here |
|---|---|---|---|---|
| Virtual drive | `Src/Shared/VirtualDrive.*`, `VirtualFile.*` | header, directory, filename map, open files, the one file being created, a "changed" flag; header, cells and directory on disk | Create, Open, Flush, Close, FileCreate, FileOpen, FileClose, FileErase, FileRename, FileCopy, Pack; Read, Write, Seek, SetLength | `VirtualDrive`, `VirtualDriveProofs` |
| Tag database | `Src/WWhizInterface/WorkspaceTags.cpp`: `Save`, `LoadProjectTags` | one drive per project, `.wwdb`; per source file its time stamp and serialized tags | load the tags when a workspace opens, save after a refresh and when it closes | `TagDatabase`, `TagStore`, `TagDatabaseProofs` |
| Tag refresh | the same file: `Refresh`, `ParseTextTags`, `AddChangedFile`, `CheckActiveFilesForChanges` | changed-file map, queue of files for Ctags, per file: time stamp, last check, tag list, tag buffer | detect changes, run Ctags, parse its output, cancel | `TagRefresh`, `TagRefreshProofs` |
| Navigation history | `Src/WorkspaceWhiz/History.cpp`, `HistoryDialog.cpp`, `WWhizCommands.cpp` | the list of places and the position in it | PreAdd, Add, UndoAdd, Back, Forward, Goto, Reset | `History`, `Navigation`, `NavigationProofs` |
| Workspace, projects, files | `Src/WWhizInterface/WorkspaceInfo.cpp`, `ProjectList.cpp`, `FileList.cpp` | project list, per-project file lists with reference counts, global file map, active file list | add, refresh and remove projects read from `.dsw`, `.sln` and project files; set active; extra files; next and previous file of a name | `Workspace`, `FileSearch`, `WorkspaceProofs`, `NavigationProofs` |
| Tag list and searches | `Src/WWhizInterface/TagList.cpp`, `WorkspaceTags.cpp`: `MatchTag`, `MatchBuddies` | sorted list of all tags; each tag's buddy and its links to the next and previous match | sort, pair declarations with implementations, match a query | `TagMatch`, `WildMatch`, `Navigation`, `NavigationProofs` |
| Compiler include files | `Src/WWhizInterface/CompilerFiles.cpp` | a file list read from directories named in the registry | refresh | not modelled: I/O |
| Interface library | `Src/WWhizInterface/WWhizInterface*.cpp`, `Config.cpp` | settings | forwards calls | its settings are constants |
| Drive manager, drive compiler | `Src/Shared/VirtualDriveManager.cpp`, `VirtualDriveCompiler.cpp` | list of open drives | search in order | not modelled: the first has no client, the second is not built |
| Globbing, XML, CRC | `Src/Shared/FileGlobBase.cpp`, `Node.cpp`, `XmlData.cpp`, `crc32.cpp` | a list of files found | find the files of a pattern | `FileGlob`, `WildMatch`, `FileGlobProofs`; XML and CRC not modelled |
| Commands and dialogs | `Src/WorkspaceWhiz/` | what the user sees | call the parts above | `Navigation`: those that move the user |
| Template manager | `Src/WWhizTemplateManager/`, the two template dialogs of `Src/WorkspaceWhiz/` | template groups read from files, with time stamps and the user's choice; the registry's list | add, remove, refresh, load, save; run a template | `Templates`, `TemplateCode`, `TemplatesProofs` |
| Template commands | `Src/WWhizTemplates/` | none | generate text | not modelled |
| Registration | `Src/WWhizReg/` | extra-files list; a helper thread that is never started (`WWhizReg.cpp:157`) | | its `GotoTag` in `Navigation`, the list in `Workspace` |
| Samples, helper, directory picker | `Src/Samples/`, `Src/WWhizInterfaceHelper/`, `Src/WWhizPickDirTemplate/` | none | clients of the interface | not modelled |
| Vendored | `Src/sqlite/`, `Src/3rdParty/` | | | not modelled |

**How they interact.** A workspace is opened: `WorkspaceInfo` builds the project and file lists,
`WorkspaceTags::LoadProjectTags` opens each project's `.wwdb` through a `VirtualDrive` and gives a
`File` the tags stored under its name, if the stored time stamp is the one of the source file.
While the user works, the editor reports saved files to `AddChangedFile`; when a dialog opens,
`Refresh` looks for changed modification times, queues those files for Ctags, and parses its
output into the files' tag lists and into the *tag buffers*, the bytes that `Save` later writes.
The callbacks of a refresh pump window messages, so the user's actions come in between, and they may
cancel it. `Save` writes the buffers of files whose entry in the drive has another time stamp, and
now and then packs the drive. A search matches a query against the sorted list of all tags and links
its matches, so that the next and the previous one can be asked for; a jump to a tag or a file goes
through the history. The template dialogs and the completion of a keyword refresh the template
groups from their files first; the list of groups is kept in the registry.

**What is hard here.** Nothing is concurrent except Ctags, the editor and other
programs that write the files. The difficulty is (a) a file format that is updated in place, by a program that may die, in
an IDE that may die; (b) indices into a directory that is compacted and sorted under them; (c) time
stamps, in whole seconds, as the only evidence that tags are those of a file; (d) time stamps that
are taken before the work they stand for is done, in a job that can be cancelled or fail at several
places; (e) a bounded history edited from both ends; (f) file objects counted by hand in four kinds of
containers, and lists that are built again only if every change of a project was noted; (g) searches that stop early in a list whose order is not that
of the comparison, and links between tags that outlive the search; (h) indices and pointers to template
groups that are kept in dialogs while the groups change.

**What makes each component correct.**
- Virtual drive: the filename map agrees with the directory; the directory agrees with the header;
  files do not overlap; packing loses nothing and leaves no hole; closing loses nothing.
- Tag database: tags loaded under a time stamp are the tags of that version; what a completed save
  wrote is found again; a save or a load ends.
- Tag refresh: a file's tags are those of its present version once it has been refreshed; what is
  saved is what is shown; a file's tags are its own.
- History: Back after a jump leads to where one was, the list stays within its limit, the position
  is always in the list.
- Searches: a search finds every tag it stands for; the matches form a ring; a declaration and its
  implementation point to each other; stepping through the files of a name reaches all of them.
- Templates: a group keeps the user's choice over restarts; after a refresh it shows its file; the
  code's conditions decide what is put out.
- Globbing: a pattern finds the files it stands for, each of them and no others.
- Workspace: a file is deleted when nothing holds it and not before; after a refresh the lists show the
  projects as they are; a removed project does not come back; a refresh ends.

## 2. Modules

`VirtualDrive` — the drive and its virtual files. `header`, `dir`, `fmap`, `handles` and `writer`
are `m_header`, `m_dir`, `m_filenameMap`, `m_openFiles` and `m_curWriteFile`. The disk file is a
header cell (`diskHeader`), data `cells`, and a directory `diskDir` at an offset; a *cell* stands for a
run of bytes. The two writes of `Flush()`, first the directory and then the header, are two actions
(`Flush`, `FlushHeader`; `Close` and `Pack` begin with the same two), and `Pack()` has one action per
file it copies, one for closing and overwriting the drive and one for opening it again, so that
a module that extends this one can put a crash between them. The entries of the directory, an id and some
writes each, count as one write. Behaviour that is undefined in the code
is a choice: the entries parsed behind the end of the directory when the header counts too many
(`Parsed`), the offset read through a handle that points past the directory (`FileClose`).

`TagDatabase` — extends `VirtualDrive` with its client. `src` are the modification times of the
source files, `files` the project, `mem` what the `File` objects hold: time stamp, length of the tag list,
tag buffer. `Refresh()`, `Save()` and `LoadProjectTags()` are jobs. A refresh is one of a single file, in the two
parts that matter to the database: `Detect` takes over the time stamp, empties the list and leaves the
buffer (`WorkspaceTags.cpp:2639`), or `Requeued` finds the file in the queue (`queued`, `s_filenameList`) an
interrupted refresh has left; then `Parse` takes over the tags of the version Ctags reads, `Misparse` no tags or those
of another file, too (Ctags died; the finding of `tag_refresh_path`), or `NotParsed` returns before (cancelled, no Ctags, no
output). The history variable `unread` holds the versions of files whose time stamp was
taken over by a refresh that did not read them. The steps `Save…` and `Load…` follow the functions from drive
call to drive call, with the functions' locals as variables. Writing a file's tags is one step per cell.
`Edit` (the user's editor) comes at any time, also between the two parts of a refresh, `ChangeProject` and `RemoveAll`
between jobs, `Crash` inside them.

`TagStore` — the abstract promise of a tag database: for each source file a load returns the tags of
its present version or nothing, except for a version whose time stamp the program took over without reading
its tags (`skipped`, in `TagDatabase` the variable `unread`), of which nothing is promised. `TagDatabase`
implements it under the refinement mapping `Store` (`NeverLies`): what is stored for a file is what a load of
the disk, as it is at that moment, may return, so that the statement holds in the middle of a save too.

`TagRefresh` — `WorkspaceTags::Refresh()`: detection (`Refresh`), the Ctags process (`ReadOpening`,
`CancelReading`, `CtagsMissing`, `CtagsDies`), parsing (`ParseFile`, `CancelParsing`), and the end
(`RefreshEnd`). Time (`Tick`), edits and the editor's notifications come between any two steps,
because the callbacks pump messages. `SetAutoRefreshTags` is the option in the preferences.

`WildMatch` — strings, the wildcard comparison that two files of the source define alike, and what a
pattern stands for (`Stands`). The loop is a function of how far it has come (`Walks`), defined by the
four things it does, so that it can be proved about.

`Entries` — the entries of a list in their order, shared by `TagMatch`, `FileSearch`, `Templates` and `Workspace`.

`TagMatch` — the order of the list of all tags, the comparison of a tag with a query, the early ends of
the search, and the pairing of declarations with implementations, as operators on the tags. Where
`qsort()` may choose, every order that agrees with the comparison is tried (`Orders`).

`FileSearch` — the order of a file list, the next and previous file of a name, and the search of a
header's source among the project's, the workspace's and the other files (`FlipTargets`).

`History` — the list and its position with each command that uses it. `here`, the place of the caret,
belongs to Visual Studio.

`Navigation` — extends `History`, `TagMatch` and `FileSearch`: the commands find a tag at the cursor, find tag dialog, next and
previous tag, tag flip, header flip, next and previous file, as actions that search, link the
matches (`Linked`) and jump through the history (`GotoTag`, `FileFind`, `HeaderFlip`).
`RefreshTags` reads a file's tags again, which cuts their links (`Reread`). `CommandsUseHistory`
says that every step is a step of `History`; that is proved, so that the theorems about the history hold here.

`Templates` — `groups` are the template groups with their file, time stamp, what was read and the
user's choice; `registry` is the stored list; `disk` and `locked` the files, which other programs
write, delete and lock (`Environment`), also between the look at a file's time and its opening
(`RefreshOf`). The dialogs (`Select…`, `List…`) and `Restart` are actions. `ParseLine` is the reader of a
template file by kinds of lines.

`TemplateCode` — the conditional commands of a template's code, one step per command: `stack` is
`conditionalStack`, `nested` is `nestedFalseConditionals`. Below it is what the commands mean: the
branches of a block by depth, the first of them with a true condition.

`FileGlob` — a pattern is rewritten by `MatchPattern` (`Expanded`), and each call of `GlobHelper()`, and
each round of its loop, is a step that takes one pattern from `todo`, adds what it finds and puts
the patterns for the directories below in its place.

`Workspace` — `projects`, `globalMap`, `fileList` and `activeList` are `s_projects`,
`g_globalFileMap`, `s_fileList` and `s_activeFileList`; `refs` holds the counts of the `File` objects,
of which two of one name may exist when the global map was emptied under a list. `AddHelper()` calls
itself; the calls under way and to come are the sequence `calls`, and a call is two steps, up to the
reading of the time stamp (`AddHelper`, `AddGone`) and the reading of the file (`ReadProject`,
`ReadSolution`, `ReadFails`), so that Visual Studio may write the file in between.
`RefreshFileList()` is `RefreshFileList` (the extra files), `Refresh` (the workspace) and `RefreshEnd`
(marking, sweeping, building). The history variable `quiet` records the two changes the code makes
without noting them.

`…Proofs` modules hold the theorems (section 5), and `ProofLemmas` facts about numbers and sequences
that several of them need. `MC…` modules give the constants their values.
`MCWorkspace` runs `FileGlob` beside `Workspace`, and `MCTemplates` runs `TemplateCode` beside
`Templates`; the two of a pair share nothing, so that the one moves only while the other is in its
first state.

## 3. Runs

| Run | Shows | States |
|---|---|---|
| `drive_api` | all operations of the drive in any order, two names, one handle, one data cell: `TypeOK`, `MapSound`, `PackKeepsContents`, `PackLeavesNoHole` | 95,740 |
| `tag_database_crash` | two source files, one with three versions, refreshes of which one may leave its version unread, crashes anywhere: `TagTypeOK`, `TagsMatchTime`, `FilesDisjoint`, `SaveIsDurable`, and `NeverLies`, the refinement of `TagStore` | 1,530,958 |
| `tag_database_old_format` | start from a database of an older version, read-write or read-only, no time-stamp check, refreshes of which one may leave its version unread: `NeedPackCoversHoles`, `PackNotLate`, and `JobEnds` under fairness | 508,364 |
| `tag_refresh` | refreshes while files change, with cancelling in both loops, a missing or dying Ctags and automatic refresh switched on and off: `RefreshTypeOK`, `TagsRecover`, `SavesTheTags`, `TagsNotStale` | 1,155,792 |
| `workspace` | a solution with two projects of which one leaves it, extra files that come, a project file that is deleted and comes back: `WorkspaceTypeOK`, `RefsExact`, `OneFilePerName`, `ListsCurrent`, `RefreshedLists`, and `RefreshEnds` under fairness; and 455 patterns on a tree of seven files: `GlobFindsAll` | 268,682 |
| `navigation` | five small workspaces with their files and tags, a history of two entries: the history's `CurInStack`, `NoRepeat`, `JumpComesBack`; `MatchFindsAll`, `MatchesCycle`, `BuddiesMutual`, `BuddyFound`, `VariantsCycle`, `FlipsToPartner`, `CommandsUseHistory` | 25,883 |
| `templates` | two template files, one in the template directory, written, deleted and locked by others, with dialogs, crashes and restarts: `TemplatesTypeOK`, `ChoiceKept`, `BlocksKept`, `TemplatesCurrent`; and all codes of up to six conditional commands: `BranchesChosen` | 281,906 |

Runs whose property the code violates; each is a finding in `PROJECT.json`, with the line that
promises otherwise:

| Run | Property | What happens |
|---|---|---|
| `tag_refresh_cancel_lost` | `TagsUpToDate` | a refresh cancelled while parsing takes the unparsed files for done, with no tags |
| `tag_refresh_path` | `TagsOfOwnFile` | a file whose path is part of another's (`x.c`, `x.cpp`) takes the other's tags |
| `workspace_removed_project` | `RemovedProjectsGone` | a solution's file list is never shortened: a project that left it is swept by one refresh and comes back with the next |
| `workspace_deleted_project` | `RefreshCompletesLists` | `AddHelper()` deletes a project whose file is gone and does not note it: the lists keep its files |
| `templates_remove_selected` | `RemoveTakesSelected` | the Remove button removes by indices that the removals before have shifted |

Disagreements that were met and have no run:

- *Drive.* `Close()` flushes the directory before it closes the file being created, whose data the
  directory overwrites (`VirtualDrive.cpp:315`; no client leaves a file open). An open file can
  be erased, because an erase of another file moves the entry its handle points to (line 628).
- *Tags.* `Save()` adds the count of changed tags to itself and packs early
  (`WorkspaceTags.cpp:2210`). A refresh that is cancelled, finds no Ctags or gets no output leaves the files of its
  list with the new time stamp beside the old tag buffer (`WorkspaceTags.cpp:2639-2643`); the next `Save()` writes the
  old tags under the new time stamp, and a load believes them (2433) until the file changes again. When the
  file is parsed after all, from the queue, the database has an entry with its time stamp already and
  `Save()` does not write the tags. The same holds of a file that was parsed wrongly, or that changed between
  the taking of its time stamp and Ctags. `TagsMatchTime`, `SaveIsDurable` and `NeverLies` say nothing of
  such a version (`unread`), and what they say of all others holds in spite of it; without that exclusion TLC refutes all
  three. `SavesTheTags` and `TagsRecover` leave the files of a cancelled refresh out.
- *Workspace.* `RefreshCompletesLists` fails in a second way: a project that was set inactive becomes
  active with its solution (`WorkspaceInfo.cpp:1126`) without the active list being built again.
- *Searches.* A name that begins with `_` in a search that counts the case or the length may end the
  search before its match. `if (doCase)` in `MakeCopy` tests a pointer, not what it points to. The
  test for a destructor never decides, since names of different length are told apart first. A
  pair's namespaces may contradict each other's order. A near match may take the implementation that
  belongs to another declaration. `allNamespaceSlashLens` is worked out from the parent. A tag that
  is read again holds a sort index in `m_matchNext` and nothing in `m_matchPrev`
  (`WorkspaceTags.cpp:516`), which Find Next and Find Previous follow when it was the last one jumped to.
- *Jumps.* A jump that fails has already dropped what was forward of it in the history. A tag whose
  text is not found stays the last one, so that Find Next tries it again. Header flip follows the order of
  the file list and not that of the preferences, and with one extension flips a file to itself.
- *Templates.* The completion of a keyword uses groups the user switched off, too. Leaving the file list with
  Cancel keeps what was added and removed until the registry is read again, and leaves the dialog under
  it with pointers to deleted templates (`TemplateSelectDialog.cpp:321`). An argument with `%` before any
  other character than `"`, `@` and `%` is parsed without end (`Template.cpp:205`). A missing `!!endif` is
  no error; an `!!elif` after the `!!else` may run in addition to it (`BranchesChosen` takes
  the branches as the code does).
- *Globbing.* `**/**/x` does not find an `x` at the top (`GlobFindsAll` leaves patterns with two `**` in a
  row out), and `*/x.c` names a file in every directory, be it there or not.

Every property of a passing run has a mutant in `PROJECT.json`: a plausible mistake in one mapped
definition (in the modules, the definition marked "mutant") with which TLC finds it violated.

## 4. Bounds and assumptions

- *Drive.* Two names reach every case of the directory (found, not found, renamed onto, erased
  before another, sorted); a cell or none per file reaches every comparison of sizes. In the
  tag-database runs the sizes come from one to three cells, and `MaxOffset` is room for
  both files and a larger version of one appended behind them; a save that may append starts only
  when there is room (`RoomToSave`). The files in `Changing` change, leave and join the project and may be left unread by
  a refresh, `MaxUnread` times in all: once is enough for old tags to be saved under a new time stamp, loaded,
  parsed late and saved over. In `tag_database_crash` only one file changes (the other has no tags and is there to
  be erased, moved and packed); in `tag_database_old_format` both do. The theorems have neither bound.
  `MaxUserData` caps the count of tags in the header, above the amount that triggers a pack.
  The directory's count is a WORD in the code; the bound `MaxEntries` stays below its wrap.
- *Time.* Modification times only grow (`Edit`). Tags are torn undetectably if a file's time is set
  back to an earlier value and the program crashes at the right moment; the repository says nothing
  about that. In `TagRefresh` clock, versions and queue are small: two files, three seconds, two
  versions, a queue of three, enough for an edit in the second of a check, an edit while Ctags runs
  and a file that is queued twice. `TagsUpToDate` excludes an edit in the very second of the check,
  which no time stamp shows.
- *Crash.* The process dies between two writes; what it wrote stays and is on disk in the order
  of the writes. `CopyFile()` in `Pack()` may have left no recognisable header, or a header without
  its directory; a header with a part of its directory, which `Open()` would read, is left out. So is a crash
  among the writes of one directory. A torn single write (of the header, which is one `Write` of a few bytes) and power
  loss with reordering are not modelled. `Pack()`'s temporary file is created without error. `Save()` finds the
  file writable and creates it without error: the question about a read-only file and its No, `IsReadOnly()` and a failing
  `Create()` only skip the save.
- *Counts.* `PackNotLate` and the count in the header go by the lengths of tag lists, as the code does (2172, 2190). After a
  refresh that was cancelled the list is empty and the buffer is not, and the tags written count for nothing in both.
- *Undefined data.* `ReadTags` is exact for tags that were written whole; for any other bytes it may
  accept or reject. That it may also accept garbage is covered in `LoadTags`.
- *Searches.* The five worlds of `MCNavigation` each have what one question needs: a class with its
  method, declared twice; one name in two namespaces; names that differ in their symbols; a
  constructor and a destructor; a tag without a line; files of one name in three directories. Names have at most
  three characters of six kinds, enough for case, symbol and length to differ in one place.
  `MaxStackSize` is two, so that the history is full after two jumps. `Orders` has the orders that agree with the comparison;
  where the comparison (`TagList.cpp:78`) contradicts itself `qsort()` may leave more, of which no property speaks.
  `Short` leaves out that the code keeps a `.` in a name. A name that begins with `::` is looked for once, not
  a second time without it (`WWhizCommands.cpp:774`). Of two tags on the line of the cursor any one is taken for its scope, in
  the code the one sorted last.
- *Templates.* Two files, three moments, three contents of up to fourteen lines: a file can be new, older,
  newer, missing or locked at each look, and one file is found in the directory while the other must be added.
  Each version of a file has a time stamp of its own: `m_mtime` counts whole seconds (`TemplateGroup.cpp:51`), so that
  in the code a second write within the second of a refresh is not seen, which `TemplatesCurrent` leaves out.
  The violation run has three groups, so that a group that was not selected is there to be removed. Bytes behind
  the name of a missing file are taken to hold no further readable entry.
- *Codes.* Six commands, `MaxCommands`: three blocks within each other, or one block of six branches.
- *Patterns.* Up to three parts out of seven, with or without a slash at the end, and files up to
  three directories deep, more than a `**` between two parts needs.
- *Workspace.* Four project files: the solution, a project that lists a source file and another
  project, that one, and the extra files; one source file that all of them list at some time, so that it
  is held by every kind of container. Each has one or two versions, one may be deleted (`Deletable`), one
  is added and set active by clients (`Used`): enough for a project that is added, leaves the solution,
  is swept, and is read, found unchanged, gone or gone under the reader. The solution and the
  list of extra files do not vanish (`Refresh()` dereferences the result of `AddProject()`); projects
  do not list each other in a circle, which `AddHelper()` would follow without end; a version has a
  time stamp of its own; a file that can be opened can be parsed. `.csproj`, `.dsp` and `.dsw` files,
  read by functions with the same effect, are not told apart from `.vcproj` and `.sln`, except that
  `SetActive()` does not pass on to the projects a project lists, as it does not for `.vcproj`.
  Clients refresh the file list after a workspace was opened or closed and before they refresh the
  tags, as all callers in the repository do.
- *Fairness.* `JobEnds` and `RefreshEnds` use it: `WF_vars(JobSteps)`. A job or a refresh is one function
  call on one thread, so that it goes on whenever it can; nothing is assumed of the user, the editor
  or the project.
- `CHECK_DEADLOCK` is on in every run.

## 5. Proofs

The theorems hold for every value of the constants that satisfies the assumptions of the modules: any
number of names, files, handles, projects, tags, versions, and any bounds. Each proof
module starts with an invariant that is inductive, shows in a lemma per operation that it is kept, and
derives the properties of the runs from it. The theorems, the run that checks the same property
and what each means are listed in `PROJECT.json`.

**`VirtualDriveProofs`** — `DriveTypeCorrect`, `FilenameMapSound`, `PackCopiesFiles`, `PackRemovesHoles`.
`MapSound` is not inductive. `FileErase` and `FileRename` keep it only if the map is exact on the
entries they touch; `Open` enters a map that must be empty before; and `Pack` is many actions, at the
end of which the drive is open again with the directory in `temp`. The inductive invariant is
`IInv == TypeOK /\ MapSound /\ Phase`, where `Phase` says what is known in each part of a Flush, Close
or Pack: the drive is open in all of them but the last, and closed with an empty map in that one.
`PackInv` adds what the copying has done: `CopiesAll`, that each entry of the temporary drive is a file
of the old one with the same bytes and each entry passed has one, and `Full`, that
its cells are those of its entries without a gap. Two entries of one name, which only a
file read as garbage can have, are the hard case: the second is written over the first, and since both
are copies of the one file that the map finds they have the same size.

**`TagDatabaseProofs`** — `TagTypeCorrect`, `FilesShareNoCell`, `PackedInTime`, `UnusedSpaceNoted`, and of the
contents `LoadedTagsAreWhole`, `SavesAreDurable`, `DatabaseNeverLies`. The invariant of the first four
is in parts: `JobInv` (which step of a save or load goes with which state of the drive, and
that only the file being written has a handle), `PlacesInv` (files lie apart in memory, in
what is on disk, and in a drive being packed; what is flushed is what is in memory), `CountInv` and
`HolesInv`. `UnusedSpaceNoted` has the hypothesis `~Crashes`, and is false
without: a crash between the directory and the header of a flush loses `m_needPack` for a hole that
is in the directory already (the run checks `NeedPackCoversHoles` without crashes).

The argument about the contents is one about time stamps. An entry may be believed when its stamp is the source file's or that of the tags
in memory, and then it holds that version's tags, unless a refresh left that version unread (`Good`, of the entries in memory, on
disk and in a drive being packed). Of the files in memory `MemOK` says the same, also while one of them
is between the two parts of a refresh. To keep `Good` when such a file is parsed late, from the queue, under the
time stamp it has, a file in the queue must have no believed entry of its present version; that is so because
the program takes over the time stamp of a later version only in a refresh, which takes the file from the queue or leaves that
version unread as well. The cells that a save writes over belong to an entry that nobody believes, or hold
already what is written. That needs to know where the entries on disk are while those in memory move
(`Ahead`, `Follows`): data is written over an entry of the disk only for the same file and no larger, or behind all
of them. For the refinement, `Edit` is `EditFile`, a step of a refresh, another change of the tags in memory and a crash are
`Learn` or a stutter, a cell written over an entry of an unread version is a `Publish`, which is free in what becomes of such a file, the moment the disk shows no entry is `Forget`, and a flush at the same place, a new header or the
reopening after a pack is `Publish`. The hypotheses are those of the run that checks these properties:
- `~OldFormat`: a save that is writing its format cell over an entry of an older version with the same time
  stamp makes it look, until the directory is flushed, like an empty list of tags of this version; and a load that erases an
  entry clears the tags but keeps the stamp.
- `AutoRefresh`: without it `LoadProjectTags()` does not compare the time stamps, and loads an entry that a
  crash has torn.

**`TagRefreshProofs`** — `RefreshTypeCorrect`, `TagsNeverStale`, `TagsSaved`, `RefreshRecovers`. `IInv` adds to the three
properties where the loops stand (`LoopOK`), that a file looked at in a later second than its stamp has
the version that was seen (`SeenOK`) and that Ctags read files after their stamps were taken
(`OutputFresh`). `RecoverInv` adds that a file is settled when its entries of the list are parsed, that an undisturbed file is
queued once but for entries next to each other, and that the output is in the order of the list (`Aligned`).
The hypothesis of `RefreshRecovers`, `Inside = {}`, says that no path is part of another; otherwise the
finding of `tag_refresh_path` applies.

**`WorkspaceProofs`** — `WorkspaceTypeCorrect`, `RefsCorrect`, `OneFile`, `ListsStayCurrent`, `RefreshListsComplete`.
`IInv == CallInv /\ FileInv`. `FileInv` has the counts, which must be exact over four
kinds of containers at once, with two objects of one name in the worst case, to show of any that it is not
deleted too early. `CallInv` is about the calls of `AddHelper()` to come: the projects a solution
lists are added while the solution stays known, which holds because no reference leads back
up (`WorkspaceAssumption`). `CurrentInv` and `CompleteInv` say when lists are those of the file, and when
nothing but the changes in `quiet` can keep the lists from being complete.

**`NavigationProofs`** — of the history `PositionInHistory`, `HistoryHasNoRepeat`, `JumpsComeBack`; of the composed
commands `AddInUsesHistory`, the refinement of `History` step by step, by which the three hold there too
(`HistoryOfAddIn`); of the searches `PartnersMutual`, `MatchesMakeARing`, `ImplementationFound`, `VariantsGoAround`,
`FlipFindsPartner`, `SearchFindsAll`.
- `TagsInv`: partners are mutual after any number of steps of `MatchBuddies` (a least step after which
  they are not leads to a contradiction), and the links of the matches are those of the last search.
- `BuddyInv`: the list is sorted, and partners are those of `MatchBuddies`. The comparison of strings is total and
  one-way, so that the sort puts a declaration right before the only other tag of its name; no step for an
  earlier declaration takes either of the two, its own takes the next tag, and later ones leave both.
- `VariantsGoAround`: a file is found at its own place in a sorted list; from there the steps climb through
  the files of the name to the last one, wrap to the first, and climb again (`Climb`).
- `FlipFindsPartner`: from the file that is flipped the steps of `FindNext()` come to each other file of the name
  before they are back (`ReachedFirst`: otherwise they would go round without it, and they climb), so the
  list gives the file in the same directory (`FlipTo`), or none when it has none of the name
  (`FlipNowhere`), and the first list that has one comes first (`FirstOfAll`).
- `SearchFindsAll`: the matches are those `MatchTag()` finds for the last query in a list whose short names rise
  (`SearchInv`; the sort leaves such a list, and a refresh or a later search keeps it for the query made
  in it). The rest is about the operators: a name past the text comes, in the order of short names, after every name
  that the text is at the front of, also when the text has symbols or capitals (`PastIsAfter`);
  taking the first place of each string finds a chain of places whenever there is one (`SubsFitIs`);
  and the walk of `WildMatch` with its one mark to go back to matches exactly what the pattern stands for
  (`WildMatchIs`: of the walks that go wrong one has come furthest, and its next step goes wrong as well).

**`TemplatesProofs`** — `TemplatesTypeCorrect`, `ChoicesKept`, `OffersCurrent`, `BlocksNeverLost`, and of `TemplateCode`
`BranchesRight`. `IInv`: one group per file, each honest about its time stamp (a group with the stamp of
its file holds what is in it, though others write between the look and the opening), and the
choice in both the list and the registry. The parser is shown right line by line (`Parsed`). `CodeInv`
says what the stack is: the outer open blocks, all of them in a branch that is put out but the last,
and `nested` counts the rest; the two bits of a block say whether the present branch is the chosen one
and whether a true one was met.

**`FileGlobProofs`** — `GlobbingFindsAll`. `StandsForPath` asks how many names of a path the first parts may be; a path
is read (`Reads`) by one choice of these numbers. From that follows what a call does: a part looked up among
files (`LookUpFiles`) or directories (`LookUpDirs`), and a `**` that is taken out and put below every directory
(`DoubleStarIs`), each leave what the pattern stands for, divided between what is found and the patterns of the calls
to come (`GlobbedStep`). `GlobInv` adds this up: what was found and what the calls to come stand for
are together what the whole pattern stands for. It needs patterns that can be followed (`IsGlob`): a `**`
is never last, and neither a `**` nor an empty part comes after it. A pattern as written may have all of these;
`ExpandedIs` shows that the parts `MatchPattern()` makes of it have none, unless one `**` follows another, which
`GlobFindsAll` leaves out because the code then misses files. That the walk ends is not stated by any property.

`ProofLemmas` has facts about numbers and sequences that these proofs share: least and greatest
elements, definitions by steps (`Stepwise`), orders of finite sets; and the proof of the wildcard comparison (`WildMatchIs`).

*How recursion is reasoned about.* There is no induction over data in the prover's reach, but a
function over `0 .. n` that is defined by steps exists (`Stepwise`), and the one that `CHOOSE` takes
has no least number at which a claim about it fails. So `MatchBuddies`, `Short`, `Parsed`, `WildMatch`, the cutting of
a pattern and the walk through the variants are proved about.

*The assumptions* are those named in the modules; TLC evaluates them in every run.
`NamesAssumption` of `VirtualDrive` and `Navigation`, `BoundsAssumption`, `SentinelAssumption`: names and bounds are numbers, the
markers are none of the values. `DatabaseAssumption`, `CellAssumption`: finitely many source files; the drive's data are
the cells of tags and formats; an old database fits the disk. `RefreshAssumption`: a path may be part of
another's, not of its own. `WorkspaceAssumption`: no project leads back to itself. `FilesAssumption`, `TextAssumption`:
finitely many template files, a text for each version. `StackAssumption`: at least two entries in the
history (the code keeps 100). `NoTextAssumption`. `WorldsAssumption`, `ListsAssumption`, `ExtsAssumption`: a tag's number is not NULL; extensions are numbers; a list of the projects' files is
sorted, holds no file twice, and has something between two dots of a name only if there is a last extension. Of
`Navigation`, `NamesAssumption` says that a name begins with a letter, a digit, `_`, `~` or `:`, as in C, and
`QueriesAssumption` what `MakeCopy()` leaves without the switches: a part with a capital is one in which the case counts.
`MatchFindsAll` itself leaves queries out in which the code asks for something else (`PlainQuery`): names that begin
with an underscore, strings in the namespace, an empty string before others in the parent (`a//b`,
which is then not looked at, `WorkspaceTags.cpp:1698`), and an exact length of no text. Of `FileGlob`,
`TreeAssumption`: finitely many files, whose names have no wildcard and are not empty; `PatternsAssumption`: only the last
part of a pattern may be empty, for `ResolveFilename()` has made it a full path; `SpellingAssumption`: the names of
a pattern are spelled as on the disk, since Windows does not tell them apart by case.

*Only model-checked.* `JobEnds` and `RefreshEnds` are liveness, which is out of reach. The bodies of the recursive definitions that the theorems do not
mention are checked by the runs alone.

## 6. Not modelled

Per-entry CRC and user bytes and the file-name length byte of the drive; errors of single disk
writes; the bytes of a serialized tag and the parsing of a line of Ctags output; the loop over several
projects, which share nothing but the files; the sort orders and the binary search that serve only the dialogs, and
the switches `-` and `+` of a search text; the list of the compiler's include files as one more holder of `File` objects; the pointer that the queue of a
refresh keeps to a file that has left the project; the dialogs' tree of templates, whether a group was changed, the
registry's old `FileList` key, the saved parameters, the tags (`@@`) and the other commands of a
template's code; the globber's options after an `@`, three dots and network paths; the XML reader and the
CRC; the user interface; registration texts; compiler include files; samples and vendored code.
The helper thread of `WWhizReg` is not modelled because nothing starts it.
The hazards in `PROJECT.json` without a property say why.

## 7. What is left

- `TagRefresh` with the file objects of `Workspace`: a queue that outlives a cancelled refresh while
   projects are removed (`WorkspaceTags.cpp:2649`).
