------------------------------ MODULE Workspace ------------------------------
(***************************************************************************)
(* The projects of a workspace and their files (WorkspaceInfo.cpp,         *)
(* ProjectList.cpp and FileList.cpp of Src/WWhizInterface): project files  *)
(* are read again when their time stamps change, their file lists share    *)
(* reference-counted File objects through the global file map, and the     *)
(* lists of all files and of all active files are built from them.         *)
(*                                                                         *)
(* AddHelper() calls itself for every project it finds in a project.  The  *)
(* calls still to be made are the sequence calls; one step is the part of  *)
(* a call before it reads the project file, or the part that reads it, so  *)
(* that project files may change in between.  Projects are .sln and .vcproj*)
(* files, to which SetActive() does not pass on.                           *)
(***************************************************************************)
EXTENDS Entries, FiniteSets

CONSTANTS
    Sources,      \* names of source files, as numbers
    Projects,     \* names of project and solution files, as numbers
    Solutions,    \* the names read by ReadSlnFile()
    Workspace,    \* the solution that may be open in Visual Studio
    Extra,        \* the project made from the list of extra files
    Lists,        \* Lists[p][v]: what version v of p lists; bound: its versions
    Deletable,    \* bound: the project files that may be deleted
    Used       \* bound: the projects that clients add or set active

Names == Sources \cup Projects
NoProject == 0

\* The references among project files, in all their versions, have no cycle:
\* AddHelper() would call itself without end.
ASSUME WorkspaceAssumption ==
    /\ Names \subseteq Nat \ {NoProject} /\ Sources \cap Projects = {}
    /\ IsFiniteSet(Projects)
    /\ Workspace \in Solutions /\ Solutions \subseteq Projects
    /\ Extra \in Projects \ Solutions
    /\ Deletable \subseteq Projects \ {Workspace, Extra} /\ Used \subseteq Projects
    /\ \A p \in Projects : Lists[p] \in Seq(Seq(Names)) /\ Lists[p] # << >>
    /\ \A p \in Solutions : Lists[p] \in Seq(Seq(Projects))
    /\ \A p \in Projects : \A v \in DOMAIN Lists[p] :
          \A n \in ToSet(Lists[p][v]) \cap Projects : n < p

\* File objects: two of one name exist when an old one is still in use after
\* RemoveAll().
Objects == Names \X {0, 1}
NamesOf(S) == {o[1] : o \in S}

VARIABLES
    exists,          \* which project files are on disk
    mtime,           \* their time stamps, which are also their versions
    open,            \* whether the workspace is open in Visual Studio
    projects,        \* s_projects: name -> Project
    globalMap,       \* g_globalFileMap: name -> File object
    fileList,        \* s_fileList
    activeList,      \* s_activeFileList
    refs,            \* m_refCount of the File objects; 0: deleted
    filesRefreshed,  \* g_filesRefreshed
    calls,           \* calls of AddHelper() under way and still to be made
    pc,              \* "idle", "adding", "extra", "refresh" or "tags"
    quiet            \* history: since the lists were built, a project was deleted
                     \* or made active without a note to build them again

disk == <<exists, mtime, open>>
heap == <<globalMap, refs>>
lists == <<fileList, activeList, filesRefreshed>>
vars == <<disk, projects, heap, lists, calls, pc, quiet>>

NewProject(active) == [time |-> 0, files |-> {}, active |-> active, changed |-> TRUE,
                       touched |-> FALSE, member |-> FALSE]
Call(p, active, noRefresh, lister) ==
    [name |-> p, active |-> active, noRefresh |-> noRefresh, lister |-> lister,
     reading |-> FALSE]
\* Calls of AddHelper() for the projects in the sequence s.
CallsFor(s, active, noRefresh, lister) ==
    [i \in 1 .. Len(s) |-> Call(s[i], active, noRefresh, lister)]

Init ==
    /\ exists = [p \in Projects |-> TRUE] /\ mtime = [p \in Projects |-> 1]
    /\ open = FALSE
    /\ projects = << >> /\ globalMap = << >>
    /\ fileList = {} /\ activeList = {} /\ refs = [o \in Objects |-> 0]
    /\ filesRefreshed = FALSE
    /\ calls = << >> /\ pc = "idle" /\ quiet = FALSE

(***************************************************************************)
(* Reference counts and the global file map                                *)
(***************************************************************************)
AddRefs(r, S) == [o \in Objects |-> IF o \in S THEN r[o] + 1 ELSE r[o]]
Release(r, S) == [o \in Objects |-> IF o \in S THEN r[o] - 1 ELSE r[o]]

\* File::Create() for all names of S: the global file map and the counts.
Create(S) ==
    LET new == S \ DOMAIN globalMap
        fresh(n) == <<n, CHOOSE g \in {0, 1} : refs[<<n, g>>] = 0>>
    IN [map |-> [n \in DOMAIN globalMap \cup S |->
                    IF n \in new THEN fresh(n) ELSE globalMap[n]],
        refs |-> AddRefs(refs, {fresh(n) : n \in new})]
\* Mutant: a file that is already in the list is added again.
AddedAgain(h, L, S) == {h.map[n] : n \in S}
\* The objects FileList::Add() adds to the list L for the names S.
Added(h, L, S) == {h.map[n] : n \in S \ NamesOf(L)}

(***************************************************************************)
(* The disk and Visual Studio                                              *)
(***************************************************************************)
EditProject(p) ==
    /\ exists[p] /\ mtime[p] < Len(Lists[p])
    /\ mtime' = [mtime EXCEPT ![p] = @ + 1]
    /\ UNCHANGED <<exists, open, projects, heap, lists, calls, pc, quiet>>
\* The open solution and the list of extra files stay.
DeleteProject(p) ==
    /\ exists[p] /\ p \in Deletable
    /\ exists' = [exists EXCEPT ![p] = FALSE]
    /\ UNCHANGED <<mtime, open, projects, heap, lists, calls, pc, quiet>>
RestoreProject(p) ==
    /\ ~exists[p] /\ mtime[p] < Len(Lists[p])
    /\ exists' = [exists EXCEPT ![p] = TRUE]
    /\ mtime' = [mtime EXCEPT ![p] = @ + 1]
    /\ UNCHANGED <<open, projects, heap, lists, calls, pc, quiet>>

\* Mutant: the File objects are deleted, whoever holds them.
RemoveAllDeletes ==
    /\ projects' = << >> /\ fileList' = {} /\ globalMap' = << >>
    /\ refs' = [o \in Objects |-> 0]
    /\ filesRefreshed' = TRUE
    /\ UNCHANGED activeList
\* Mutant: the list of all files is left as well.
RemoveAllLeavesLists ==
    /\ projects' = << >> /\ globalMap' = << >>
    /\ refs' = [o \in Objects |-> Cardinality({l \in {"all"} : o \in fileList})
                                 + Cardinality({l \in {"active"} : o \in activeList})]
    /\ filesRefreshed' = TRUE
    /\ UNCHANGED <<fileList, activeList>>
\* WorkspaceInfo::RemoveAll(), which leaves the list of active files.
RemoveAll ==
    /\ projects' = << >> /\ fileList' = {} /\ globalMap' = << >>
    /\ refs' = [o \in Objects |-> IF o \in activeList THEN 1 ELSE 0]
    /\ filesRefreshed' = TRUE
    /\ UNCHANGED activeList

(***************************************************************************)
(* AddHelper() and the readers of project files                            *)
(***************************************************************************)
Top == Head(calls)
Calling == calls # << >> /\ ~Top.reading
Reading == calls # << >> /\ Top.reading

\* The file of a known project is gone: the project is deleted.
AddGone ==
    /\ Calling /\ ~exists[Top.name] /\ Top.name \in DOMAIN projects
    /\ projects' = [p \in DOMAIN projects \ {Top.name} |-> projects[p]]
    /\ refs' = Release(refs, projects[Top.name].files)
    /\ calls' = Tail(calls) /\ quiet' = TRUE
    /\ UNCHANGED <<disk, globalMap, lists, pc>>

\* The projects in the file list S of p, without p itself; lists are kept in the
\* order of the names.
InsideSelf(p, S) == InOrder(NamesOf(S) \cap Projects)                  \* mutant
Inside(p, S) == InOrder((NamesOf(S) \cap Projects) \ {p})

\* The call up to the reading of the project file, or to the calls for the
\* projects in its file list when its time stamp has not changed.  A new project
\* without a file has no time stamp that could differ.
AddHelper ==
    LET p == Top.name
        isNew == p \notin DOMAIN projects
        project == IF isNew THEN NewProject(Top.active) ELSE projects[p]
        noRefresh == Top.noRefresh /\ ~isNew
        stamp == IF exists[p] THEN mtime[p] ELSE 0
        read == ~noRefresh /\ project.time # stamp
        h == Create(IF Top.lister = NoProject THEN {} ELSE {p})
        listed == IF Top.lister = NoProject THEN {}
                  ELSE Added(h, projects[Top.lister].files, {p})
        called == [project EXCEPT !.touched = TRUE, !.member = FALSE,
                                  !.time = IF read THEN stamp ELSE @]
    IN /\ Calling /\ (exists[p] \/ isNew)
       /\ projects' = [q \in DOMAIN projects \cup {p} |->
                         CASE q = p -> called
                           [] q = Top.lister -> [projects[q] EXCEPT !.files = @ \cup listed]
                           [] OTHER -> projects[q]]
       /\ globalMap' = h.map /\ refs' = AddRefs(h.refs, listed)
       /\ calls' = (IF read THEN << [Top EXCEPT !.reading = TRUE] >>
                    ELSE CallsFor(Inside(p, project.files), project.active, noRefresh, NoProject))
                   \o Tail(calls)
       /\ UNCHANGED <<disk, lists, pc, quiet>>

\* The project file cannot be opened any more.
ReadFails ==
    /\ Reading /\ ~exists[Top.name]
    /\ calls' = Tail(calls)
    /\ UNCHANGED <<disk, projects, heap, lists, pc, quiet>>

\* The projects in the sequence s, in its order.
ProjectsIn(s) == EntriesAt(s, {i \in DOMAIN s : s[i] \in Projects})

KeepUnlisted(S, names) == S                           \* mutant
Relisted(S, names) == {o \in S : o[1] \in names}

\* ReadVCProjFile(): the files that are listed are added, the others removed,
\* and the projects among them are added.
ReadProject ==
    LET p == Top.name
        list == Lists[p][mtime[p]]
        h == Create(ToSet(list))
        files == projects[p].files
        added == Added(h, files, ToSet(list))
        now == Relisted(files \cup added, ToSet(list))
    IN /\ Reading /\ exists[p] /\ p \notin Solutions
       /\ projects' = [projects EXCEPT ![p].files = now]
       /\ globalMap' = h.map
       /\ refs' = Release(AddRefs(h.refs, added), (files \cup added) \ now)
       /\ filesRefreshed' = (filesRefreshed \/ now # files)
       /\ calls' = CallsFor(ProjectsIn(list), projects[p].active, FALSE, NoProject)
                   \o Tail(calls)
       /\ UNCHANGED <<disk, fileList, activeList, pc, quiet>>

\* ReadSlnFile(): the projects that are listed are added, and to the solution's
\* file list when AddHelper() has found them; the solution itself is in its list.
\* The order of the additions makes no difference: nothing reads the list between.
ReadSolution ==
    LET p == Top.name
        h == Create({p})
        added == Added(h, projects[p].files, {p})
    IN /\ Reading /\ exists[p] /\ p \in Solutions
       /\ projects' = [projects EXCEPT ![p].files = @ \cup added]
       /\ globalMap' = h.map /\ refs' = AddRefs(h.refs, added)
       /\ calls' = CallsFor(Lists[p][mtime[p]], projects[p].active, FALSE, p) \o Tail(calls)
       /\ UNCHANGED <<disk, lists, pc, quiet>>

(***************************************************************************)
(* The interface                                                           *)
(***************************************************************************)
Idle == pc = "idle"
AddProject(p, noRefresh) ==
    /\ p \in Used /\ Idle /\ pc' = "adding"
    /\ calls' = << Call(p, TRUE, noRefresh, NoProject) >>
    /\ UNCHANGED <<disk, projects, heap, lists, quiet>>
AddProjectEnd ==
    /\ pc = "adding" /\ calls = << >> /\ pc' = "idle"
    /\ UNCHANGED <<disk, projects, heap, lists, calls, quiet>>

\* Mutant: the lists are not built again for a project's new active state.
SetActiveQuietly(p, active) ==
    /\ pc \in {"idle", "extra"} /\ calls = << >> /\ p \in Used \cap DOMAIN projects
    /\ projects' = [projects EXCEPT ![p].active = active]
    /\ UNCHANGED <<disk, heap, lists, calls, pc, quiet>>
\* Clients, and ReadExtraFiles() for the projects among the extra files.
SetActive(p, active) ==
    /\ pc \in {"idle", "extra"} /\ calls = << >> /\ p \in Used \cap DOMAIN projects
    /\ projects' = [projects EXCEPT ![p].active = active, ![p].changed = TRUE]
    /\ UNCHANGED <<disk, heap, lists, calls, pc, quiet>>

\* ReadExtraFiles(), with which RefreshFileList() begins.
ReadExtraFiles ==
    /\ Idle /\ pc' = "extra"
    /\ calls' = IF Lists[Extra][mtime[Extra]] = << >> THEN << >>
                ELSE << Call(Extra, TRUE, FALSE, NoProject) >>
RefreshFileList ==
    /\ ReadExtraFiles
    /\ UNCHANGED <<disk, projects, heap, lists, quiet>>

\* The add-in is told that a workspace was opened or closed: OnWorkspaceOpen()
\* refreshes in LoadTags(), OnWorkspaceClose() itself.
OpenOrClose ==
    /\ RemoveAll /\ ReadExtraFiles
    /\ open' = ~open
    /\ UNCHANGED <<exists, mtime, quiet>>

\* WorkspaceInfo::Refresh() up to AddProject().
Refresh ==
    /\ pc = "extra" /\ calls = << >> /\ pc' = "refresh"
    /\ projects' = [p \in DOMAIN projects |-> [projects[p] EXCEPT !.member = FALSE]]
    /\ calls' = IF open THEN << Call(Workspace, TRUE, FALSE, NoProject) >> ELSE << >>
    /\ UNCHANGED <<disk, heap, lists, quiet>>

Members == IF open THEN (NamesOf(projects[Workspace].files) \cap DOMAIN projects)
                        \cup {Workspace}
                   ELSE {}
FilesOf(prjs, S) == UNION {prjs[p].files : p \in S}

Unused(map, r) == {o \in {map[n] : n \in DOMAIN map} : r[o] = 1}

\* The rest of Refresh(): the workspace's projects are marked, projects no call
\* has touched are deleted, and the two lists are built again if anything has
\* changed.
RefreshEnd ==
    LET marked == [p \in DOMAIN projects |->
                      [projects[p] EXCEPT !.member = p \in Members,
                                          !.active = @ \/ p \in Members,
                                          !.touched = FALSE, !.changed = FALSE]]
        swept == {p \in DOMAIN projects : ~projects[p].touched}
        kept == DOMAIN projects \ swept
        rebuild == filesRefreshed \/ swept # {} \/ \E p \in kept : projects[p].changed
        afterSweep == [o \in Objects |->
                          refs[o] - Cardinality({p \in swept : o \in projects[p].files})]
        all == FilesOf(marked, kept)
        active == FilesOf(marked, {p \in kept : marked[p].active})
        afterBuild == AddRefs(AddRefs(Release(Release(afterSweep, fileList), activeList),
                                      all), active)
        unused == Unused(globalMap, afterBuild)
        activated == \E p \in DOMAIN projects : marked[p].active # projects[p].active
    IN /\ pc = "refresh" /\ calls = << >> /\ pc' \in {"idle", "tags"}
       /\ projects' = [p \in kept |-> marked[p]]
       /\ filesRefreshed' = rebuild
       /\ IF rebuild
          THEN /\ fileList' = all /\ activeList' = active
               /\ globalMap' = [n \in {m \in DOMAIN globalMap : globalMap[m] \notin unused} |->
                                   globalMap[n]]
               /\ refs' = Release(afterBuild, unused)
               /\ quiet' = FALSE
          ELSE /\ refs' = afterSweep /\ quiet' = (quiet \/ activated)
               /\ UNCHANGED <<fileList, activeList, globalMap>>
       /\ UNCHANGED <<disk, calls>>

\* The end of WorkspaceTags::Refresh(), before which the clients that call
\* RefreshTagList() have called RefreshFileList().
TagsRefreshed ==
    /\ pc = "tags" /\ pc' = "idle"
    /\ filesRefreshed' = FALSE
    /\ UNCHANGED <<disk, projects, heap, fileList, activeList, calls, quiet>>

CallSteps == AddGone \/ AddHelper \/ ReadFails \/ ReadProject \/ ReadSolution
JobSteps == CallSteps \/ AddProjectEnd \/ Refresh \/ RefreshEnd \/ TagsRefreshed

Next ==
    \/ \E p \in Projects : \/ EditProject(p) \/ DeleteProject(p) \/ RestoreProject(p)
                           \/ \E b \in BOOLEAN : AddProject(p, b) \/ SetActive(p, b)
    \/ OpenOrClose \/ RefreshFileList
    \/ JobSteps

Spec == Init /\ [][Next]_vars /\ WF_vars(JobSteps)

(***************************************************************************)
(* Properties                                                              *)
(***************************************************************************)
Project == [time : Nat, files : SUBSET Objects, active : BOOLEAN,
            changed : BOOLEAN, touched : BOOLEAN, member : BOOLEAN]
WorkspaceTypeOK ==
    /\ exists \in [Projects -> BOOLEAN] 
    /\ DOMAIN mtime = Projects /\ \A p \in Projects : mtime[p] \in DOMAIN Lists[p]
    /\ DOMAIN projects \subseteq Projects
    /\ \A p \in DOMAIN projects : projects[p] \in Project
    /\ DOMAIN globalMap \subseteq Names
    /\ \A n \in DOMAIN globalMap : globalMap[n] \in Objects /\ globalMap[n][1] = n
    /\ fileList \subseteq Objects /\ activeList \subseteq Objects
    /\ refs \in [Objects -> Nat]
    /\ open \in BOOLEAN /\ filesRefreshed \in BOOLEAN /\ quiet \in BOOLEAN
    /\ \A i \in 1 .. Len(calls) : /\ calls[i].name \in Projects
                                  /\ calls[i].lister \in DOMAIN projects \cup {NoProject}
                                  /\ calls[i].reading => i = 1
    /\ pc \in {"idle", "adding", "extra", "refresh", "tags"}

\* The count of a File object is the number of lists it is in, so that it is
\* deleted when it leaves the last of them and not before (RCBase.h:38), whatever
\* projects are read, deleted, swept or removed all at once.
Holders(o) ==
    Cardinality({p \in DOMAIN projects : o \in projects[p].files})
    + Cardinality({n \in DOMAIN globalMap : globalMap[n] = o})
    + Cardinality({l \in {"all"} : o \in fileList})
    + Cardinality({l \in {"active"} : o \in activeList})
RefsExact == \A o \in Objects : refs[o] = Holders(o)

\* Projects that list the same file share one File object, the one of the global
\* file map, so that its tags and its time stamp are kept once (FileList.cpp:171).
OneFilePerName ==
    \A o \in fileList \cup FilesOf(projects, DOMAIN projects) :
        o[1] \in DOMAIN globalMap /\ globalMap[o[1]] = o

\* A project whose time stamp is that of its file lists what the file lists, also
\* when the file was written while it was about to be read: the time stamp is
\* taken first (WorkspaceInfo.cpp:1016).
ListsCurrent ==
    \A p \in DOMAIN projects \ Solutions :
        exists[p] /\ projects[p].time = mtime[p] /\ ~(Reading /\ Top.name = p) =>
            NamesOf(projects[p].files) = ToSet(Lists[p][mtime[p]])

\* "RefreshFileList() does a scan of .dsp files to determine if updates are
\* necessary" (WWhizInterface2.h:339): after a refresh the list of files has the
\* source files of all projects and the list of active files those of the active
\* ones, however a project came to change: read again, swept, set active, or
\* removed with all others.
SourcesOf(S) == {o \in S : o[1] \in Sources}
ListsComplete ==
    LET active == {p \in DOMAIN projects : projects[p].active}
    IN /\ SourcesOf(fileList) = SourcesOf(FilesOf(projects, DOMAIN projects))
       /\ SourcesOf(activeList) = SourcesOf(FilesOf(projects, active))
RefreshedLists == [][RefreshEnd /\ ~quiet' => ListsComplete']_vars

\* The same without exception: it fails when AddHelper() deletes a project
\* (WorkspaceInfo.cpp:954) and when Refresh() makes one active (line 1126).
RefreshCompletesLists == [][RefreshEnd => ListsComplete']_vars

\* A refresh and an AddProject() end, though AddHelper() calls itself for every
\* project it knows and project files change meanwhile.
RefreshEnds == pc # "idle" ~> pc = "idle"

\* "When a project was removed [...] by hand through the DevStudio workspace, it
\* (and its files and tags) weren't removed properly.  Fixed."
\* (Help/History200.html:373): after a refresh the projects of the workspace are
\* those its solution lists.
RemovedProjectsGone ==
    [][RefreshEnd /\ open /\ projects[Workspace].time = mtime[Workspace] =>
          \A p \in DOMAIN projects' \ {Workspace} :
              projects'[p].member => p \in ToSet(Lists[Workspace][mtime[Workspace]])]_vars
=============================================================================
