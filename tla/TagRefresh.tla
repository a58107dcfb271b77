----------------------------- MODULE TagRefresh -----------------------------
(***************************************************************************)
(* WorkspaceTags::Refresh() (Src/WWhizInterface/WorkspaceTags.cpp): the    *)
(* changed files of the workspace are found by their modification times,   *)
(* which count whole seconds, given to a Ctags process, and its output is  *)
(* parsed into the files' tag lists.  The user may cancel in any callback, *)
(* Ctags may be missing or die, and files change while it runs.            *)
(*                                                                         *)
(* The tags of a file are the sequence of what was parsed for it: a pair   *)
(* <<g, v>> stands for the tags Ctags found in version v of file g.  Every *)
(* file exists, has an extension Ctags knows and belongs to an active      *)
(* project.  The list of all tags, rebuilt from the files' lists, and the  *)
(* automatic Save() (module TagDatabase) are left out.                     *)
(***************************************************************************)
EXTENDS Integers, Sequences, SequencesExt, FiniteSets

CONSTANTS
    Files,
    Inside,       \* pairs <<f, g>>: the path of f occurs in a tag line of g
    CancelIn,     \* the loops, "read" or "parse", in which the user may cancel
    MayFail,      \* whether Ctags may be missing or die
    MaxClock,     \* bound: seconds
    MaxVersion,   \* bound: versions of a file
    MaxList       \* bound: entries of s_filenameList

ASSUME RefreshAssumption ==
    /\ Inside \subseteq {p \in Files \X Files : p[1] # p[2]}
    /\ CancelIn \subseteq {"read", "parse"}
    /\ MayFail \in BOOLEAN
    /\ IsFiniteSet(Files)
    /\ MaxClock \in Nat \ {0} /\ MaxVersion \in Nat \ {0} /\ MaxList \in Nat

VARIABLES
    autoRefresh,     \* GetAutoRefreshTags()
    clock,           \* the current second
    mtime,           \* source file -> its modification time
    version,         \* source file -> its version
    changedMap,      \* s_tagsChangedFileMap
    checkActive,     \* s_checkActiveFilesForChanges
    filesRefreshed,  \* g_filesRefreshed
    time,            \* File: time stamp
    lastUpdate,      \* File: m_lastTagUpdateTime
    tags,            \* File: tag list
    buffer,          \* File: m_tagBuffer, which Save() writes
    list,            \* s_filenameList
    pc,              \* "idle", "read", "parse" or "end"
    pos,             \* the loop's position in list
    output,          \* the tags file: what Ctags wrote and is not parsed yet
    earlyExit,
    seen,            \* history: the version and the second of the last stat()
                     \* that changed the time stamp
    disturbed        \* history: the files of a list that was not parsed to its
                     \* end, until a refresh begins that has the file once

sourceVars == <<autoRefresh, clock, mtime, version>>
changeVars == <<changedMap, checkActive>>
fileVars == <<time, lastUpdate, tags, buffer, seen>>
loopVars == <<list, pc, pos, output, earlyExit, filesRefreshed, disturbed>>
vars == <<sourceVars, changeVars, fileVars, loopVars>>

Init ==
    /\ autoRefresh \in BOOLEAN /\ disturbed = {}
    /\ clock = 1
    /\ mtime = [f \in Files |-> 1] /\ version = [f \in Files |-> 1]
    /\ changedMap = {} /\ checkActive = TRUE /\ filesRefreshed = TRUE
    /\ time = [f \in Files |-> 0] /\ lastUpdate = [f \in Files |-> 0]
    /\ tags = [f \in Files |-> << >>] /\ buffer = tags
    /\ list = << >> /\ pc = "idle" /\ pos = 1 /\ output = << >> /\ earlyExit = FALSE
    /\ seen = [f \in Files |-> [version |-> 0, at |-> 0]]

(***************************************************************************)
(* Outside the refresh.  The callbacks of a refresh process window events, *)
(* so that these steps also happen while one is under way.                 *)
(***************************************************************************)
\* The user changes the option in the preferences.
SetAutoRefreshTags ==
    /\ autoRefresh' = ~autoRefresh
    /\ UNCHANGED <<clock, mtime, version, changeVars, fileVars, loopVars>>

Tick ==
    /\ clock < MaxClock /\ clock' = clock + 1
    /\ UNCHANGED <<autoRefresh, mtime, version, changeVars, fileVars, loopVars>>

Edit(f) ==
    /\ version[f] < MaxVersion
    /\ version' = [version EXCEPT ![f] = @ + 1]
    /\ mtime' = [mtime EXCEPT ![f] = clock]
    /\ UNCHANGED <<autoRefresh, clock, changeVars, fileVars, loopVars>>

\* The editor has saved the file.
AddChangedFile(f) ==
    /\ changedMap' = changedMap \cup {f}
    /\ UNCHANGED <<sourceVars, checkActive, fileVars, loopVars>>

\* The user has switched back to Visual Studio.
CheckActiveFilesForChanges ==
    /\ checkActive' = TRUE
    /\ UNCHANGED <<sourceVars, changedMap, fileVars, loopVars>>

(***************************************************************************)
(* Refresh(): the detection of changes                                     *)
(***************************************************************************)
RefreshTags(forceRefresh) == autoRefresh \/ forceRefresh

\* The entries of the changed-file map, with those CheckDateTimeStamps() adds.
Examined(forceRefresh) ==
    IF filesRefreshed \/ checkActive \/ forceRefresh THEN Files ELSE changedMap
Changed(forceRefresh) ==
    {f \in Examined(forceRefresh) : lastUpdate[f] # clock /\ time[f] # mtime[f]}

WithTags(changed) == tags      \* mutant: the tag lists are not emptied
WithoutTags(changed) == [f \in Files |-> IF f \in changed THEN << >> ELSE tags[f]]

\* With refreshTags not set only the end of the function is left.
RefreshNothing(forceRefresh) ==
    /\ pc = "idle" /\ ~RefreshTags(forceRefresh)
    /\ list' = << >> /\ filesRefreshed' = FALSE
    /\ UNCHANGED <<sourceVars, changeVars, fileVars, pc, pos, output, earlyExit,
                   disturbed>>

Once(l) == {l[i] : i \in {k \in 1 .. Len(l) :
                               \A m \in 1 .. Len(l) : l[m] = l[k] => m = k}}

\* The map is iterated in any order; the changed files are appended to the list.
Refresh(forceRefresh) ==
    LET changed == Changed(forceRefresh)
    IN /\ pc = "idle" /\ RefreshTags(forceRefresh)
       /\ \E order \in SetToSeqs(changed) : list' = list \o order
       /\ Len(list') <= MaxList
       /\ changedMap' = {} /\ checkActive' = FALSE
       /\ lastUpdate' = [f \in Files |-> IF f \in Examined(forceRefresh) THEN clock
                                         ELSE lastUpdate[f]]
       /\ time' = [f \in Files |-> IF f \in changed THEN mtime[f] ELSE time[f]]
       /\ tags' = WithoutTags(changed)
       /\ seen' = [f \in Files |-> IF f \in changed
                                   THEN [version |-> version[f], at |-> clock]
                                   ELSE seen[f]]
       /\ IF list' = << >>
          THEN pc' = "idle" /\ filesRefreshed' = FALSE
          ELSE pc' = "read" /\ filesRefreshed' = (filesRefreshed \/ list # << >>)
       /\ disturbed' = disturbed \ Once(list')
       /\ UNCHANGED <<sourceVars, buffer, pos, output, earlyExit>>

(***************************************************************************)
(* Refresh(): the Ctags process                                            *)
(***************************************************************************)
Disturb == disturbed' = disturbed \cup ToSet(list)

\* ctags.exe, a temporary file or the process cannot be opened: return.
CtagsMissing ==
    /\ MayFail /\ pc = "read" /\ pos = 1
    /\ pc' = "idle" /\ Disturb
    /\ UNCHANGED <<sourceVars, changeVars, fileVars, list, pos, output, earlyExit,
                   filesRefreshed>>

\* A line "OPENING ..." arrives: Ctags is reading the next file.
ReadOpening ==
    /\ pc = "read"
    /\ output' = Append(output, <<list[pos], version[list[pos]]>>)
    /\ IF pos < Len(list) THEN pc' = pc /\ pos' = pos + 1
                          ELSE pc' = "parse" /\ pos' = 1
    /\ UNCHANGED <<sourceVars, changeVars, fileVars, list, earlyExit, filesRefreshed,
                   disturbed>>

\* The callback for that line returns FALSE: the process is terminated.
CancelReading ==
    /\ pc \in CancelIn /\ pc = "read"
    /\ earlyExit' = TRUE /\ pc' = "end" /\ Disturb
    /\ UNCHANGED <<sourceVars, changeVars, fileVars, list, pos, output, filesRefreshed>>

\* The pipe breaks: what Ctags has written to the tags file by then is parsed,
\* unless that is nothing at all.
CtagsDies ==
    /\ MayFail /\ pc = "read"
    /\ \E n \in 0 .. Len(output) : output' = SubSeq(output, 1, n)
    /\ pc' \in IF output' = << >> THEN {"parse", "end"} ELSE {"parse"}
    /\ pos' = 1 /\ Disturb
    /\ UNCHANGED <<sourceVars, changeVars, fileVars, list, earlyExit,
                   filesRefreshed>>

(***************************************************************************)
(* ParseTextTags()                                                         *)
(***************************************************************************)
\* A file takes the lines in which its path occurs, up to the first other one.
AnyLine(f, line) == TRUE       \* mutant: the path in the line is not looked at
OwnLine(f, line) == line[1] = f \/ <<f, line[1]>> \in Inside
OwnLines(f) == CHOOSE n \in 0 .. Len(output) :
                  /\ \A i \in 1 .. n : OwnLine(f, output[i])
                  /\ n < Len(output) => ~OwnLine(f, output[n + 1])

\* Mutant: the tag buffer is left as it was.
ParseFileKeepsBuffer ==
    LET f == list[pos]
        n == OwnLines(f)
    IN /\ pc = "parse"
       /\ tags' = [tags EXCEPT ![f] = SubSeq(output, 1, n)]
       /\ output' = SubSeq(output, n + 1, Len(output))
       /\ pos' = pos + 1
       /\ pc' = IF pos < Len(list) THEN pc ELSE "end"
       /\ UNCHANGED <<sourceVars, changeVars, time, lastUpdate, buffer, seen, list,
                      earlyExit, filesRefreshed, disturbed>>

ParseFile ==
    LET f == list[pos]
        n == OwnLines(f)
    IN /\ pc = "parse"
       /\ tags' = [tags EXCEPT ![f] = SubSeq(output, 1, n)]
       /\ buffer' = [buffer EXCEPT ![f] = tags'[f]]
       /\ output' = SubSeq(output, n + 1, Len(output))
       /\ pos' = pos + 1
       /\ pc' = IF pos < Len(list) THEN pc ELSE "end"
       /\ UNCHANGED <<sourceVars, changeVars, time, lastUpdate, seen, list, earlyExit,
                      filesRefreshed, disturbed>>

\* The callback returns FALSE: ParseTextTags() returns, and Refresh() goes on as
\* if every file had been parsed.
CancelParsing ==
    /\ pc \in CancelIn /\ pc = "parse"
    /\ pc' = "end" /\ Disturb
    /\ UNCHANGED <<sourceVars, changeVars, fileVars, list, pos, output, earlyExit,
                   filesRefreshed>>

\* Mutant: the loop's position is not reset.
RefreshEndKeepsPos ==
    /\ pc = "end"
    /\ list' = IF earlyExit THEN list ELSE << >>
    /\ pc' = "idle" /\ output' = << >> /\ earlyExit' = FALSE
    /\ filesRefreshed' = FALSE
    /\ UNCHANGED <<sourceVars, changeVars, fileVars, pos, disturbed>>

RefreshEnd ==
    /\ pc = "end"
    /\ list' = IF earlyExit THEN list ELSE << >>
    /\ pc' = "idle" /\ pos' = 1 /\ output' = << >> /\ earlyExit' = FALSE
    /\ filesRefreshed' = FALSE
    /\ UNCHANGED <<sourceVars, changeVars, fileVars, disturbed>>

Next ==
    \/ SetAutoRefreshTags \/ Tick
    \/ \E f \in Files : Edit(f) \/ AddChangedFile(f)
    \/ CheckActiveFilesForChanges
    \/ \E forceRefresh \in BOOLEAN : RefreshNothing(forceRefresh) \/ Refresh(forceRefresh)
    \/ CtagsMissing \/ ReadOpening \/ CancelReading \/ CtagsDies
    \/ ParseFile \/ CancelParsing \/ RefreshEnd

Spec == Init /\ [][Next]_vars

(***************************************************************************)
(* Properties                                                              *)
(***************************************************************************)
Line == Files \X (1 .. MaxVersion)
RefreshTypeOK ==
    /\ clock \in 1 .. MaxClock
    /\ mtime \in [Files -> 1 .. MaxClock] /\ version \in [Files -> 1 .. MaxVersion]
    /\ changedMap \subseteq Files
    /\ autoRefresh \in BOOLEAN /\ checkActive \in BOOLEAN
    /\ filesRefreshed \in BOOLEAN /\ earlyExit \in BOOLEAN
    /\ disturbed \subseteq Files
    /\ time \in [Files -> 0 .. MaxClock] /\ lastUpdate \in [Files -> 0 .. MaxClock]
    /\ tags \in [Files -> Seq(Line)] /\ buffer \in [Files -> Seq(Line)]
    /\ list \in Seq(Files) /\ output \in Seq(Line)
    /\ pc \in {"idle", "read", "parse", "end"}
    /\ pos \in 1 .. Len(list) + 1
    /\ seen \in [Files -> [version : 0 .. MaxVersion, at : 0 .. MaxClock]]

\* "Workspace Whiz will automatically sense when a file has changed and update
\* the tag list accordingly" (Help/FindTagRefresh.html:14): after a refresh the
\* tags of a file that no later refresh is to parse, and whose time stamp is its
\* modification time, are those of its present version, unless that was written
\* in the second of the check, which the time stamps cannot tell from the version
\* before.
UpToDate(f) ==
    time[f] = mtime[f] /\ seen[f].at > time[f] => tags[f] = << <<f, version[f]>> >>
TagsUpToDate == pc = "idle" => \A f \in Files \ ToSet(list) : UpToDate(f)

\* What cancelling or losing Ctags costs is limited to the files that were in the
\* list then, and to the time until a refresh has each of them in its list once:
\* every other file keeps TagsUpToDate, whatever the order of checks, cancelled
\* refreshes and changes of the option.
TagsRecover == pc = "idle" => \A f \in Files \ disturbed : UpToDate(f)

\* "Saves the list of tags to the disk" (WWhizInterface2.h:456): between two
\* refreshes what Save() writes for a file is its list of tags, except for the
\* files of a list that was not parsed to its end.
SavesTheTags == pc = "idle" => \A f \in Files \ disturbed : buffer[f] = tags[f]

\* A file's tags are never older than the version its time stamp stands for,
\* even when refreshes are cancelled, Ctags fails, and a file is queued twice:
\* a time stamp never hides tags that were parsed before it was taken.
TagsNotStale ==
    \A f \in Files : \A i \in 1 .. Len(tags[f]) :
        tags[f][i][1] = f => tags[f][i][2] >= seen[f].version

\* WWhizTag::GetFilename() "returns the filename the tag resides within"
\* (WWhizInterface2.h:124): a file's list has no tags of another file.
TagsOfOwnFile == \A f \in Files : \A i \in 1 .. Len(tags[f]) : tags[f][i][1] = f
=============================================================================
