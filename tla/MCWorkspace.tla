----------------------------- MODULE MCWorkspace -----------------------------
(***************************************************************************)
(* A workspace 5 with the projects 3 and 4, of which 4 leaves it; project 4*)
(* lists project 3; the extra files are project 2, at first none.          *)
(* All share the source file 1.                                            *)
(*                                                                         *)
(* Beside it, the names with wildcards a project file may hold, on a small *)
(* tree of files.                                                          *)
(***************************************************************************)
EXTENDS Workspace, FileGlob

MCSources == {1}
MCProjects == {2, 3, 4, 5}
MCLists ==
    << << >>,
       << << >>, <<1>> >>,
       << <<1>>, << >> >>,
       << <<1, 3>> >>,
       << <<3, 4>>, <<3>> >> >>

\* The names a, B, ab, and the patterns *, ?, a*, **, a**, **b.
a == <<97>>
b == <<98>>
B == <<66>>
ab == a \o b
MCTree == {<<a>>, <<ab>>, <<a, B>>, <<ab, a>>, <<a, a, ab>>, <<B, a, a>>, <<B, ab, a, B>>}
Parts == {a, <<Star>>, <<Question>>, a \o <<Star>>, DoubleStar, a \o DoubleStar, DoubleStar \o b}
MCWritten ==
    UNION {[1 .. n -> Parts] : n \in 1 .. 3}
    \cup {p \o Slash : p \in UNION {[1 .. n -> Parts] : n \in 1 .. 2}}

\* The globber shares nothing with the rest: its patterns are tried in the first state.
MCInit == Init /\ GlobInit
Quiet == pattern = << >> /\ UNCHANGED globVars
MCNext ==
    \/ \E p \in Projects :
          \/ EditProject(p) /\ Quiet
          \/ DeleteProject(p) /\ Quiet
          \/ RestoreProject(p) /\ Quiet
          \/ \E noRefresh \in BOOLEAN : AddProject(p, noRefresh) /\ Quiet
          \/ \E active \in BOOLEAN : SetActive(p, active) /\ Quiet
    \/ OpenOrClose /\ Quiet
    \/ RefreshFileList /\ Quiet
    \/ AddGone /\ Quiet
    \/ AddHelper /\ Quiet
    \/ ReadFails /\ Quiet
    \/ ReadProject /\ Quiet
    \/ ReadSolution /\ Quiet
    \/ AddProjectEnd /\ Quiet
    \/ Refresh /\ Quiet
    \/ RefreshEnd /\ Quiet
    \/ TagsRefreshed /\ Quiet
    \/ Init /\ GlobHelper /\ UNCHANGED vars
    \/ Init /\ GlobEnd /\ UNCHANGED vars
    \/ Init /\ (\E p \in Written : MatchPattern(p)) /\ UNCHANGED vars
MCSpec == MCInit /\ [][MCNext]_<<vars, globVars>> /\ WF_vars(JobSteps)
=============================================================================
