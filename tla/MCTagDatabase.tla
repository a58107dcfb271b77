--------------------------- MODULE MCTagDatabase ---------------------------
(***************************************************************************)
(* Two source files and one drive handle.  File 1 gets its first tags with *)
(* version 1 and has fewer in version 2; file 2 never has any.             *)
(***************************************************************************)
EXTENDS TagDatabase

CONSTANT h1

MCNames == {1, 2}
MCTimes == 0 .. MaxTime
MCHandles == {h1}
MCTagCount == << <<0, 2, 1>>, <<0, 0, 0>> >>
MCCount == [n \in Names |-> [v \in Times |-> MCTagCount[n][v + 1]]]
MCData == {FormatCell, OldCell} \cup TagCells
=============================================================================
