------------------------------ MODULE TagStore ------------------------------
(***************************************************************************)
(* What a project's tag database promises the rest of the program: a cache *)
(* that may forget and lies only about versions that were never read.  At  *)
(* every moment, the moments in the middle of a Save() included, what a    *)
(* load would return for a source file is the tags of the version the user *)
(* sees, or nothing.  The exception are the versions the program holds the *)
(* time stamp of and did not read the tags of: what is stored for them may *)
(* be anything, until the file has a newer version.                        *)
(*                                                                         *)
(* While the database is written everything may be forgotten at once;      *)
(* other than that, a file's tags are given up only when the program holds *)
(* those of another version.                                               *)
(*                                                                         *)
(* TagDatabase implements it; see Store there.                             *)
(***************************************************************************)
EXTENDS Naturals

CONSTANTS
    Names,       \* source files
    MaxTime,     \* bound: versions of a source file
    Tags(_, _)   \* the tags of a version of a file

VARIABLES
    src,      \* source file -> its present version
    held,     \* source file -> the version whose time stamp the program holds, or 0
    skipped,  \* pairs <<n, v>>: version v of file n was held and not read
    stored    \* source file -> what a load may return for it: a set, empty when
              \* it finds nothing

storeVars == <<src, held, skipped, stored>>

Forgotten == [n \in Names |-> {}]
Stale == {n \in Names : held[n] # src[n]}
Sure == {n \in Names : <<n, src[n]>> \notin skipped}

StoreInit ==
    /\ src = [n \in Names |-> 1]
    /\ held = [n \in Names |-> 0]
    /\ skipped = {}
    /\ stored = Forgotten

\* A new version makes what is stored for the file useless.
EditFile(n) ==
    /\ src[n] < MaxTime
    /\ src' = [src EXCEPT ![n] = @ + 1]
    /\ stored' = [stored EXCEPT ![n] = {}]
    /\ UNCHANGED <<held, skipped>>

\* The program parses or loads files, drops them, or crashes; a version it did
\* not read when it took over its time stamp stays suspect.
Learn ==
    /\ held' \in [Names -> 0 .. MaxTime]
    /\ skipped \subseteq skipped' /\ skipped' \subseteq Names \X (0 .. MaxTime)
    /\ UNCHANGED <<src, stored>>

\* The tags of some files become visible, all of them at once, and those of
\* others are replaced by what the program holds of them.
Publish(new, replaced) ==
    /\ replaced \subseteq Stale
    /\ \A n \in Sure : stored'[n] = IF n \in new THEN {Tags(n, src[n])}
                                   ELSE IF n \in replaced THEN {} ELSE stored[n]
    /\ UNCHANGED <<src, held, skipped>>

\* The database is created anew, deleted, or opened for writing at its end.
Forget == stored' = Forgotten /\ UNCHANGED <<src, held, skipped>>

StoreNext ==
    \/ \E n \in Names : EditFile(n)
    \/ Learn
    \/ \E new, replaced \in SUBSET Names : Publish(new, replaced)
    \/ Forget

StoreSpec == StoreInit /\ [][StoreNext]_storeVars
=============================================================================
