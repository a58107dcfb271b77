------------------------------ MODULE Entries -------------------------------
(***************************************************************************)
(* Lists in their order: what the code gets by going over a sorted list,   *)
(* or over the files of a directory, and taking some of the entries.       *)
(***************************************************************************)
EXTENDS Integers, Sequences, SequencesExt

\* The numbers of a set from the least to the greatest.
InOrder(S) == CHOOSE s \in SetToSeqs(S) : \A i, j \in DOMAIN s : i < j => s[i] < s[j]
\* The entries of a list at the positions S.
EntriesAt(l, S) == LET at == InOrder(S) IN [k \in DOMAIN at |-> l[at[k]]]
=============================================================================
