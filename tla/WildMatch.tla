----------------------------- MODULE WildMatch -----------------------------
(***************************************************************************)
(* Strings, and the comparison of a string with a wildcard pattern, without*)
(* regard to the case: WildMatch(), which is the same function in          *)
(* Src/WWhizInterface/WorkspaceTags.cpp (the path of a tag search) and in  *)
(* Src/Shared/FileGlobBase.cpp (the files of a project).                   *)
(*                                                                         *)
(* A string is a sequence of character codes.                              *)
(***************************************************************************)
EXTENDS Integers, Sequences

Upper == 65 .. 90
Star == 42
Question == 63

LowerChar(c) == IF c \in Upper THEN c + 32 ELSE c
Lower(s) == [i \in DOMAIN s |-> LowerChar(s[i])]

\* How far the walk through pattern and string is (i, j), and where it goes on when
\* they differ (mp, cp): behind the last star, with which characters it has compared
\* as many of the pattern as of the string since.  No star was met when mp is 0.
Walks(p, s) ==
    {w \in [i : 1 .. Len(p) + 1, j : 1 .. Len(s) + 1,
            mp : 0 .. Len(p) + 1, cp : 0 .. Len(s) + 2] :
        w.mp # 0 => /\ w.mp <= w.i /\ w.cp # 0 /\ w.cp + w.i = w.mp + w.j + 1
                    /\ \A k \in w.mp .. w.i - 1 : p[k] # Star}
PastStar(w) == [i |-> w.i + 1, j |-> w.j, mp |-> w.i + 1, cp |-> w.j + 1]
Onward(w) == [i |-> w.i + 1, j |-> w.j + 1, mp |-> w.mp, cp |-> w.cp]
Retry(w) == [i |-> w.mp, j |-> w.cp, mp |-> w.mp, cp |-> w.cp + 1]

\* Pattern and string are walked together; after a star, the string is tried again
\* from each of its characters (retry) when they differ.
WildMatch(pattern, string) ==
    LET p == Lower(pattern)
        s == Lower(string)
        at(i) == IF i <= Len(p) THEN p[i] ELSE 0
        run[w \in Walks(p, s)] ==
            IF w.j > Len(s) THEN \A k \in w.i .. Len(p) : p[k] = Star
            ELSE IF at(w.i) = Star THEN w.i = Len(p) \/ run[PastStar(w)]
            ELSE IF at(w.i) \in {s[w.j], Question} THEN run[Onward(w)]
            ELSE w.mp # 0 /\ run[Retry(w)]
    IN run[[i |-> 1, j |-> 1, mp |-> 0, cp |-> 0]]

\* What a pattern stands for, the reference the properties use.
Stands(pattern, string) ==
    LET from[k \in 0 .. Len(pattern)] ==    \* where its last k characters may begin
            IF k = 0 THEN {Len(string) + 1}
            ELSE LET c == pattern[Len(pattern) + 1 - k]
                     rest == from[k - 1]
                 IN {j \in 1 .. Len(string) + 1 :
                       IF c = Star THEN \E e \in rest : j <= e
                       ELSE /\ j + 1 \in rest
                            /\ c = Question \/ LowerChar(c) = LowerChar(string[j])}
    IN 1 \in from[Len(pattern)]
=============================================================================
