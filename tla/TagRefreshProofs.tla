-------------------------- MODULE TagRefreshProofs --------------------------
(***************************************************************************)
(* Proofs about module TagRefresh, for any set of files, any bounds, with  *)
(* or without cancelling and failures of Ctags.                            *)
(***************************************************************************)
EXTENDS TagRefresh, ProofLemmas

(***************************************************************************)
(* The inductive invariant                                                 *)
(***************************************************************************)
\* RefreshTypeOK in two parts: the flags and all else.
FlagsOK ==
    /\ autoRefresh \in BOOLEAN /\ checkActive \in BOOLEAN
    /\ filesRefreshed \in BOOLEAN /\ earlyExit \in BOOLEAN
DataOK ==
    /\ clock \in 1 .. MaxClock
    /\ mtime \in [Files -> 1 .. MaxClock] /\ version \in [Files -> 1 .. MaxVersion]
    /\ changedMap \subseteq Files
    /\ disturbed \subseteq Files
    /\ time \in [Files -> 0 .. MaxClock] /\ lastUpdate \in [Files -> 0 .. MaxClock]
    /\ tags \in [Files -> Seq(Line)] /\ buffer \in [Files -> Seq(Line)]
    /\ list \in Seq(Files) /\ output \in Seq(Line)
    /\ pc \in {"idle", "read", "parse", "end"}
    /\ pos \in 1 .. Len(list) + 1
    /\ seen \in [Files -> [version : 0 .. MaxVersion, at : 0 .. MaxClock]]

\* Between refreshes the loops are back at their start, while a refresh is under
\* way their position is an entry of the list, and a list that is kept for the
\* next refresh was not parsed.
LoopOK ==
    /\ pc = "idle" => pos = 1 /\ output = << >> /\ ~earlyExit
    /\ pc = "read" => pos \in 1 .. Len(list) /\ Len(output) = pos - 1
    /\ pc = "parse" => pos \in 1 .. Len(list)
    /\ pc \in {"read", "parse"} => ~earlyExit
    /\ pc = "idle" \/ earlyExit => ToSet(list) \subseteq disturbed

\* The second of a time stamp tells the version, when the file was looked at later.
SeenOK ==
    \A f \in Files :
        /\ seen[f].version <= version[f] /\ seen[f].at <= clock
        /\ time[f] = mtime[f] /\ seen[f].at > time[f] => version[f] = seen[f].version

\* Ctags read the files after their time stamps were taken.
OutputFresh ==
    \A i \in 1 .. Len(output) :
        /\ output[i][2] >= seen[output[i][1]].version
        /\ output[i][2] <= version[output[i][1]]

\* Every entry of f in the list is parsed.
Passed(f) ==
    \A k \in 1 .. Len(list) :
        list[k] = f => pc # "read" /\ (pc = "parse" => k < pos)
Saved == \A f \in Files \ disturbed : Passed(f) => buffer[f] = tags[f]

IInv == FlagsOK /\ DataOK /\ LoopOK /\ SeenOK /\ OutputFresh /\ TagsNotStale /\ Saved

(***************************************************************************)
(* The lists                                                               *)
(***************************************************************************)
\* The lines a file takes are the first ones, all its own, and as many as can be.
LEMMA OwnLinesTaken ==
    ASSUME output \in Seq(Line), NEW f
    PROVE  /\ OwnLines(f) \in 0 .. Len(output)
           /\ \A i \in 1 .. OwnLines(f) : OwnLine(f, output[i])
           /\ OwnLines(f) < Len(output) => ~OwnLine(f, output[OwnLines(f) + 1])
<1> DEFINE P(n) == /\ \A i \in 1 .. n : OwnLine(f, output[i])
                   /\ n < Len(output) => ~OwnLine(f, output[n + 1])
           S == {n \in 0 .. Len(output) : n < Len(output) => ~OwnLine(f, output[n + 1])}
<1>1. Len(output) \in Nat
  OBVIOUS
<1>2. S \in SUBSET Nat /\ S # {}
  <2>1. Len(output) \in S
    BY <1>1
  <2> QED BY <1>1, <2>1
<1>3. PICK n \in S : \A m \in S : n <= m
  BY <1>2, MinExists
<1>4. \A i \in 1 .. n : OwnLine(f, output[i])
  <2> SUFFICES ASSUME NEW i \in 1 .. n PROVE OwnLine(f, output[i])
    OBVIOUS
  <2>1. i - 1 \in 0 .. Len(output) /\ i - 1 < n /\ i - 1 < Len(output) /\ (i - 1) + 1 = i
    BY <1>1
  <2>2. i - 1 \notin S
    BY <1>3, <2>1
  <2> QED BY <2>1, <2>2
<1>5. n \in 0 .. Len(output) /\ P(n)
  BY <1>4
<1> HIDE DEF P, S
<1>6. OwnLines(f) = CHOOSE k \in 0 .. Len(output) : P(k)
  BY DEF OwnLines, P
<1>7. OwnLines(f) \in 0 .. Len(output) /\ P(OwnLines(f))
  BY <1>5, <1>6
<1> QED BY <1>7 DEF P

\* The list of a new refresh: the old one and the changed files in some order.
LEMMA NewList ==
    ASSUME DataOK, NEW changed \in SUBSET Files, NEW order \in SetToSeqs(changed)
    PROVE  /\ list \o order \in Seq(Files)
           /\ ToSet(list \o order) = ToSet(list) \cup changed
<1>1. IsFiniteSet(changed)
  BY RefreshAssumption, FS_Subset
<1>2. order \in Seq(changed) /\ ToSet(order) = changed
  BY <1>1, OrderOfSet
<1>3. list \in Seq(Files) /\ order \in Seq(Files)
  BY <1>2, SeqMonotonic DEF DataOK
<1> QED BY <1>2, <1>3, ToSetOfConcat

\* The file and the version of a line of the tags file.
LEMMA LineParts ==
    ASSUME DataOK, NEW i \in 1 .. Len(output)
    PROVE  /\ output[i] \in Line /\ output[i] = <<output[i][1], output[i][2]>>
           /\ output[i][1] \in Files /\ output[i][2] \in Nat
<1>1. output[i] \in Line
  BY ElementOfSeq DEF DataOK
<1> QED BY <1>1, RefreshAssumption DEF Line

(***************************************************************************)
(* The steps                                                               *)
(***************************************************************************)
LEMMA InitIInv == Init => IInv
<1> SUFFICES ASSUME Init PROVE IInv
  OBVIOUS
<1>1. 1 \in 1 .. MaxClock /\ 1 \in 1 .. MaxVersion /\ 0 \in 0 .. MaxClock
      /\ 0 \in 0 .. MaxVersion
  BY RefreshAssumption
<1>2. << >> \in Seq(Line) /\ << >> \in Seq(Files) /\ Len(<< >>) = 0
  OBVIOUS
<1>3. DataOK
  BY <1>1, <1>2 DEF Init, DataOK
<1> FlagsOK
  BY DEF Init, FlagsOK
<1>4. ToSet(list) = {}
  BY DEF Init, ToSet
<1>5. LoopOK /\ OutputFresh /\ TagsNotStale /\ Saved
  BY <1>2, <1>4 DEF Init, LoopOK, OutputFresh, TagsNotStale, Saved
<1>6. SeenOK
  BY RefreshAssumption DEF Init, SeenOK
<1> QED BY <1>3, <1>5, <1>6 DEF IInv

LEMMA StutterIInv == IInv /\ UNCHANGED vars => IInv'
<1> SUFFICES ASSUME IInv, UNCHANGED vars PROVE IInv'
  OBVIOUS
<1>1. FlagsOK'
  BY DEF IInv, FlagsOK, vars, sourceVars, changeVars, loopVars
<1>2. DataOK'
  BY DEF IInv, DataOK, vars, sourceVars, changeVars, fileVars, loopVars
<1>3. LoopOK' /\ SeenOK' /\ OutputFresh' /\ TagsNotStale' /\ Saved'
  BY DEF IInv, LoopOK, SeenOK, OutputFresh, TagsNotStale, Saved, Passed, vars, sourceVars,
         fileVars, loopVars
<1> QED BY <1>1, <1>2, <1>3 DEF IInv

\* What the user does while a refresh may be under way.
LEMMA OutsideIInv ==
    ASSUME IInv,
           \/ SetAutoRefreshTags \/ Tick \/ CheckActiveFilesForChanges
           \/ \E f \in Files : Edit(f) \/ AddChangedFile(f)
    PROVE  IInv'
<1> USE DEF IInv
<1>1. UNCHANGED <<fileVars, loopVars>>
  BY DEF SetAutoRefreshTags, Tick, CheckActiveFilesForChanges, Edit, AddChangedFile
<1>2. LoopOK' /\ TagsNotStale' /\ Saved'
  BY <1>1 DEF LoopOK, TagsNotStale, Saved, Passed, fileVars, loopVars
<1>3. /\ clock' \in 1 .. MaxClock /\ mtime' \in [Files -> 1 .. MaxClock]
      /\ version' \in [Files -> 1 .. MaxVersion] /\ changedMap' \subseteq Files
  <2>1. CASE SetAutoRefreshTags \/ CheckActiveFilesForChanges
    BY <2>1 DEF SetAutoRefreshTags, CheckActiveFilesForChanges, DataOK, sourceVars,
                changeVars
  <2>2. CASE Tick
    BY <2>2, RefreshAssumption DEF Tick, DataOK, changeVars
  <2>3. CASE \E f \in Files : AddChangedFile(f)
    BY <2>3 DEF AddChangedFile, DataOK, sourceVars
  <2>4. CASE \E f \in Files : Edit(f)
    <3>1. PICK f \in Files : Edit(f)
      BY <2>4
    <3>2. version[f] + 1 \in 1 .. MaxVersion /\ clock \in 1 .. MaxClock
      BY <3>1, RefreshAssumption, SMTT(30) DEF Edit, DataOK
    <3> QED BY <3>1, <3>2 DEF Edit, DataOK, changeVars
  <2> QED BY <2>1, <2>2, <2>3, <2>4
<1> FlagsOK'
  <2> USE DEF FlagsOK, sourceVars, changeVars, loopVars
  <2>1. CASE SetAutoRefreshTags
    BY <2>1 DEF SetAutoRefreshTags
  <2>2. CASE Tick
    BY <2>2 DEF Tick
  <2>3. CASE CheckActiveFilesForChanges
    BY <2>3 DEF CheckActiveFilesForChanges
  <2>4. CASE \E f \in Files : Edit(f) \/ AddChangedFile(f)
    BY <2>4 DEF Edit, AddChangedFile
  <2> QED BY <2>1, <2>2, <2>3, <2>4
<1>4. DataOK'
  BY <1>1, <1>3 DEF DataOK, fileVars, loopVars
<1>5. OutputFresh'
  <2>1. ASSUME NEW f \in Files
        PROVE  version[f] \in Nat /\ version'[f] \in Nat /\ version[f] <= version'[f]
    <3>1. version[f] \in Nat /\ version'[f] \in Nat
      <4>1. version[f] \in 1 .. MaxVersion /\ version'[f] \in 1 .. MaxVersion
        BY <1>3 DEF DataOK
      <4> QED BY <4>1, RefreshAssumption
    <3>2. CASE version' = version
      BY <3>1, <3>2
    <3>3. CASE \E g \in Files : Edit(g)
      <4>1. PICK g \in Files : version' = [version EXCEPT ![g] = @ + 1]
        BY <3>3 DEF Edit
      <4>2. version \in [Files -> 1 .. MaxVersion]
        BY DEF DataOK
      <4> QED BY <3>1, <4>1, <4>2
    <3> QED BY <3>2, <3>3 DEF SetAutoRefreshTags, Tick, CheckActiveFilesForChanges,
                              AddChangedFile, sourceVars
  <2>2. SUFFICES ASSUME NEW i \in 1 .. Len(output)
                 PROVE  /\ output[i][2] >= seen[output[i][1]].version
                        /\ output[i][2] <= version'[output[i][1]]
    BY <1>1 DEF OutputFresh, fileVars, loopVars
  <2>3. output[i][1] \in Files /\ output[i][2] \in Nat
    BY LineParts
  <2> QED BY <2>1, <2>3 DEF OutputFresh
<1>6. SeenOK'
  <2>1. SUFFICES ASSUME NEW f \in Files
                 PROVE  /\ seen[f].version <= version'[f] /\ seen[f].at <= clock'
                        /\ time[f] = mtime'[f] /\ seen[f].at > time[f] =>
                              version'[f] = seen[f].version
    BY <1>1 DEF SeenOK, fileVars
  <2>2. /\ seen[f].version <= version[f] /\ seen[f].at <= clock
        /\ time[f] = mtime[f] /\ seen[f].at > time[f] => version[f] = seen[f].version
    BY DEF SeenOK
  <2>3. /\ seen[f].at \in Nat /\ seen[f].version \in Nat /\ clock \in Nat
        /\ version[f] \in Nat /\ time[f] \in Nat
    <3>1. /\ seen[f].at \in 0 .. MaxClock /\ seen[f].version \in 0 .. MaxVersion
          /\ clock \in 1 .. MaxClock /\ version[f] \in 1 .. MaxVersion
          /\ time[f] \in 0 .. MaxClock
      BY DEF DataOK
    <3> QED BY <3>1, RefreshAssumption
  <2>4. CASE UNCHANGED <<mtime, version>> /\ clock' \in {clock, clock + 1}
    BY <2>2, <2>3, <2>4
  <2>5. CASE \E g \in Files : Edit(g)
    <3>1. PICK g \in Files : Edit(g)
      BY <2>5
    <3>2. CASE g = f
      BY <2>2, <2>3, <3>1, <3>2, SMTT(30) DEF Edit, DataOK
    <3>3. CASE g # f
      BY <2>2, <3>1, <3>3 DEF Edit, DataOK
    <3> QED BY <3>2, <3>3
  <2> QED BY <2>4, <2>5 DEF SetAutoRefreshTags, Tick, CheckActiveFilesForChanges,
                            AddChangedFile, sourceVars
<1> QED BY <1>2, <1>4, <1>5, <1>6

\* A refresh begins, or ends at once.
LEMMA RefreshIInv ==
    ASSUME IInv, NEW forceRefresh \in BOOLEAN,
           RefreshNothing(forceRefresh) \/ Refresh(forceRefresh)
    PROVE  IInv'
<1> USE DEF IInv
<1>1. CASE RefreshNothing(forceRefresh)
  <2>1. list' = << >> /\ ToSet(list') = {}
    BY <1>1 DEF RefreshNothing, ToSet
  <2>2. DataOK' /\ LoopOK'
    BY <1>1, <2>1 DEF RefreshNothing, DataOK, LoopOK, sourceVars, changeVars, fileVars
  <2>3. Saved'
    <3>1. SUFFICES ASSUME NEW f \in Files \ disturbed PROVE buffer[f] = tags[f]
      BY <1>1 DEF RefreshNothing, Saved, fileVars
    <3>2. list \in Seq(Files) /\ f \notin ToSet(list)
      BY <1>1 DEF RefreshNothing, LoopOK, DataOK
    <3>3. Passed(f)
      BY <3>2, ToSetOfSeq DEF Passed
    <3> QED BY <3>3 DEF Saved
  <2>4. SeenOK' /\ OutputFresh' /\ TagsNotStale'
    BY <1>1 DEF RefreshNothing, SeenOK, OutputFresh, TagsNotStale, sourceVars, fileVars
  <2>5. FlagsOK'
    BY <1>1 DEF RefreshNothing, FlagsOK, sourceVars, changeVars
  <2> QED BY <2>2, <2>3, <2>4, <2>5
<1>2. CASE Refresh(forceRefresh)
  <2> DEFINE changed == Changed(forceRefresh)
  <2>1. changed \in SUBSET Files
    BY DEF Changed, Examined, DataOK
  <2>2. PICK order \in SetToSeqs(changed) : list' = list \o order
    BY <1>2 DEF Refresh
  <2>3. /\ list' \in Seq(Files) /\ ToSet(list') = ToSet(list) \cup changed
        /\ Len(list') \in Nat
    BY <2>1, <2>2, NewList
  <2>4. /\ pc = "idle" /\ pos = 1 /\ output = << >> /\ ~earlyExit
        /\ ToSet(list) \subseteq disturbed
        /\ UNCHANGED <<sourceVars, buffer, pos, output, earlyExit>>
        /\ changedMap' = {} /\ checkActive' = FALSE
        /\ disturbed' = disturbed \ Once(list')
        /\ pc' = IF list' = << >> THEN "idle" ELSE "read"
        /\ filesRefreshed' \in BOOLEAN
    BY <1>2 DEF Refresh, LoopOK, DataOK
  <2>5. /\ lastUpdate' = [f \in Files |-> IF f \in Examined(forceRefresh) THEN clock
                                          ELSE lastUpdate[f]]
        /\ time' = [f \in Files |-> IF f \in changed THEN mtime[f] ELSE time[f]]
        /\ tags' = [f \in Files |-> IF f \in changed THEN << >> ELSE tags[f]]
        /\ seen' = [f \in Files |-> IF f \in changed
                                    THEN [version |-> version[f], at |-> clock]
                                    ELSE seen[f]]
    BY <1>2 DEF Refresh, WithoutTags
  <2> HIDE DEF changed
  <2>6. DataOK'
    <3>1. /\ clock \in 0 .. MaxClock
          /\ \A f \in Files : /\ mtime[f] \in 0 .. MaxClock /\ version[f] \in 0 .. MaxVersion
                              /\ time[f] \in 0 .. MaxClock /\ lastUpdate[f] \in 0 .. MaxClock
                              /\ tags[f] \in Seq(Line)
                              /\ seen[f] \in [version : 0 .. MaxVersion, at : 0 .. MaxClock]
      BY RefreshAssumption DEF DataOK
    <3>2. /\ lastUpdate' \in [Files -> 0 .. MaxClock] /\ time' \in [Files -> 0 .. MaxClock]
          /\ tags' \in [Files -> Seq(Line)]
          /\ seen' \in [Files -> [version : 0 .. MaxVersion, at : 0 .. MaxClock]]
      BY <2>5, <3>1
    <3>3. pos' \in 1 .. Len(list') + 1 /\ disturbed' \subseteq Files
          /\ pc' \in {"idle", "read", "parse", "end"}
      BY <2>3, <2>4 DEF DataOK
    <3> QED BY <2>3, <2>4, <3>2, <3>3 DEF DataOK, sourceVars
  <2>7. LoopOK'
    <3>1. CASE list' = << >>
      BY <2>4, <3>1 DEF LoopOK, ToSet
    <3>2. CASE list' # << >>
      <4>1. Len(list') \in Nat /\ Len(list') # 0 /\ Len(output') = 0
        BY <2>3, <2>4, <3>2
      <4> QED BY <2>4, <3>2, <4>1 DEF LoopOK
    <3> QED BY <3>1, <3>2
  <2>8. OutputFresh'
    BY <2>4 DEF OutputFresh
  <2>9. TagsNotStale'
    <3> SUFFICES ASSUME NEW f \in Files, NEW i \in 1 .. Len(tags'[f]), tags'[f][i][1] = f
                 PROVE  tags'[f][i][2] >= seen'[f].version
      BY DEF TagsNotStale
    <3>1. f \notin changed
      BY <2>5
    <3> QED BY <2>5, <3>1 DEF TagsNotStale
  <2>10. Saved'
    <3> SUFFICES ASSUME NEW f \in Files \ disturbed', Passed(f)'
                 PROVE  buffer'[f] = tags'[f]
      BY DEF Saved
    <3>1. f \notin ToSet(list')
      <4> SUFFICES ASSUME f \in ToSet(list') PROVE FALSE
        OBVIOUS
      <4>1. PICK k \in 1 .. Len(list') : list'[k] = f
        BY <2>3, ToSetOfSeq
      <4>2. list' # << >>
        BY <4>1
      <4> QED BY <2>4, <4>1, <4>2 DEF Passed
    <3>2. f \notin Once(list')
      BY <2>3, <3>1, ToSetOfSeq DEF Once
    <3>3. f \in Files \ disturbed /\ f \notin changed /\ f \notin ToSet(list)
      BY <2>3, <2>4, <3>1, <3>2
    <3>4. list \in Seq(Files)
      BY DEF DataOK
    <3>5. Passed(f)
      BY <3>3, <3>4, ToSetOfSeq DEF Passed
    <3> QED BY <2>4, <2>5, <3>3, <3>5 DEF Saved
  <2>11. FlagsOK'
    BY <2>4 DEF FlagsOK, sourceVars
  <2>12. SeenOK'
    <3>1. SUFFICES ASSUME NEW f \in Files
                   PROVE  /\ seen'[f].version <= version[f] /\ seen'[f].at <= clock
                          /\ time'[f] = mtime[f] /\ seen'[f].at > time'[f] =>
                                version[f] = seen'[f].version
      BY <2>4 DEF SeenOK, sourceVars
    <3>2. clock \in 1 .. MaxClock /\ version[f] \in 1 .. MaxVersion
      BY DEF DataOK
    <3>3. version[f] <= version[f] /\ clock <= clock
      BY <3>2, RefreshAssumption
    <3> QED BY <2>5, <3>3 DEF SeenOK
  <2> QED BY <2>6, <2>7, <2>8, <2>9, <2>10, <2>11, <2>12
<1> QED BY <1>1, <1>2

\* The refresh is given up: Ctags cannot be started, or the user cancels.
LEMMA GiveUpIInv ==
    ASSUME IInv, CtagsMissing \/ CancelReading \/ CancelParsing
    PROVE  IInv'
<1> USE DEF IInv
<1>1. /\ UNCHANGED <<sourceVars, changeVars, fileVars, list, pos, output, filesRefreshed>>
      /\ disturbed' = disturbed \cup ToSet(list)
  BY DEF CtagsMissing, CancelReading, CancelParsing, Disturb
<1>2. list \in Seq(Files) /\ ToSet(list) \subseteq Files
  BY ToSetOfSeq DEF DataOK
<1>3. pc' \in {"idle", "end"} /\ (pc' = "idle" => pos = 1 /\ output = << >> /\ ~earlyExit')
  <2>1. CASE CtagsMissing
    <3>1. output \in Seq(Line) /\ Len(output) = 0
      BY <2>1 DEF CtagsMissing, LoopOK, DataOK
    <3>2. output = << >>
      BY <3>1
    <3> QED BY <2>1, <3>2 DEF CtagsMissing, LoopOK
  <2>2. CASE CancelReading \/ CancelParsing
    BY <2>2 DEF CancelReading, CancelParsing
  <2> QED BY <2>1, <2>2
<1>4. FlagsOK'
  BY <1>1 DEF FlagsOK, CtagsMissing, CancelReading, CancelParsing, sourceVars, changeVars
<1>5. DataOK'
  BY <1>1, <1>2, <1>3 DEF DataOK, sourceVars, changeVars, fileVars
<1>6. LoopOK'
  BY <1>1, <1>3 DEF LoopOK
<1>7. SeenOK' /\ OutputFresh' /\ TagsNotStale'
  BY <1>1 DEF SeenOK, OutputFresh, TagsNotStale, sourceVars, fileVars
<1>8. Saved'
  <2> SUFFICES ASSUME NEW f \in Files \ disturbed' PROVE buffer[f] = tags[f]
    BY <1>1 DEF Saved, fileVars
  <2>1. f \in Files \ disturbed /\ Passed(f)
    BY <1>1, <1>2, ToSetOfSeq DEF Passed
  <2> QED BY <2>1 DEF Saved
<1> QED BY <1>4, <1>5, <1>6, <1>7, <1>8

\* Ctags reads the next file: the line it will write has the present version.
LEMMA ReadIInv ==
    ASSUME IInv, ReadOpening
    PROVE  IInv'
<1> USE DEF IInv
<1> DEFINE f == list[pos]
           line == <<f, version[f]>>
<1>1. /\ pos \in 1 .. Len(list) /\ Len(output) = pos - 1 /\ ~earlyExit
      /\ output' = Append(output, line)
      /\ UNCHANGED <<sourceVars, changeVars, fileVars, list, earlyExit, filesRefreshed,
                     disturbed>>
  BY DEF ReadOpening, LoopOK
<1>2. f \in Files /\ version[f] \in 1 .. MaxVersion /\ line \in Line
      /\ line[1] = f /\ line[2] = version[f]
  BY <1>1, ElementOfSeq DEF DataOK, Line
<1>3. /\ output \in Seq(Line) /\ list \in Seq(Files) /\ Len(list) \in Nat
  BY DEF DataOK
<1> HIDE DEF line, f
<1>4. /\ output' \in Seq(Line) /\ Len(output') = Len(output) + 1
      /\ \A i \in 1 .. Len(output) : output'[i] = output[i]
      /\ output'[Len(output) + 1] = line
  BY <1>1, <1>2, <1>3
<1>5. \/ pc' = "read" /\ pos' = pos + 1 /\ pos < Len(list)
      \/ pc' = "parse" /\ pos' = 1
  BY DEF ReadOpening
<1>6. FlagsOK'
  BY <1>1 DEF FlagsOK, sourceVars, changeVars
<1>7. DataOK'
  <2>1. pos' \in 1 .. Len(list) + 1 /\ pc' \in {"idle", "read", "parse", "end"}
    BY <1>1, <1>3, <1>5
  <2> QED BY <1>1, <1>4, <2>1 DEF DataOK, sourceVars, changeVars, fileVars
<1>8. LoopOK'
  BY <1>1, <1>3, <1>4, <1>5 DEF LoopOK
<1>9. SeenOK' /\ TagsNotStale'
  BY <1>1 DEF SeenOK, TagsNotStale, sourceVars, fileVars
<1>10. OutputFresh'
  <2>1. SUFFICES ASSUME NEW i \in 1 .. Len(output')
                 PROVE  /\ output'[i][2] >= seen[output'[i][1]].version
                        /\ output'[i][2] <= version[output'[i][1]]
    BY <1>1 DEF OutputFresh, fileVars, sourceVars
  <2>2. CASE i \in 1 .. Len(output)
    BY <1>4, <2>2 DEF OutputFresh
  <2>3. CASE i = Len(output) + 1
    <3>1. seen[f].version <= version[f] /\ version[f] <= version[f]
      BY <1>2, RefreshAssumption DEF SeenOK
    <3> QED BY <1>2, <1>4, <2>3, <3>1
  <2> QED BY <1>1, <1>3, <1>4, <2>2, <2>3
<1>11. Saved'
  <2> SUFFICES ASSUME NEW g \in Files \ disturbed, Passed(g)' PROVE buffer[g] = tags[g]
    BY <1>1 DEF Saved, fileVars
  <2>1. Passed(g)
    <3>1. SUFFICES ASSUME NEW k \in 1 .. Len(list), list[k] = g PROVE FALSE
      BY DEF Passed
    <3> QED BY <1>1, <1>5, <3>1 DEF Passed
  <2> QED BY <2>1 DEF Saved
<1> QED BY <1>6, <1>7, <1>8, <1>9, <1>10, <1>11

\* Ctags dies: of its lines the first ones are left.
LEMMA DiesIInv ==
    ASSUME IInv, CtagsDies
    PROVE  IInv'
<1> USE DEF IInv
<1>1. /\ pc = "read" /\ pos \in 1 .. Len(list) /\ ~earlyExit
      /\ pos' = 1 /\ disturbed' = disturbed \cup ToSet(list)
      /\ UNCHANGED <<sourceVars, changeVars, fileVars, list, earlyExit, filesRefreshed>>
      /\ pc' \in {"parse", "end"}
  BY DEF CtagsDies, Disturb, LoopOK
<1>2. PICK n \in 0 .. Len(output) : output' = SubSeq(output, 1, n)
  BY DEF CtagsDies
<1>3. /\ list \in Seq(Files) /\ ToSet(list) \subseteq Files /\ Len(list) \in Nat
      /\ output \in Seq(Line) /\ Len(output) \in Nat
  BY ToSetOfSeq DEF DataOK
<1>4. /\ output' \in Seq(Line) /\ Len(output') = n
      /\ \A i \in 1 .. n : output'[i] = output[i]
  BY <1>2, <1>3
<1>5. FlagsOK'
  BY <1>1 DEF FlagsOK, sourceVars, changeVars
<1>6. DataOK'
  <2>1. pos' \in 1 .. Len(list) + 1 /\ pc' \in {"idle", "read", "parse", "end"}
    BY <1>1, <1>3
  <2> QED BY <1>1, <1>3, <1>4, <2>1 DEF DataOK, sourceVars, changeVars, fileVars
<1>7. LoopOK'
  BY <1>1, <1>3 DEF LoopOK
<1>8. SeenOK' /\ TagsNotStale'
  BY <1>1 DEF SeenOK, TagsNotStale, sourceVars, fileVars
<1>9. OutputFresh'
  BY <1>1, <1>2, <1>3, <1>4 DEF OutputFresh, sourceVars, fileVars
<1>10. Saved'
  <2> SUFFICES ASSUME NEW f \in Files \ disturbed' PROVE buffer[f] = tags[f]
    BY <1>1 DEF Saved, fileVars
  <2>1. f \in Files \ disturbed /\ Passed(f)
    BY <1>1, <1>3, ToSetOfSeq DEF Passed
  <2> QED BY <2>1 DEF Saved
<1> QED BY <1>5, <1>6, <1>7, <1>8, <1>9, <1>10

\* What ParseFile does: the file at the loop's position takes the first n lines.
LEMMA ParseTakes ==
    ASSUME IInv, ParseFile
    PROVE  /\ list[pos] \in Files /\ OwnLines(list[pos]) \in 0 .. Len(output)
           /\ \E taken, left \in Seq(Line) :
                 /\ tags' = [tags EXCEPT ![list[pos]] = taken]
                 /\ buffer' = [buffer EXCEPT ![list[pos]] = taken]
                 /\ output' = left
                 /\ Len(taken) = OwnLines(list[pos])
                 /\ Len(left) = Len(output) - OwnLines(list[pos])
                 /\ \A i \in 1 .. Len(taken) : taken[i] = output[i]
                 /\ \A i \in 1 .. Len(left) : left[i] = output[OwnLines(list[pos]) + i]
<1> USE DEF IInv
<1> DEFINE f == list[pos]
           n == OwnLines(f)
           taken == SubSeq(output, 1, n)
           left == SubSeq(output, n + 1, Len(output))
<1>1. pos \in 1 .. Len(list) /\ list \in Seq(Files) /\ output \in Seq(Line)
  BY DEF ParseFile, LoopOK, DataOK
<1>2. f \in Files /\ n \in 0 .. Len(output) /\ Len(output) \in Nat
  BY <1>1, ElementOfSeq, OwnLinesTaken
<1>3. /\ tags' = [tags EXCEPT ![f] = taken] /\ buffer' = [buffer EXCEPT ![f] = tags'[f]]
      /\ output' = left
  BY DEF ParseFile
<1>4. tags'[f] = taken
  BY <1>2, <1>3 DEF DataOK
<1> HIDE DEF f, n
<1>5. /\ taken \in Seq(Line) /\ Len(taken) = n
      /\ \A i \in 1 .. n : taken[i] = output[i]
  BY <1>1, <1>2
<1>6. /\ left \in Seq(Line) /\ Len(left) = Len(output) - n
      /\ \A i \in 1 .. Len(output) - n : left[i] = output[n + i]
  BY <1>1, <1>2
<1> HIDE DEF taken, left
<1>7. /\ tags' = [tags EXCEPT ![f] = taken] /\ buffer' = [buffer EXCEPT ![f] = taken]
      /\ output' = left
  BY <1>3, <1>4
<1> QED BY <1>2, <1>5, <1>6, <1>7 DEF f, n

LEMMA ParseIInv ==
    ASSUME IInv, ParseFile
    PROVE  IInv'
<1> USE DEF IInv
<1> DEFINE f == list[pos]
           n == OwnLines(f)
<1>1. /\ pc = "parse" /\ pos \in 1 .. Len(list) /\ ~earlyExit /\ pos' = pos + 1
      /\ pc' = IF pos < Len(list) THEN "parse" ELSE "end"
      /\ UNCHANGED <<sourceVars, changeVars, time, lastUpdate, seen, list, earlyExit,
                     filesRefreshed, disturbed>>
  BY DEF ParseFile, LoopOK
<1>2. f \in Files /\ n \in 0 .. Len(output)
  BY ParseTakes
<1>3. PICK taken \in Seq(Line), left \in Seq(Line) :
        /\ tags' = [tags EXCEPT ![f] = taken] /\ buffer' = [buffer EXCEPT ![f] = taken]
        /\ output' = left
        /\ Len(taken) = n /\ Len(left) = Len(output) - n
        /\ \A i \in 1 .. Len(taken) : taken[i] = output[i]
        /\ \A i \in 1 .. Len(left) : left[i] = output[n + i]
  BY ParseTakes
<1> HIDE DEF f, n
<1>4. /\ list \in Seq(Files) /\ Len(list) \in Nat /\ Len(output) \in Nat
      /\ tags \in [Files -> Seq(Line)] /\ buffer \in [Files -> Seq(Line)]
  BY DEF DataOK
<1>5. FlagsOK'
  BY <1>1 DEF FlagsOK, sourceVars, changeVars
<1>6. DataOK'
  <2>1. pos' \in 1 .. Len(list) + 1 /\ pc' \in {"idle", "read", "parse", "end"}
    BY <1>1, <1>4
  <2>2. tags' \in [Files -> Seq(Line)] /\ buffer' \in [Files -> Seq(Line)]
        /\ output' \in Seq(Line)
    BY <1>3, <1>4
  <2> QED BY <1>1, <2>1, <2>2 DEF DataOK, sourceVars, changeVars
<1>7. LoopOK'
  BY <1>1, <1>4 DEF LoopOK
<1>8. SeenOK'
  BY <1>1 DEF SeenOK, sourceVars
<1>9. OutputFresh'
  <2> SUFFICES ASSUME NEW i \in 1 .. Len(left)
               PROVE  /\ left[i][2] >= seen[left[i][1]].version
                      /\ left[i][2] <= version[left[i][1]]
    BY <1>1, <1>3 DEF OutputFresh, sourceVars
  <2>1. n + i \in 1 .. Len(output) /\ left[i] = output[n + i]
    BY <1>2, <1>3, <1>4
  <2> QED BY <2>1 DEF OutputFresh
<1>10. TagsNotStale'
  <2> SUFFICES ASSUME NEW g \in Files, NEW i \in 1 .. Len(tags'[g]), tags'[g][i][1] = g
               PROVE  tags'[g][i][2] >= seen[g].version
    BY <1>1 DEF TagsNotStale
  <2>1. CASE g = f
    <3>1. tags'[g] = taken
      BY <1>2, <1>3, <1>4, <2>1
    <3>2. i \in 1 .. Len(output) /\ tags'[g][i] = output[i]
      BY <1>2, <1>3, <1>4, <3>1
    <3> QED BY <3>2 DEF OutputFresh
  <2>2. CASE g # f
    BY <1>3, <1>4, <2>2 DEF TagsNotStale
  <2> QED BY <2>1, <2>2
<1>11. Saved'
  <2> SUFFICES ASSUME NEW g \in Files \ disturbed, Passed(g)'
               PROVE  buffer'[g] = tags'[g]
    BY <1>1 DEF Saved
  <2>1. CASE g = f
    BY <1>2, <1>3, <1>4, <2>1
  <2>2. CASE g # f
    <3>1. Passed(g)
      <4>1. SUFFICES ASSUME NEW k \in 1 .. Len(list), list[k] = g PROVE k < pos
        BY <1>1 DEF Passed
      <4>2. k # pos
        BY <2>2, <4>1 DEF f
      <4>3. k < pos + 1
        BY <1>1, <1>4, <4>1, SMTT(30) DEF Passed
      <4> QED BY <1>1, <1>4, <4>2, <4>3
    <3> QED BY <1>3, <1>4, <2>2, <3>1 DEF Saved
  <2> QED BY <2>1, <2>2
<1> QED BY <1>5, <1>6, <1>7, <1>8, <1>9, <1>10, <1>11

LEMMA EndIInv ==
    ASSUME IInv, RefreshEnd
    PROVE  IInv'
<1> USE DEF IInv
<1>1. /\ pc = "end" /\ list' = IF earlyExit THEN list ELSE << >>
      /\ pc' = "idle" /\ pos' = 1 /\ output' = << >> /\ earlyExit' = FALSE
      /\ filesRefreshed' = FALSE
      /\ UNCHANGED <<sourceVars, changeVars, fileVars, disturbed>>
  BY DEF RefreshEnd
<1>2. list' \in Seq(Files) /\ output' \in Seq(Line) /\ Len(output') = 0 /\ Len(list') \in Nat
  BY <1>1 DEF DataOK
<1>3. FlagsOK'
  BY <1>1 DEF FlagsOK, sourceVars, changeVars
<1>4. DataOK'
  <2>1. pos' \in 1 .. Len(list') + 1
    BY <1>1, <1>2
  <2> QED BY <1>1, <1>2, <2>1 DEF DataOK, sourceVars, changeVars, fileVars
<1>5. LoopOK'
  <2>1. ToSet(list') \subseteq disturbed
    BY <1>1 DEF LoopOK, ToSet
  <2> QED BY <1>1, <2>1 DEF LoopOK
<1>6. SeenOK' /\ TagsNotStale' /\ OutputFresh'
  BY <1>1, <1>2 DEF SeenOK, TagsNotStale, OutputFresh, sourceVars, fileVars
<1>7. Saved'
  <2> SUFFICES ASSUME NEW g \in Files \ disturbed PROVE buffer[g] = tags[g]
    BY <1>1 DEF Saved, fileVars
  <2> QED BY <1>1 DEF Saved, Passed
<1> QED BY <1>3, <1>4, <1>5, <1>6, <1>7

LEMMA NextIInv == IInv /\ [Next]_vars => IInv'
<1> SUFFICES ASSUME IInv, [Next]_vars PROVE IInv'
  OBVIOUS
<1>1. CASE UNCHANGED vars
  BY <1>1, StutterIInv
<1>2. CASE \/ SetAutoRefreshTags \/ Tick \/ CheckActiveFilesForChanges
           \/ \E f \in Files : Edit(f) \/ AddChangedFile(f)
  BY <1>2, OutsideIInv
<1>3. CASE \E forceRefresh \in BOOLEAN :
              RefreshNothing(forceRefresh) \/ Refresh(forceRefresh)
  BY <1>3, RefreshIInv
<1>4. CASE CtagsMissing \/ CancelReading \/ CancelParsing
  BY <1>4, GiveUpIInv
<1>5. CASE ReadOpening \/ CtagsDies \/ ParseFile \/ RefreshEnd
  BY <1>5, ReadIInv, DiesIInv, ParseIInv, EndIInv
<1> QED BY <1>1, <1>2, <1>3, <1>4, <1>5 DEF Next

LEMMA Invariant == Spec => []IInv
BY InitIInv, NextIInv, PTL DEF Spec

(***************************************************************************)
(* The theorems                                                            *)
(***************************************************************************)
\* The types of a refresh: its position is an entry of the list or the end, and
\* what is parsed are lines of the workspace's files.
THEOREM RefreshTypeCorrect == Spec => []RefreshTypeOK
<1>1. IInv => RefreshTypeOK
  BY DEF IInv, FlagsOK, DataOK, RefreshTypeOK
<1> QED BY <1>1, Invariant, PTL

\* A file's tags are never older than the version its time stamp stands for.
THEOREM TagsNeverStale == Spec => []TagsNotStale
<1>1. IInv => TagsNotStale
  BY DEF IInv
<1> QED BY <1>1, Invariant, PTL

\* Between two refreshes Save() writes the list of tags, except for the files of a
\* list that was not parsed to its end.
THEOREM TagsSaved == Spec => []SavesTheTags
<1>1. IInv => SavesTheTags
  <2> SUFFICES ASSUME IInv, pc = "idle", NEW f \in Files \ disturbed
               PROVE  buffer[f] = tags[f]
    BY DEF SavesTheTags
  <2>1. Passed(f)
    BY ToSetOfSeq DEF IInv, LoopOK, DataOK, Passed
  <2> QED BY <2>1 DEF IInv, Saved
<1> QED BY <1>1, Invariant, PTL

(***************************************************************************)
(* Recovery, when no path is found in the tags of another file             *)
(***************************************************************************)
Fresh(f) == \E v \in seen[f].version .. version[f] : tags[f] = << <<f, v>> >>
Settled == \A f \in Files \ disturbed : Passed(f) => time[f] = 0 \/ Fresh(f)

\* Files that were not disturbed are in the list once.
QueuedOnce ==
    pc \in {"read", "parse"} => \A f \in ToSet(list) \ disturbed : f \in Once(list)

\* Ctags writes the lines in the order of the list.  A file that is there twice in
\* a row has taken the lines of both, and leaves none for its second entry: d are
\* the lines that were taken.
Aligned ==
    /\ pc = "read" => \A i \in 1 .. Len(output) : output[i][1] = list[i]
    /\ pc = "parse" => \/ ToSet(list) \subseteq disturbed
                       \/ \E d \in pos - 1 .. Len(list) :
                             /\ Len(output) = Len(list) - d
                             /\ \A i \in 1 .. Len(output) : output[i][1] = list[d + i]
                             /\ \A k \in pos .. d : pos > 1 /\ list[k] = list[pos - 1]

RecoverInv == IInv /\ Settled /\ QueuedOnce /\ Aligned

LEMMA OnceMeans ==
    ASSUME NEW l, NEW f
    PROVE  f \in Once(l) <=> \E k \in 1 .. Len(l) :
                                l[k] = f /\ \A m \in 1 .. Len(l) : l[m] = f => m = k
BY DEF Once

\* A changed file that was not in the list yet is in the new list once.
LEMMA NewOnce ==
    ASSUME DataOK, NEW changed \in SUBSET Files, NEW order \in SetToSeqs(changed),
           NEW f \in changed, f \notin ToSet(list)
    PROVE  f \in Once(list \o order)
<1>1. IsFiniteSet(changed)
  BY RefreshAssumption, FS_Subset
<1>2. /\ order \in Seq(changed) /\ ToSet(order) = changed
      /\ \A i, j \in 1 .. Len(order) : order[i] = order[j] => i = j
  BY <1>1, OrderOfSet
<1>3. list \in Seq(Files) /\ order \in Seq(Files)
  BY <1>2, SeqMonotonic DEF DataOK
<1>4. PICK i \in 1 .. Len(order) : order[i] = f
  BY <1>2, ToSetOfSeq, SMTT(30)
<1> DEFINE l == list \o order
           k == Len(list) + i
<1>5. /\ Len(l) = Len(list) + Len(order) /\ Len(list) \in Nat /\ Len(order) \in Nat
      /\ \A m \in 1 .. Len(list) : l[m] = list[m]
      /\ \A m \in Len(list) + 1 .. Len(list) + Len(order) : l[m] = order[m - Len(list)]
  BY <1>3
<1> HIDE DEF l
<1>6. k \in 1 .. Len(l) /\ l[k] = f
  BY <1>4, <1>5
<1>7. ASSUME NEW m \in 1 .. Len(l), l[m] = f
      PROVE  m = k
  <2>1. m > Len(list)
    BY <1>3, <1>5, <1>7, ToSetOfSeq
  <2>2. m - Len(list) \in 1 .. Len(order) /\ order[m - Len(list)] = f
    BY <1>5, <1>7, <2>1
  <2>3. m - Len(list) = i
    BY <1>2, <1>4, <2>2
  <2> QED BY <1>5, <2>3
<1> HIDE DEF k
<1>8. f \in Once(l)
  BY <1>6, <1>7, OnceMeans
<1> QED BY <1>8 DEF l

LEMMA InitRecover == Init => RecoverInv
<1>1. Init => Settled /\ QueuedOnce /\ Aligned
  BY DEF Init, Settled, QueuedOnce, Aligned
<1> QED BY <1>1, InitIInv DEF RecoverInv

\* Steps that leave the tags alone, pass no file of the list and disturb none but
\* those in the list.
LEMMA SettledStays ==
    ASSUME IInv, IInv', Settled, UNCHANGED <<time, tags, seen>>,
           disturbed \subseteq disturbed',
           \A f \in Files : version'[f] >= version[f],
           \A f \in Files \ disturbed' : Passed(f)' => Passed(f)
    PROVE  Settled'
<1> SUFFICES ASSUME NEW f \in Files \ disturbed', Passed(f)', time[f] # 0
             PROVE  Fresh(f)'
  BY DEF Settled
<1>1. Fresh(f)
  BY DEF Settled
<1>2. PICK v \in seen[f].version .. version[f] : tags[f] = << <<f, v>> >>
  BY <1>1 DEF Fresh
<1>3. /\ seen[f].version \in 0 .. MaxVersion /\ version[f] \in 1 .. MaxVersion
      /\ version'[f] \in 1 .. MaxVersion
  BY DEF IInv, DataOK
<1>4. v \in seen[f].version .. version'[f]
  BY <1>2, <1>3, RefreshAssumption
<1> QED BY <1>2, <1>4 DEF Fresh

LEMMA OutsideRecover ==
    ASSUME RecoverInv, IInv',
           \/ UNCHANGED vars
           \/ SetAutoRefreshTags \/ Tick \/ CheckActiveFilesForChanges
           \/ \E f \in Files : Edit(f) \/ AddChangedFile(f)
    PROVE  RecoverInv'
<1> USE DEF RecoverInv
<1>1. UNCHANGED <<fileVars, loopVars>>
  BY DEF vars, SetAutoRefreshTags, Tick, CheckActiveFilesForChanges, Edit, AddChangedFile
<1>2. QueuedOnce' /\ Aligned'
  BY <1>1 DEF QueuedOnce, Aligned, loopVars
<1>3. \A f \in Files : Passed(f)' => Passed(f)
  BY <1>1 DEF Passed, loopVars
<1>4. ASSUME NEW f \in Files
      PROVE  version'[f] >= version[f]
  <2>1. version[f] \in Nat
    <3>1. version[f] \in 1 .. MaxVersion
      BY DEF IInv, DataOK
    <3> QED BY <3>1, RefreshAssumption
  <2>2. CASE version' = version
    BY <2>1, <2>2
  <2>3. CASE \E g \in Files : Edit(g)
    <3>1. PICK g \in Files : version' = [version EXCEPT ![g] = @ + 1]
      BY <2>3 DEF Edit
    <3>2. version \in [Files -> 1 .. MaxVersion]
      BY DEF IInv, DataOK
    <3> QED BY <2>1, <3>1, <3>2
  <2> QED BY <2>2, <2>3 DEF vars, SetAutoRefreshTags, Tick, CheckActiveFilesForChanges,
                            AddChangedFile, sourceVars
<1>5. Settled'
  BY <1>1, <1>3, <1>4, SettledStays DEF fileVars, loopVars
<1> QED BY <1>2, <1>5

LEMMA RefreshRecover ==
    ASSUME RecoverInv, IInv', NEW forceRefresh \in BOOLEAN,
           RefreshNothing(forceRefresh) \/ Refresh(forceRefresh)
    PROVE  RecoverInv'
<1> USE DEF RecoverInv
<1>1. pc = "idle" /\ ToSet(list) \subseteq disturbed /\ list \in Seq(Files) /\ output = << >>
  BY DEF RefreshNothing, Refresh, IInv, LoopOK, DataOK
<1>2. \A f \in Files \ ToSet(list) : Passed(f)
  BY <1>1, ToSetOfSeq DEF Passed
<1>3. ASSUME NEW f \in Files
      PROVE  version[f] >= version[f]
  <2>1. version[f] \in 1 .. MaxVersion
    BY DEF IInv, DataOK
  <2> QED BY <2>1, RefreshAssumption
<1>4. CASE RefreshNothing(forceRefresh)
  <2>1. UNCHANGED <<sourceVars, fileVars, disturbed>> /\ pc' = "idle"
    BY <1>1, <1>4 DEF RefreshNothing
  <2>2. \A f \in Files \ disturbed' : Passed(f)' => Passed(f)
    BY <1>1, <1>2, <2>1
  <2>3. Settled'
    BY <1>3, <2>1, <2>2, SettledStays DEF fileVars, sourceVars
  <2> QED BY <2>1, <2>3 DEF QueuedOnce, Aligned
<1>5. CASE Refresh(forceRefresh)
  <2> DEFINE changed == Changed(forceRefresh)
  <2>1. changed \in SUBSET Files
    BY DEF Changed, Examined, IInv, DataOK
  <2>2. PICK order \in SetToSeqs(changed) : list' = list \o order
    BY <1>5 DEF Refresh
  <2>3. /\ list' \in Seq(Files) /\ ToSet(list') = ToSet(list) \cup changed
        /\ \A f \in changed \ ToSet(list) : f \in Once(list')
    BY <2>1, <2>2, NewList, NewOnce DEF IInv
  <2>4. /\ disturbed' = disturbed \ Once(list') /\ output' = << >>
        /\ pc' = IF list' = << >> THEN "idle" ELSE "read"
        /\ version' = version
        /\ time' = [f \in Files |-> IF f \in changed THEN mtime[f] ELSE time[f]]
        /\ tags' = [f \in Files |-> IF f \in changed THEN << >> ELSE tags[f]]
        /\ seen' = [f \in Files |-> IF f \in changed
                                    THEN [version |-> version[f], at |-> clock]
                                    ELSE seen[f]]
    BY <1>1, <1>5 DEF Refresh, WithoutTags, sourceVars
  <2> HIDE DEF changed
  <2>5. QueuedOnce'
    <3>1. SUFFICES ASSUME NEW f \in ToSet(list') \ disturbed' PROVE f \in Once(list')
      BY DEF QueuedOnce
    <3>2. CASE f \in disturbed
      BY <2>4, <3>2
    <3>3. CASE f \notin disturbed
      BY <1>1, <2>3, <3>3
    <3> QED BY <3>2, <3>3
  <2>6. Aligned'
    <3>1. pc' # "parse"
      BY <2>4
    <3> QED BY <2>4, <3>1 DEF Aligned
  <2>7. Settled'
    <3> SUFFICES ASSUME NEW f \in Files \ disturbed', Passed(f)'
                 PROVE  time'[f] = 0 \/ Fresh(f)'
      BY DEF Settled
    <3>1. f \notin ToSet(list')
      <4> SUFFICES ASSUME f \in ToSet(list') PROVE FALSE
        OBVIOUS
      <4>1. PICK k \in 1 .. Len(list') : list'[k] = f
        BY <2>3, ToSetOfSeq
      <4>2. list' # << >>
        BY <4>1
      <4> QED BY <2>4, <4>1, <4>2 DEF Passed
    <3>2. f \notin Once(list')
      BY <2>3, <3>1, ToSetOfSeq DEF Once
    <3>3. f \in Files \ disturbed /\ f \notin changed /\ f \notin ToSet(list)
      BY <2>3, <2>4, <3>1, <3>2
    <3>4. time[f] = 0 \/ Fresh(f)
      BY <1>2, <3>3 DEF Settled
    <3>5. time'[f] = time[f] /\ tags'[f] = tags[f] /\ seen'[f] = seen[f]
      BY <2>4, <3>3
    <3>6. Fresh(f) => Fresh(f)'
      BY <2>4, <3>5 DEF Fresh
    <3> QED BY <3>4, <3>5, <3>6
  <2> QED BY <2>5, <2>6, <2>7
<1> QED BY <1>4, <1>5

LEMMA GiveUpRecover ==
    ASSUME RecoverInv, IInv', CtagsMissing \/ CancelReading \/ CancelParsing \/ CtagsDies
    PROVE  RecoverInv'
<1> USE DEF RecoverInv
<1>1. /\ UNCHANGED <<sourceVars, fileVars, list>>
      /\ disturbed' = disturbed \cup ToSet(list) /\ pc' \in {"idle", "end", "parse"}
  BY DEF CtagsMissing, CancelReading, CancelParsing, CtagsDies, Disturb
<1>2. list \in Seq(Files)
  BY DEF IInv, DataOK
<1>3. ASSUME NEW f \in Files
      PROVE  version'[f] >= version[f]
  <2>1. version[f] \in 1 .. MaxVersion
    BY DEF IInv, DataOK
  <2> QED BY <1>1, <2>1, RefreshAssumption DEF sourceVars
<1>4. \A f \in Files \ disturbed' : Passed(f)
  BY <1>1, <1>2, ToSetOfSeq DEF Passed
<1>5. Settled'
  BY <1>1, <1>3, <1>4, SettledStays DEF fileVars
<1>6. QueuedOnce' /\ Aligned'
  BY <1>1 DEF QueuedOnce, Aligned
<1> QED BY <1>5, <1>6

LEMMA ReadRecover ==
    ASSUME RecoverInv, IInv', ReadOpening
    PROVE  RecoverInv'
<1> USE DEF RecoverInv
<1> DEFINE f == list[pos]
           line == <<f, version[f]>>
<1>1. /\ pc = "read" /\ pos \in 1 .. Len(list) /\ Len(output) = pos - 1
      /\ output' = Append(output, line)
      /\ UNCHANGED <<sourceVars, fileVars, list, disturbed>>
  BY DEF ReadOpening, IInv, LoopOK
<1>2. \/ pc' = "read" /\ pos' = pos + 1 /\ pos < Len(list)
      \/ pc' = "parse" /\ pos' = 1 /\ ~(pos < Len(list))
  BY <1>1 DEF ReadOpening
<1>3. /\ output \in Seq(Line) /\ list \in Seq(Files) /\ Len(list) \in Nat
      /\ pos \in Nat
  BY <1>1 DEF IInv, DataOK
<1>4. f \in Files /\ line \in Line
  BY <1>1, ElementOfSeq DEF IInv, DataOK, Line
<1>5. line[1] = list[pos]
  OBVIOUS
<1> HIDE DEF line, f
<1>6. /\ Len(output') = pos
      /\ \A i \in 1 .. pos - 1 : output'[i] = output[i]
      /\ output'[pos] = line
  BY <1>1, <1>3, <1>4
<1>7. \A i \in 1 .. pos : output'[i][1] = list[i]
  <2> SUFFICES ASSUME NEW i \in 1 .. pos PROVE output'[i][1] = list[i]
    OBVIOUS
  <2>1. CASE i = pos
    BY <1>5, <1>6, <2>1
  <2>2. CASE i # pos
    <3>1. i \in 1 .. pos - 1
      BY <1>3, <2>2
    <3> QED BY <1>1, <1>6, <3>1 DEF Aligned
  <2> QED BY <2>1, <2>2
<1>8. Aligned'
  <2>1. CASE pc' = "read"
    BY <1>1, <1>6, <1>7, <2>1 DEF Aligned
  <2>2. CASE pc' = "parse"
    <3>1. pos' = 1 /\ pos = Len(list)
      BY <1>1, <1>2, <1>3, <2>2
    <3>2. /\ 0 \in pos' - 1 .. Len(list)
          /\ Len(output') = Len(list) - 0
          /\ \A i \in 1 .. Len(output') : output'[i][1] = list[0 + i]
          /\ \A k \in pos' .. 0 : pos' > 1 /\ list[k] = list[pos' - 1]
      BY <1>3, <1>6, <1>7, <3>1
    <3> QED BY <1>1, <2>2, <3>2 DEF Aligned
  <2> QED BY <1>2, <2>1, <2>2
<1>9. QueuedOnce'
  BY <1>1, <1>2 DEF QueuedOnce
<1>10. ASSUME NEW g \in Files
       PROVE  version'[g] >= version[g]
  <2>1. version[g] \in 1 .. MaxVersion
    BY DEF IInv, DataOK
  <2> QED BY <1>1, <2>1, RefreshAssumption DEF sourceVars
<1>11. \A g \in Files \ disturbed' : Passed(g)' => Passed(g)
  <2> SUFFICES ASSUME NEW g \in Files, Passed(g)' PROVE Passed(g)
    OBVIOUS
  <2>1. SUFFICES ASSUME NEW k \in 1 .. Len(list), list[k] = g PROVE FALSE
    BY DEF Passed
  <2> QED BY <1>1, <1>2, <2>1 DEF Passed
<1>12. Settled'
  BY <1>1, <1>10, <1>11, SettledStays DEF fileVars
<1> QED BY <1>8, <1>9, <1>12

LEMMA EndRecover ==
    ASSUME RecoverInv, IInv', RefreshEnd
    PROVE  RecoverInv'
<1> USE DEF RecoverInv
<1>1. /\ pc = "end" /\ pc' = "idle"
      /\ UNCHANGED <<sourceVars, fileVars, disturbed>>
  BY DEF RefreshEnd
<1>2. ASSUME NEW g \in Files
      PROVE  version'[g] >= version[g]
  <2>1. version[g] \in 1 .. MaxVersion
    BY DEF IInv, DataOK
  <2> QED BY <1>1, <2>1, RefreshAssumption DEF sourceVars
<1>3. \A g \in Files : Passed(g)
  BY <1>1 DEF Passed
<1>4. Settled'
  BY <1>1, <1>2, <1>3, SettledStays DEF fileVars
<1>5. QueuedOnce' /\ Aligned'
  BY <1>1 DEF QueuedOnce, Aligned
<1> QED BY <1>4, <1>5

\* The file at the loop's position takes the lines of its entry and, when the next
\* entries are the same file, theirs.
LEMMA ParseRecover ==
    ASSUME Inside = {}, RecoverInv, IInv', ParseFile
    PROVE  RecoverInv'
<1> USE DEF RecoverInv
<1> DEFINE f == list[pos]
           n == OwnLines(f)
<1>1. /\ pc = "parse" /\ pos \in 1 .. Len(list) /\ pos' = pos + 1
      /\ pc' = IF pos < Len(list) THEN "parse" ELSE "end"
      /\ UNCHANGED <<sourceVars, time, seen, list, disturbed>>
  BY DEF ParseFile, IInv, LoopOK
<1>2. f \in Files /\ n \in 0 .. Len(output)
  BY ParseTakes
<1>3. PICK taken \in Seq(Line), left \in Seq(Line) :
        /\ tags' = [tags EXCEPT ![f] = taken] /\ output' = left
        /\ Len(taken) = n /\ Len(left) = Len(output) - n
        /\ \A i \in 1 .. Len(taken) : taken[i] = output[i]
        /\ \A i \in 1 .. Len(left) : left[i] = output[n + i]
  BY ParseTakes
<1>4. /\ \A i \in 1 .. n : output[i][1] = f
      /\ n < Len(output) => output[n + 1][1] # f
  <2>1. \A x : OwnLine(f, x) <=> x[1] = f
    BY DEF OwnLine
  <2>2. output \in Seq(Line)
    BY DEF IInv, DataOK
  <2> QED BY <2>1, <2>2, OwnLinesTaken
<1>5. list[pos] = f
  OBVIOUS
<1> HIDE DEF f, n
<1>6. /\ list \in Seq(Files) /\ Len(list) \in Nat /\ Len(output) \in Nat /\ pos \in Nat
      /\ tags \in [Files -> Seq(Line)] /\ f \in ToSet(list)
  <2>1. /\ list \in Seq(Files) /\ Len(list) \in Nat /\ Len(output) \in Nat
        /\ tags \in [Files -> Seq(Line)]
    BY DEF IInv, DataOK
  <2> QED BY <1>1, <1>5, <2>1, ToSetOfSeq
<1> DEFINE Taken(d) == /\ Len(output) = Len(list) - d
                       /\ \A i \in 1 .. Len(output) : output[i][1] = list[d + i]
                       /\ \A k \in pos .. d : pos > 1 /\ list[k] = list[pos - 1]
<1>7. ToSet(list) \subseteq disturbed \/ \E d \in pos - 1 .. Len(list) : Taken(d)
  BY <1>1 DEF Aligned
<1>8. ASSUME NEW d \in pos - 1 .. Len(list), Taken(d), d = pos - 1
      PROVE  n >= 1
  <2>1. 1 \in 1 .. Len(output) /\ output[1][1] = list[d + 1]
    BY <1>1, <1>6, <1>8, SMTT(30)
  <2>2. output[1][1] = f
    BY <1>5, <1>6, <1>8, <2>1
  <2> QED BY <1>2, <1>4, <1>6, <2>1, <2>2
<1>9. QueuedOnce'
  BY <1>1 DEF QueuedOnce
<1>10. Aligned'
  <2> SUFFICES ASSUME pc' = "parse", ~(ToSet(list) \subseteq disturbed)
               PROVE  \E d \in pos' - 1 .. Len(list) :
                         /\ Len(left) = Len(list) - d
                         /\ \A i \in 1 .. Len(left) : left[i][1] = list[d + i]
                         /\ \A k \in pos' .. d : pos' > 1 /\ list[k] = list[pos' - 1]
    BY <1>1, <1>3 DEF Aligned
  <2>1. PICK d \in pos - 1 .. Len(list) : Taken(d)
    BY <1>7
  <2>2. d \in Nat /\ n \in Nat /\ d + n <= Len(list) /\ d + n >= pos
    <3>1. Len(output) = Len(list) - d /\ d \in Nat /\ n \in Nat
      BY <1>1, <1>2, <1>6, <2>1
    <3>2. d = pos - 1 => n >= 1
      BY <1>8, <2>1
    <3> HIDE DEF Taken
    <3> QED BY <1>1, <1>2, <1>6, <3>1, <3>2
  <2>3. Len(left) = Len(list) - (d + n)
    BY <1>2, <1>3, <1>6, <2>1, <2>2
  <2>4. ASSUME NEW i \in 1 .. Len(left)
        PROVE  left[i][1] = list[d + n + i]
    <3>1. n + i \in 1 .. Len(output) /\ left[i] = output[n + i] /\ d + (n + i) = d + n + i
      BY <1>2, <1>3, <1>6, <2>2
    <3> QED BY <2>1, <3>1
  <2>5. ASSUME NEW k \in pos + 1 .. d + n
        PROVE  list[k] = f
    <3>1. CASE k <= d
      <4>1. k \in pos .. d /\ pos \in pos .. d
        BY <1>6, <2>2, <3>1
      <4> QED BY <1>5, <2>1, <4>1
    <3>2. CASE k > d
      <4>1. k - d \in 1 .. n /\ k - d \in 1 .. Len(output) /\ d + (k - d) = k
        BY <1>2, <1>6, <2>2, <3>2
      <4> QED BY <1>4, <2>1, <4>1
    <3> QED BY <1>6, <2>2, <3>1, <3>2
  <2>6. d + n \in pos' - 1 .. Len(list) /\ pos' > 1 /\ pos' - 1 = pos
    BY <1>1, <1>6, <2>2
  <2> QED BY <1>1, <1>5, <2>3, <2>4, <2>5, <2>6
<1>11. Settled'
  <2> SUFFICES ASSUME NEW g \in Files \ disturbed, Passed(g)'
               PROVE  time[g] = 0 \/ Fresh(g)'
    BY <1>1 DEF Settled
  <2>1. CASE g # f
    <3>1. Passed(g)
      <4>1. SUFFICES ASSUME NEW k \in 1 .. Len(list), list[k] = g PROVE k < pos
        BY <1>1 DEF Passed
      <4>2. k # pos
        BY <1>5, <2>1, <4>1
      <4>3. k < pos + 1
        BY <1>1, <1>6, <4>1 DEF Passed
      <4> QED BY <1>6, <4>2, <4>3
    <3>2. time[g] = 0 \/ Fresh(g)
      BY <3>1 DEF Settled
    <3>3. tags'[g] = tags[g]
      BY <1>3, <1>6, <2>1
    <3> QED BY <1>1, <3>2, <3>3 DEF Fresh, sourceVars
  <2>2. CASE g = f
    <3>1. f \in Once(list)
      BY <1>1, <1>6, <2>2 DEF QueuedOnce
    <3>2. PICK k \in 1 .. Len(list) : \A m \in 1 .. Len(list) : list[m] = f => m = k
      BY <3>1, OnceMeans
    <3>3. \A m \in 1 .. Len(list) : list[m] = f => m = pos
      BY <1>1, <1>5, <3>2
    <3>4. PICK d \in pos - 1 .. Len(list) : Taken(d)
      BY <1>6, <1>7, <2>2
    <3>5. d = pos - 1
      <4> SUFFICES ASSUME d # pos - 1 PROVE FALSE
        OBVIOUS
      <4>1. pos \in pos .. d /\ pos > 1 /\ pos - 1 \in 1 .. Len(list)
        BY <1>1, <1>6, <3>4
      <4>2. list[pos - 1] = f
        BY <1>5, <3>4, <4>1
      <4> QED BY <1>6, <3>3, <4>1, <4>2
    <3>6. n >= 1
      BY <1>8, <3>4, <3>5
    <3>7. ~(n >= 2)
      <4> SUFFICES ASSUME n >= 2 PROVE FALSE
        OBVIOUS
      <4>1. 2 \in 1 .. n /\ 2 \in 1 .. Len(output) /\ d + 2 = pos + 1
            /\ pos + 1 \in 1 .. Len(list)
        BY <1>1, <1>2, <1>6, <3>4, <3>5
      <4>2. list[pos + 1] = f
        BY <1>4, <3>4, <4>1
      <4> QED BY <1>6, <3>3, <4>1, <4>2
    <3>8. n = 1
      BY <1>2, <1>6, <3>6, <3>7
    <3>9. Len(taken) = 1 /\ taken[1] = output[1] /\ 1 \in 1 .. Len(output)
          /\ output[1][1] = f
      BY <1>2, <1>3, <1>4, <1>6, <3>8
    <3> DEFINE v == output[1][2]
    <3>10. v \in Nat /\ output[1] = <<f, v>>
      BY <3>9, LineParts DEF IInv
    <3>11. v >= seen[f].version /\ v <= version[f]
      BY <3>9 DEF IInv, OutputFresh
    <3>12. taken = << <<f, v>> >>
      <4>1. taken[1] \in Line /\ taken[1] = <<f, v>>
        <5>1. 1 \in 1 .. Len(taken)
          BY <3>9
        <5> QED BY <3>9, <3>10, <5>1, ElementOfSeq
      <4> HIDE DEF v
      <4>2. << <<f, v>> >> \in Seq(Line) /\ Len(<< <<f, v>> >>) = 1
            /\ << <<f, v>> >>[1] = <<f, v>>
        BY <4>1
      <4> QED BY <3>9, <4>1, <4>2, SeqEqual
    <3> HIDE DEF v
    <3>13. seen[f].version \in 0 .. MaxVersion /\ version[f] \in 1 .. MaxVersion
      BY <1>2 DEF IInv, DataOK
    <3>14. v \in seen[f].version .. version[f]
      BY <3>10, <3>11, <3>13, RefreshAssumption
    <3>15. tags'[f] = << <<f, v>> >>
      BY <1>2, <1>3, <1>6, <3>12
    <3> QED BY <1>1, <2>2, <3>14, <3>15 DEF Fresh, sourceVars
  <2> QED BY <2>1, <2>2
<1> QED BY <1>9, <1>10, <1>11

LEMMA NextRecover ==
    ASSUME Inside = {}
    PROVE  RecoverInv /\ [Next]_vars => RecoverInv'
<1> SUFFICES ASSUME RecoverInv, [Next]_vars PROVE RecoverInv'
  OBVIOUS
<1>1. IInv'
  BY NextIInv DEF RecoverInv
<1>2. CASE \/ UNCHANGED vars
           \/ SetAutoRefreshTags \/ Tick \/ CheckActiveFilesForChanges
           \/ \E f \in Files : Edit(f) \/ AddChangedFile(f)
  BY <1>1, <1>2, OutsideRecover
<1>3. CASE \E forceRefresh \in BOOLEAN :
              RefreshNothing(forceRefresh) \/ Refresh(forceRefresh)
  BY <1>1, <1>3, RefreshRecover
<1>4. CASE CtagsMissing \/ CancelReading \/ CancelParsing \/ CtagsDies
  BY <1>1, <1>4, GiveUpRecover
<1>5. CASE ReadOpening \/ ParseFile \/ RefreshEnd
  BY <1>1, <1>5, ReadRecover, ParseRecover, EndRecover
<1> QED BY <1>2, <1>3, <1>4, <1>5 DEF Next

\* When no path is found in the tags of another file, a refresh that has a file in
\* its list once brings its tags up to date, whatever refreshes were cancelled or
\* failed before, and whatever the user changed meanwhile.
THEOREM RefreshRecovers == Inside = {} => (Spec => []TagsRecover)
<1> SUFFICES ASSUME Inside = {} PROVE Spec => []TagsRecover
  OBVIOUS
<1>1. RecoverInv => TagsRecover
  <2> SUFFICES ASSUME RecoverInv, pc = "idle", NEW f \in Files \ disturbed,
                      time[f] = mtime[f], seen[f].at > time[f]
               PROVE  tags[f] = << <<f, version[f]>> >>
    BY DEF TagsRecover, UpToDate
  <2>1. Passed(f)
    BY DEF Passed
  <2>2. mtime[f] \in 1 .. MaxClock /\ version[f] \in 1 .. MaxVersion
    BY DEF RecoverInv, IInv, DataOK
  <2>3. Fresh(f)
    BY <2>1, <2>2, RefreshAssumption DEF RecoverInv, Settled
  <2>4. version[f] = seen[f].version
    BY DEF RecoverInv, IInv, SeenOK
  <2>5. PICK v \in seen[f].version .. version[f] : tags[f] = << <<f, v>> >>
    BY <2>3 DEF Fresh
  <2>6. v = version[f]
    BY <2>2, <2>4, <2>5, RefreshAssumption
  <2> QED BY <2>5, <2>6
<1>2. RecoverInv /\ [Next]_vars => RecoverInv'
  BY NextRecover
<1> QED BY <1>1, <1>2, InitRecover, PTL DEF Spec
=============================================================================
