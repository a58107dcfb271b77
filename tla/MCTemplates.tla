---------------------------- MODULE MCTemplates ----------------------------
EXTENDS Templates, TemplateCode

\* Versions: a block within another's code, a key and a dialog; a block that is not
\* one; an unfinished part.
Versions ==
    <<<<"text", "block", "code", "block", "end", "memo", "text", "end", "block", "key", "block">>,
      <<"text", "code", "block", "dialog", "text", "next", "text", "end", "open", "key", "block",
        "params", "text", "end">>,
      <<"block", "block", "text", "block", "memo", "block">>>>
MCText == Versions

\* The reader of a template's code shares nothing with the groups: the codes are tried
\* in the first state.
MCInit == Init /\ CodeInit
MCNext ==
    \/ \E crash \in BOOLEAN : CodeInit /\ Restart(crash) /\ UNCHANGED codeVars
    \/ CodeInit /\ TemplateComplete /\ UNCHANGED codeVars
    \/ CodeInit /\ SelectOpens /\ UNCHANGED codeVars
    \/ CodeInit /\ SelectCloses /\ UNCHANGED codeVars
    \/ CodeInit /\ ListOpens /\ UNCHANGED codeVars
    \/ \E f \in Files : CodeInit /\ ListAdd(f) /\ UNCHANGED codeVars
    \/ \E S \in SUBSET DOMAIN groups : CodeInit /\ ListRemove(S) /\ UNCHANGED codeVars
    \/ \E edit \in BOOLEAN : CodeInit /\ ListOK(edit) /\ UNCHANGED codeVars
    \/ CodeInit /\ ListCancel /\ UNCHANGED codeVars
    \/ CodeInit /\ Environment /\ UNCHANGED codeVars
    \/ Init /\ CodeEnd /\ UNCHANGED vars
    \/ Init /\ (\E c \in Commands : ParseHelper(c)) /\ UNCHANGED vars
MCSpec == MCInit /\ [][MCNext]_<<vars, codeVars>>
=============================================================================
