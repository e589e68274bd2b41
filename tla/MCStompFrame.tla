---------------------------- MODULE MCStompFrame ----------------------------
(* Texts and parts for the run of StompFrame: every combination of a start,*)
(* up to two header lines, good or bad, and an end.                        *)
EXTENDS StompFrame, TLC

MCNumeral == [n0 |-> 0, n1 |-> 1, n2 |-> 2, huge |-> TooLarge]

MCWidth ==
    [ERROR |-> 5, SEND |-> 4, id |-> 2, destination |-> 11, a |-> 1, b |-> 1,
     n0 |-> 1, n1 |-> 1, n2 |-> 1, huge |-> 20, NL |-> 1, COLON |-> 1, NUL |-> 1]
        @@ ("content-length" :> 14)

Header(h, value) == <<h, COLON>> \o value \o <<NL>>

GoodLines ==
    {Header("destination", <<"a">>), Header("destination", <<"a", COLON, "b">>),
     Header("id", <<"b">>), Header("id", <<"n1">>),
     Header("content-length", <<"n0">>), Header("content-length", <<"n1">>),
     Header("content-length", <<"n2", "a">>), Header("content-length", <<"huge">>)}

SecondLines ==
    {Header("destination", <<"b">>), Header("id", <<"a">>), Header("content-length", <<"n0">>),
     Header("content-length", <<"n1">>), <<"id", NL>>}

BadLines ==
    {<<"id", COLON, NL>>, <<"id", NL>>, <<"a", COLON, "b", NL>>, <<"id", COLON>>,
     <<"id", COLON, "a">>, <<COLON, NL>>, Header("content-length", <<"a">>)}

GoodStarts == {<<"ERROR", NL>>, <<"SEND", NL>>}
BadStarts == {<<"a", NL>>, <<"SEND">>, <<>>}

LinesOf ==
    {<<>>} \cup GoodLines \cup BadLines \cup {g \o l : g \in GoodLines, l \in SecondLines}

Tails ==
    {<<NL, NUL>>, <<NL, "a", NUL, NL>>, <<NL, NUL, NUL>>, <<NL, "a", NL, NUL, NL, NL>>,
     <<NL, "a">>, <<NL>>, <<>>, <<NL, "a", NUL, "b">>}

MCFewTexts ==
    {<<"ERROR", NL, NL, "a", NUL>>,
     <<"SEND", NL, "destination", COLON, "b", NL, NL, "b", NUL>>}

MCTexts ==
    {s \o l \o t : s \in GoodStarts, l \in LinesOf, t \in Tails}
        \cup {s \o t : s \in BadStarts, t \in Tails} \cup MCFewTexts

MCParts ==
    LET Values == {<<>>, <<"a">>, <<"a", COLON>>, <<"b", NL>>}
        Lengths == {<<"n0">>, <<"n1">>, <<"n2", "a">>}
        Some(H, V) == {<<>>} \cup [H -> V]
        Maps == {d @@ i @@ c : d \in Some({"destination"}, Values),
                               i \in Some({"id"}, {<<"n1">>}),
                               c \in Some({"content-length"}, Lengths)}
    IN  [command : {"SEND", "ERROR"}, headers : Maps,
         body : {<<>>, <<"a">>, <<NUL>>, <<"a", NUL>>, <<NL>>, <<NUL, NL>>}]

Symmetry == Permutations(Objects)
=============================================================================
