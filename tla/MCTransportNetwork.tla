------------------------- MODULE MCTransportNetwork -------------------------
(* The lines and the files of the runs of TransportNetwork: a line with    *)
(* routes both ways, one that needs all three stations, one that lists the *)
(* same route twice.                                                       *)
EXTENDS TransportNetwork

CONSTANTS a, b, c

Route(id, stops) == [id |-> id, stops |-> stops]

BothWays == [id |-> "l1", routes |-> <<Route("r1", <<a, b>>), Route("r2", <<b, a>>)>>]
Long == [id |-> "l2", routes |-> <<Route("r3", <<b, a>>), Route("r4", <<a, b, c>>)>>]
Twice == [id |-> "l3", routes |-> <<Route("r5", <<a, b>>), Route("r5", <<b, c>>)>>]

MCLines == {BothWays, Long, Twice}

StationLists == {<<a, b>>, <<c, b, a>>, <<a, a>>}
LineLists == {<<BothWays>>, <<Long, BothWays>>, <<Long, Long>>, <<BothWays, Twice>>}
TimeLists ==
    {<<>>} \cup {<<TravelTime(x, y, t)>> : x, y \in {a, b, c}, t \in {1, 2}}
           \cup {<<TravelTime(x, y, t), TravelTime(a, b, 2)>> : x, y \in {a, b, c}, t \in {1, 2}}

JsonFiles ==
    {[i \in DOMAIN ss |-> Station(ss[i])] \o [i \in DOMAIN ls |-> LineItem(ls[i])] \o ts :
        ss \in StationLists, ls \in LineLists, ts \in TimeLists}

MCFiles == JsonFiles \cup {<<>>}
NoFile == {<<>>}
=============================================================================
