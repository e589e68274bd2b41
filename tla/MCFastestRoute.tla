--------------------------- MODULE MCFastestRoute ---------------------------
(* The searches made in the run of FastestRoute, with up to two stops      *)
(* excluded.  The networks have three routes over four stations, one of    *)
(* which no route may serve, in several directions and with several travel *)
(* times, some of them zero or longer than a change of route.  In the last *)
(* one a search that comes from d may leave a on the same route or on      *)
(* another one: the stops behind c are found with two distances.           *)
EXTENDS FastestRoute

CONSTANTS a, b, c, d

Times == [{{x, y} : x, y \in {a, b, c, d}} -> {0, 1, 6}]

(* A time for each pair of stations, the same in both directions.          *)
Uniform(t) == \A p \in DOMAIN t : Cardinality(p) = 1 => t[p] = 0
SomeTimes == {t \in Times : Uniform(t) /\ t[{b, d}] = 0 /\ t[{a, d}] = 1}

Courses ==
    ({<<a, b>>, <<a, c, b>>} \X {<<b, c, a>>, <<a, d, c, b>>, <<c, d>>} \X {<<d, c, b>>, <<c, b>>})
        \cup {<<<<d, a, c>>, <<a, c>>, <<c, b, d>>>>}

Networks == {NetworkOf(routes, t) : routes \in Courses, t \in SomeTimes}

(* Where a search starts: at a station, or where an edge led to.           *)
Starts(E) ==
    {Origin(s) : s \in {a, b, c, d}} \cup {At(Stop(e.to, e), e.time) : e \in E}

Excluded(E) == {{}} \cup {{Stop(e.to, e), Stop(f.to, f)} : e, f \in E}

MCSearches ==
    UNION {{s \in [network : {E}, stopA : Starts(E), stationB : {a, b, c, d},
                   excludedStops : Excluded(E)] :
                s.stopA.stop.edge # NoEdge => s.stopA.stop.node # s.stationB} : E \in Networks}
=============================================================================
