------------------------------- MODULE Journeys -------------------------------
(***************************************************************************)
(* The data of the path-finding functions of                               *)
(* src/src/transport-network.cpp, and what a best path is.                 *)
(*                                                                         *)
(* A network is the set of its edges: the edge of a route at a stop, with  *)
(* the next stop of the route and the travel time to it.  A route passes   *)
(* a stop once, so route and stop identify the edge.  Travel times are     *)
(* minutes and their sums are far from the width of unsigned int.          *)
(***************************************************************************)
EXTENDS Integers, Sequences, FiniteSets, SequencesExt

CONSTANT NoEdge     \* the edge of the stop a search starts at

EdgeOk(E) ==
    \A e \in E : e.time \in Nat /\ e.from # e.to

StationsOf(E) == {e.from : e \in E} \cup {e.to : e \in E}

(* The stations of each route have an order that its edges follow.         *)
RoutesAreLines(E) ==
    \A e \in E :
        \E place \in [StationsOf(E) -> 0 .. Cardinality(StationsOf(E))] :
            \A f \in E : f.route = e.route => place[f.from] < place[f.to]

NetworkOk(E) ==
    /\ IsFiniteSet(E)
    /\ NoEdge \notin E
    /\ EdgeOk(E)
    /\ RoutesAreLines(E)

(* A PathStop is a station with the edge used to get to it, and a path is  *)
(* a sequence of PathStops with their distances from the origin.           *)
Stop(node, edge) == [node |-> node, edge |-> edge]
At(stop, dist) == [stop |-> stop, dist |-> dist]
Origin(station) == At(Stop(station, NoEdge), 0)

RouteChangePenalty == 5

(* The minutes added by leaving a PathStop along an edge.                  *)
Ride(stop, e) ==
    IF stop.edge # NoEdge /\ stop.edge.route # e.route
    THEN e.time + RouteChangePenalty
    ELSE e.time

(* The edges out of a PathStop that a search follows.                      *)
Ways(E, stop, excludedStops) ==
    {e \in E : e.from = stop.node /\ Stop(e.to, e) \notin excludedStops}

Follow(cur, e) == At(Stop(e.to, e), cur.dist + Ride(cur.stop, e))

(* What a search may be asked: it starts at a station, or goes on where an *)
(* edge of a path leads, short of the station looked for; what is excluded *)
(* are stops edges lead to.                                                *)
SearchOk(E, start, station, excludedStops) ==
    /\ \/ start = Origin(start.stop.node)
       \/ \E e \in E : e.to # station /\ start = At(Stop(e.to, e), start.dist)
    /\ start.dist \in Nat
    /\ excludedStops \subseteq {Stop(e.to, e) : e \in E}

(* The result of both public functions: the total and one step per edge,   *)
(* or one step of no route when the stations are the same.                 *)
Stay(station) == [from |-> station, to |-> station, route |-> NoEdge, time |-> 0]

TravelRoute(path) ==
    [total |-> IF path = <<>> THEN 0 ELSE Last(path).dist,
     steps |-> IF Len(path) = 1
               THEN <<Stay(path[1].stop.node)>>
               ELSE [i \in 1 .. Len(path) - 1 |-> path[i + 1].stop.edge]]

-----------------------------------------------------------------------------
(* The reference.                                                          *)

IsJourney(E, path) ==
    /\ path # <<>>
    /\ \A i \in 1 .. Len(path) - 1 :
        \E e \in E : e.from = path[i].stop.node /\ path[i + 1] = Follow(path[i], e)

Visited(path) == {path[i].stop.node : i \in DOMAIN path}

(* A path with one more edge, to a station not passed yet.  A path ends    *)
(* where it first reaches the station.                                     *)
Longer(E, path, station, excludedStops) ==
    IF Last(path).stop.node = station
    THEN {}
    ELSE {Append(path, Follow(Last(path), e)) :
            e \in {w \in Ways(E, Last(path).stop, excludedStops) :
                        w.to \notin Visited(path)}}

(* The paths of n PathStops, for every n that a path without a repetition  *)
(* may have.                                                               *)
Lengths(E) == 1 .. Cardinality(StationsOf(E)) + 1

ByLength(E, start, station, excludedStops) ==
    LET ofLength[n \in Lengths(E)] ==
            IF n = 1
            THEN {<<start>>}
            ELSE UNION {Longer(E, p, station, excludedStops) : p \in ofLength[n - 1]}
    IN  ofLength

(* All the paths from start to a station that pass no station twice.       *)
SimpleJourneys(E, start, station, excludedStops) ==
    LET ofLength == ByLength(E, start, station, excludedStops)
    IN  {path \in UNION {ofLength[n] : n \in Lengths(E)} :
            Last(path).stop.node = station}

BestJourneys(E, start, station, excludedStops) ==
    LET all == SimpleJourneys(E, start, station, excludedStops)
    IN  {p \in all : \A q \in all : Last(p).dist <= Last(q).dist}

(* The minutes of the steps of an answer, and where they change routes.    *)
TotalTime(steps) == FoldLeft(LAMBDA sum, step : sum + step.time, 0, steps)

Changes(steps) == {i \in 1 .. Len(steps) - 1 : steps[i].route # steps[i + 1].route}

-----------------------------------------------------------------------------
(* The edges of a route with the given stops, and of a network of routes.  *)
RouteEdges(route, stops, time) ==
    {[from |-> stops[i], to |-> stops[i + 1], route |-> route,
      time |-> time[{stops[i], stops[i + 1]}]] : i \in 1 .. Len(stops) - 1}

NetworkOf(routes, time) == UNION {RouteEdges(r, routes[r], time) : r \in DOMAIN routes}
=============================================================================
