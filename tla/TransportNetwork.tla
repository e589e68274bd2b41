--------------------------- MODULE TransportNetwork ---------------------------
(***************************************************************************)
(* The network representation of src/src/transport-network.cpp: stations   *)
(* with a passenger count, lines with their routes, and an edge for each   *)
(* stop of a route that has a next stop.  It is filled item by item, by    *)
(* FromJson from a file or by the other methods directly.                  *)
(*                                                                         *)
(* A RouteInternal is an object: adding a line again after a failure makes *)
(* new ones.  They are numbered in the order they are made, and so are the *)
(* edges of a station: a route stops there once.                           *)
(***************************************************************************)
EXTENDS Integers, Sequences, FiniteSets, SequencesExt

CONSTANTS
    Stations,       \* station ids
    Lines,          \* the lines that may be added: [id, routes], a route
                    \* being [id, stops]; stops has at least two stations,
                    \* none of them twice (Route, "well formed")
    Files,          \* JSON files: sequences of items
    MaxTime,        \* bound: travel times
    MaxCount,       \* bound: passenger counts, either way
    MaxRoutes       \* bound: RouteInternals made

ASSUME LinesAssumption ==
    \A l \in Lines :
        /\ l.routes \in Seq(Range(l.routes))
        /\ \A r \in Range(l.routes) :
            /\ r.stops \in Seq(Range(r.stops)) /\ Len(r.stops) >= 2
            /\ IsInjective(r.stops)

Station(s) == [item |-> "station", station |-> s]
LineItem(l) == [item |-> "line", line |-> l]
TravelTime(a, b, t) == [item |-> "time", a |-> a, b |-> b, time |-> t]

StationItems == {Station(s) : s \in Stations}
LineItems == {LineItem(l) : l \in Lines}
TimeItems == {TravelTime(a, b, t) : a, b \in Stations, t \in 0 .. MaxTime}

(* FromJson reads all the stations of a file, then its lines, and then its *)
(* travel times.                                                           *)
ASSUME FilesAssumption ==
    /\ MaxTime \in Nat /\ MaxCount \in Nat
    /\ \A f \in Files :
        /\ f \in Seq(StationItems \cup LineItems \cup TimeItems)
        /\ \A i, j \in DOMAIN f : i < j =>
            /\ f[i] \in TimeItems => f[j] \in TimeItems
            /\ f[j] \in StationItems => f[i] \in StationItems

VARIABLES
    stations_,      \* the ids of the stations
    lines_,         \* line id -> the set of its RouteInternals
    edges,          \* station -> its edges, [route, nextStop, travelTime]:
                    \* a vector, in the order of the numbers of the routes
    passengerCount, \* station -> the number of passengers
    routesMade,     \* RouteInternals so far
    file,           \* the file FromJson reads
    position,       \* the next item of it
    ok,             \* its local variable: nothing was refused so far
    loaded          \* what FromJson returned: "no" (not called or not at the
                    \* end), "true", "false", "threw"

network == <<stations_, lines_, edges, passengerCount, routesMade>>
loading == <<file, position, ok, loaded>>
vars == <<network, loading>>

(* The i-th route of a line that is being added.                           *)
RouteInternal(line, i) ==
    [id |-> line.routes[i].id, line |-> line.id, stops |-> line.routes[i].stops,
     made |-> routesMade + i]

AllRoutes == UNION {lines_[l] : l \in DOMAIN lines_}

TypeOK ==
    /\ stations_ \subseteq Stations
    /\ \A l \in DOMAIN lines_ : \A r \in lines_[l] : r.line = l /\ r.made <= routesMade
    /\ DOMAIN edges = stations_
    /\ \A s \in stations_ : \A e \in edges[s] :
        /\ e.nextStop \in stations_
        /\ e.travelTime \in 0 .. MaxTime
        /\ \A f \in edges[s] : e.route.made = f.route.made => e = f
    /\ passengerCount \in [stations_ -> -MaxCount .. MaxCount]
    /\ routesMade \in Nat
    /\ position \in 1 .. Len(file) + 1
    /\ ok \in BOOLEAN
    /\ loaded \in {"no", "true", "false", "threw"}

Init ==
    /\ stations_ = {}
    /\ lines_ = [l \in {} |-> {}]
    /\ edges = [s \in {} |-> {}]
    /\ passengerCount = [s \in {} |-> 0]
    /\ routesMade = 0
    /\ file \in Files
    /\ position = 1
    /\ ok = TRUE
    /\ loaded = "no"

-----------------------------------------------------------------------------
CanAddStation(s) == s \notin stations_

(* A variant that does not start the passenger count.                      *)
AddStationUncounted(s) ==
    /\ CanAddStation(s)
    /\ stations_' = stations_ \cup {s}
    /\ edges' = [t \in stations_' |-> IF t = s THEN {} ELSE edges[t]]
    /\ UNCHANGED <<lines_, passengerCount, routesMade>>

AddStation(s) ==
    /\ CanAddStation(s)
    /\ stations_' = stations_ \cup {s}
    /\ edges' = [t \in stations_' |-> IF t = s THEN {} ELSE edges[t]]
    /\ passengerCount' = [t \in stations_' |-> IF t = s THEN 0 ELSE passengerCount[t]]
    /\ UNCHANGED <<lines_, routesMade>>

(* AddRouteToLine refuses a route that the line has already, or with an    *)
(* unknown station; the routes after it are not tried.                     *)
RouteFits(line, i) ==
    /\ \A j \in 1 .. i - 1 : line.routes[j].id # line.routes[i].id
    /\ Range(line.routes[i].stops) \subseteq stations_

RoutesAdded(line) ==
    {i \in DOMAIN line.routes : \A j \in 1 .. i : RouteFits(line, j)}

(* A variant that adds a line although one of its routes was refused.      *)
CanAddLineAnyway(line) ==
    /\ line.id \notin DOMAIN lines_
    /\ \A r \in Range(line.routes) : Range(r.stops) \subseteq stations_

CanAddLine(line) ==
    line.id \notin DOMAIN lines_ /\ RoutesAdded(line) = DOMAIN line.routes

(* The edge of a route at one of its stops; the last stop has none.        *)
NewEdges(route, s) ==
    {[route |-> route, nextStop |-> route.stops[i + 1], travelTime |-> 0] :
        i \in {k \in 1 .. Len(route.stops) - 1 : route.stops[k] = s}}

(* The edges go into the stations route by route; the line goes into the   *)
(* map only when all its routes did.                                       *)
AddLine(line) ==
    /\ line.id \notin DOMAIN lines_
    /\ routesMade + Len(line.routes) <= MaxRoutes
    /\ routesMade' = routesMade + Len(line.routes)
    /\ edges' = [s \in stations_ |->
                    edges[s] \cup
                        UNION {NewEdges(RouteInternal(line, i), s) : i \in RoutesAdded(line)}]
    /\ lines_' = IF CanAddLine(line)
                 THEN [l \in DOMAIN lines_ \cup {line.id} |->
                        IF l = line.id
                        THEN {RouteInternal(line, i) : i \in DOMAIN line.routes}
                        ELSE lines_[l]]
                 ELSE lines_
    /\ UNCHANGED <<stations_, passengerCount>>

(* A variant in one direction only.                                        *)
JoinsOneWay(e, from, a, b) == from = a /\ e.nextStop = b

(* All the edges between the two stations, in both directions.             *)
Joins(e, from, a, b) == {from, e.nextStop} = {a, b}

Adjacent(a, b) ==
    /\ {a, b} \subseteq stations_
    /\ \E s \in {a, b} : \E e \in edges[s] : Joins(e, s, a, b)

SetTravelTime(a, b, t) ==
    /\ Adjacent(a, b)
    /\ edges' = [s \in stations_ |->
                    {IF Joins(e, s, a, b) THEN [e EXCEPT !.travelTime = t] ELSE e :
                        e \in edges[s]}]
    /\ UNCHANGED <<stations_, lines_, passengerCount, routesMade>>

RecordPassengerEvent(s, change) ==
    /\ s \in stations_
    /\ passengerCount[s] + change \in -MaxCount .. MaxCount
    /\ passengerCount' = [passengerCount EXCEPT ![s] = @ + change]
    /\ UNCHANGED <<stations_, lines_, edges, routesMade>>

-----------------------------------------------------------------------------
(* FromJson: the items of the file in order.  A station or a line that is  *)
(* refused makes it throw; a travel time that is refused makes it return   *)
(* false, after the others were set.                                       *)

ItemFits(item) ==
    CASE item.item = "station" -> CanAddStation(item.station)
      [] item.item = "line" -> CanAddLine(item.line)
      [] item.item = "time" -> Adjacent(item.a, item.b)

ApplyItem(item) ==
    CASE item.item = "station" -> AddStation(item.station)
      [] item.item = "line" -> AddLine(item.line)
      [] item.item = "time" -> SetTravelTime(item.a, item.b, item.time)

(* ok &= ..., and a variant with an assignment.                            *)
OkLast(item) == ItemFits(item)
OkAfter(item) == ok /\ ItemFits(item)

Loading == loaded = "no" /\ file # <<>>

(* Each item is read once, whether it is applied or refused; a line that   *)
(* is refused may leave edges.                                             *)
ReadItem ==
    LET item == file[position]
    IN  /\ Loading
        /\ position <= Len(file)
        /\ position' = position + 1
        /\ ok' = OkAfter(item)
        /\ IF ItemFits(item)
           THEN ApplyItem(item) /\ UNCHANGED loaded
           ELSE /\ loaded' = IF item.item = "time" THEN "no" ELSE "threw"
                /\ IF item.item = "line" /\ item.line.id \notin DOMAIN lines_
                   THEN AddLine(item.line)
                   ELSE UNCHANGED network
        /\ UNCHANGED file

FromJsonReturns ==
    /\ Loading
    /\ position > Len(file)
    /\ loaded' = IF ok THEN "true" ELSE "false"
    /\ UNCHANGED <<network, file, position, ok>>

-----------------------------------------------------------------------------
(* The queries.                                                            *)

(* The first edge from a to b, or else from b to a.                        *)
First(es) == CHOOSE e \in es : \A f \in es : e.route.made <= f.route.made

EdgesTo(a, b) == {e \in edges[a] : e.nextStop = b}

GetTravelTime(a, b) ==
    CASE {a, b} \subseteq stations_ /\ EdgesTo(a, b) # {} -> First(EdgesTo(a, b)).travelTime
      [] {a, b} \subseteq stations_ /\ EdgesTo(a, b) = {} /\ EdgesTo(b, a) # {} ->
            First(EdgesTo(b, a)).travelTime
      [] OTHER -> 0

EdgesForRoute(s, route) == {e \in edges[s] : e.route = route}

(* The walk along a route: nothing is counted before a is found, and the   *)
(* walk ends at b.  A stop without an edge gives 0.                        *)
GetRouteTravelTime(route, a, b) ==
    LET stops == route.stops
        between == {i \in DOMAIN stops :
                        /\ \E j \in 1 .. i : stops[j] = a
                        /\ \A j \in 1 .. i : stops[j] # b}
        legs(i) == EdgesForRoute(stops[i], route)
    IN  IF b \in Range(stops) /\ \A i \in between : legs(i) # {}
        THEN SumFunction([i \in between |-> First(legs(i)).travelTime])
        ELSE 0

(* A variant that misses the last stops.                                   *)
ListingsByEdges(s, id) == Cardinality({e \in edges[s] : e.route.id = id})

(* How often GetRoutesServingStation returns a route id: once for each     *)
(* edge there, whatever its route, and once for each route of the map that *)
(* ends there.                                                             *)
Listings(s, id) ==
    Cardinality({e \in edges[s] : e.route.id = id})
        + Cardinality({r \in AllRoutes : r.id = id /\ Last(r.stops) = s})

-----------------------------------------------------------------------------
(* After a load, and without a file, the methods may be called directly;   *)
(* the program then only records events.                                   *)
CallMethod ==
    /\ file = <<>>
    /\ \/ \E s \in Stations : AddStation(s)
       \/ \E l \in Lines : AddLine(l)
       \/ \E a, b \in Stations, t \in 1 .. MaxTime : SetTravelTime(a, b, t)
    /\ UNCHANGED loading

Record ==
    /\ ~Loading
    /\ \E s \in Stations, change \in {-1, 1} : RecordPassengerEvent(s, change)
    /\ UNCHANGED loading

Next == ReadItem \/ FromJsonReturns \/ CallMethod \/ Record

Spec == Init /\ [][Next]_vars

-----------------------------------------------------------------------------
(* Properties.                                                             *)

(* A route of the map can be walked: every stop but the last has exactly   *)
(* one edge of this very route object, to the next stop, and the last has  *)
(* none.  The "unexpected" branch of line 436 is never taken, whatever     *)
(* failed attempts have left behind.                                       *)
RoutesAreWalkable ==
    \A r \in AllRoutes : \A i \in DOMAIN r.stops :
        IF i < Len(r.stops)
        THEN \E e \in edges[r.stops[i]] : EdgesForRoute(r.stops[i], r) = {e} /\ e.nextStop = r.stops[i + 1]
        ELSE EdgesForRoute(r.stops[i], r) = {}

(* The edges at a station that a refused AddLine has left: their route is  *)
(* not on the map.                                                         *)
Strays(s) == {e \in edges[s] : e.route \notin AllRoutes}

RouteIds == UNION {{r.id : r \in Range(l.routes)} : l \in Lines}

(* GetRoutesServingStation returns an id once for each route of the map    *)
(* that stops there, although it puts the ids together from the edges and  *)
(* the last stops (lines 321-335), and once more for each stray edge, and  *)
(* not otherwise.  Without a refused AddLine, then, it lists each route    *)
(* once.  After one it lists a route of no line, and an id twice when the  *)
(* line is added again.                                                    *)
RoutesListedOnce ==
    \A s \in stations_, id \in RouteIds :
        Listings(s, id) =
            Cardinality({r \in AllRoutes : r.id = id /\ s \in Range(r.stops)})
                + Cardinality({e \in Strays(s) : e.route.id = id})

Uniform ==
    \A s, t \in stations_ : \A e \in edges[s], f \in edges[t] :
        {s, e.nextStop} = {t, f.nextStop} => e.travelTime = f.travelTime

(* What GetTravelTime relies on (lines 383-385): in a network that came    *)
(* from a file, the time between two stations is the same both ways and    *)
(* for all routes, so that the time along a route is the sum of the times  *)
(* between its adjacent stops.                                             *)
LoadedTimesAgree ==
    loaded \in {"true", "false"} =>
        /\ Uniform
        /\ \A r \in AllRoutes : \A i, j \in DOMAIN r.stops :
            i < j =>
                GetRouteTravelTime(r, r.stops[i], r.stops[j]) =
                    SumFunction([k \in i .. j - 1 |->
                                    GetTravelTime(r.stops[k], r.stops[k + 1])])

(* What the result of FromJson says (transport-network.h:211-216): unless  *)
(* it threw, all the stations and lines of the file are there, and when it *)
(* returned true, so are all the travel times (the last one of each pair). *)
LoadIsComplete ==
    loaded \in {"true", "false"} =>
        \A i \in DOMAIN file :
            LET item == file[i]
            IN  CASE item.item = "station" -> item.station \in stations_
                  [] item.item = "line" ->
                        /\ item.line.id \in DOMAIN lines_
                        /\ {r.id : r \in lines_[item.line.id]} =
                                {r.id : r \in Range(item.line.routes)}
                  [] item.item = "time" ->
                        loaded = "true" =>
                            \/ GetTravelTime(item.a, item.b) = item.time
                            \/ \E j \in i + 1 .. Len(file) :
                                file[j].item = "time" /\ {file[j].a, file[j].b} = {item.a, item.b}
=============================================================================
