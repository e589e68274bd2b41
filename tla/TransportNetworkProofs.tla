----------------------- MODULE TransportNetworkProofs -----------------------
(***************************************************************************)
(* What holds of the network representation for all stations, lines and    *)
(* files: the edges fit the routes of the map whatever failed attempts     *)
(* left behind, and a file is loaded as the result of FromJson says.       *)
(***************************************************************************)
EXTENDS TransportNetwork, FiniteSetTheorems, TLAPS

RouteOk(r) ==
    /\ r.stops \in Seq(Range(r.stops)) /\ Len(r.stops) >= 2
    /\ IsInjective(r.stops)

IsEdge(e, s) ==
    /\ e = [route |-> e.route, nextStop |-> e.nextStop, travelTime |-> e.travelTime]
    /\ RouteOk(e.route)
    /\ e.route.made \in 1 .. routesMade
    /\ e.nextStop \in stations_
    /\ e.travelTime \in 0 .. MaxTime
    /\ \E i \in 1 .. Len(e.route.stops) - 1 :
        e.route.stops[i] = s /\ e.route.stops[i + 1] = e.nextStop

(* The edges of a station belong to routes that stop there and go on, one  *)
(* for each RouteInternal.                                                 *)
EdgesOk ==
    /\ stations_ \subseteq Stations
    /\ DOMAIN edges = stations_
    /\ routesMade \in Nat
    /\ \A s \in stations_ : \A e \in edges[s] :
        /\ IsEdge(e, s)
        /\ \A f \in edges[s] : e.route.made = f.route.made => e = f

IsOnMap(r, l) ==
    /\ RouteOk(r)
    /\ r.line = l
    /\ r.made \in 1 .. routesMade
    /\ Range(r.stops) \subseteq stations_
    /\ \A i \in 1 .. Len(r.stops) - 1 :
        \E e \in edges[r.stops[i]] : e.route = r /\ e.nextStop = r.stops[i + 1]

(* The routes of the map have all their edges.                             *)
MapOk == \A l \in DOMAIN lines_ : \A r \in lines_[l] : IsOnMap(r, l)

CountsOk == passengerCount \in [stations_ -> -MaxCount .. MaxCount]

NetworkInv == EdgesOk /\ MapOk /\ CountsOk

-----------------------------------------------------------------------------
LEMMA RouteFacts ==
    ASSUME NEW r, RouteOk(r)
    PROVE  /\ Len(r.stops) \in Nat /\ Len(r.stops) >= 2 /\ DOMAIN r.stops = 1 .. Len(r.stops)
           /\ \A i \in 1 .. Len(r.stops) : r.stops[i] \in Range(r.stops)
           /\ \A i, k \in 1 .. Len(r.stops) : r.stops[i] = r.stops[k] => i = k
           /\ Last(r.stops) = r.stops[Len(r.stops)]
<1>1. Len(r.stops) \in Nat /\ DOMAIN r.stops = 1 .. Len(r.stops) /\ Len(r.stops) >= 2
  BY DEF RouteOk
<1> QED  BY <1>1 DEF RouteOk, Range, IsInjective, Last

(* The edges that AddRouteToLine adds at a station.                        *)
LEMMA NewEdgeFacts ==
    ASSUME NEW r, RouteOk(r), NEW s, NEW e \in NewEdges(r, s)
    PROVE  /\ e.route = r /\ e.travelTime = 0
           /\ e = [route |-> e.route, nextStop |-> e.nextStop, travelTime |-> e.travelTime]
           /\ e.nextStop \in Range(r.stops)
           /\ \E i \in 1 .. Len(r.stops) - 1 : r.stops[i] = s /\ r.stops[i + 1] = e.nextStop
           /\ \A f \in NewEdges(r, s) : e = f
<1>1. PICK i \in 1 .. Len(r.stops) - 1 :
        r.stops[i] = s /\ e = [route |-> r, nextStop |-> r.stops[i + 1], travelTime |-> 0]
  BY DEF NewEdges
<1>2. i \in 1 .. Len(r.stops) /\ i + 1 \in 1 .. Len(r.stops)
  BY RouteFacts
<1>3. ASSUME NEW f \in NewEdges(r, s) PROVE e = f
  <2>1. PICK k \in 1 .. Len(r.stops) - 1 :
          r.stops[k] = s /\ f = [route |-> r, nextStop |-> r.stops[k + 1], travelTime |-> 0]
    BY DEF NewEdges
  <2>2. k \in 1 .. Len(r.stops)
    BY RouteFacts
  <2>3. i = k
    BY <1>1, <1>2, <2>1, <2>2, RouteFacts
  <2> QED  BY <1>1, <2>1, <2>3
<1>4. e.nextStop = r.stops[i + 1] /\ r.stops[i + 1] \in Range(r.stops)
  BY <1>1, <1>2, RouteFacts
<1> QED  BY <1>1, <1>3, <1>4

LEMMA NewEdgesComplete ==
    ASSUME NEW r, NEW i \in 1 .. Len(r.stops) - 1
    PROVE  \E e \in NewEdges(r, r.stops[i]) : e.route = r /\ e.nextStop = r.stops[i + 1]
<1> DEFINE e == [route |-> r, nextStop |-> r.stops[i + 1], travelTime |-> 0]
<1>1. e \in NewEdges(r, r.stops[i])
  BY DEF NewEdges
<1> QED  BY <1>1

LEMMA AddStationKeeps ==
    ASSUME NetworkInv, NEW s \in Stations, AddStation(s)
    PROVE  NetworkInv'
<1>1. /\ s \notin stations_ /\ stations_' = stations_ \cup {s}
      /\ edges' = [t \in stations_' |-> IF t = s THEN {} ELSE edges[t]]
      /\ passengerCount' = [t \in stations_' |-> IF t = s THEN 0 ELSE passengerCount[t]]
      /\ UNCHANGED <<lines_, routesMade>>
  BY DEF AddStation, CanAddStation
<1>2. /\ DOMAIN edges' = stations_' /\ edges'[s] = {}
      /\ \A t \in stations_ : edges'[t] = edges[t]
  BY <1>1
<1>3. EdgesOk'
  <2>1. ASSUME NEW t \in stations_', NEW e \in edges'[t]
        PROVE  IsEdge(e, t)' /\ \A f \in edges'[t] : e.route.made = f.route.made => e = f
    BY <1>1, <1>2 DEF NetworkInv, EdgesOk, IsEdge
  <2> QED  BY <1>1, <1>2, <2>1 DEF NetworkInv, EdgesOk
<1>4. MapOk'
  <2> SUFFICES ASSUME NEW l \in DOMAIN lines_, NEW r \in lines_[l] PROVE IsOnMap(r, l)'
    BY <1>1 DEF MapOk
  <2>1. IsOnMap(r, l)
    BY DEF NetworkInv, MapOk
  <2>2. \A i \in 1 .. Len(r.stops) - 1 : r.stops[i] \in stations_
    <3>1. \A i \in 1 .. Len(r.stops) - 1 : i \in 1 .. Len(r.stops)
      BY <2>1, RouteFacts DEF IsOnMap
    <3> QED  BY <2>1, <3>1, RouteFacts DEF IsOnMap
  <2> QED  BY <1>1, <1>2, <2>1, <2>2 DEF IsOnMap
<1>5. CountsOk'
  <2>1. 0 \in -MaxCount .. MaxCount
    BY FilesAssumption
  <2> QED  BY <1>1, <2>1 DEF NetworkInv, CountsOk
<1> QED  BY <1>3, <1>4, <1>5 DEF NetworkInv

(* The routes that AddLine makes have numbers of their own.                *)
LEMMA NewRoutes ==
    ASSUME NetworkInv, NEW line \in Lines, NEW i \in DOMAIN line.routes
    PROVE  /\ RouteOk(RouteInternal(line, i))
           /\ RouteInternal(line, i).line = line.id
           /\ RouteInternal(line, i).made = routesMade + i
           /\ RouteInternal(line, i).stops = line.routes[i].stops
           /\ i \in 1 .. Len(line.routes) /\ Len(line.routes) \in Nat
<1>1. line.routes \in Seq(Range(line.routes)) /\ line.routes[i] \in Range(line.routes)
  BY LinesAssumption DEF Range
<1>2. RouteOk(line.routes[i])
  BY <1>1, LinesAssumption DEF RouteOk
<1>3. RouteInternal(line, i).stops = line.routes[i].stops
  BY DEF RouteInternal
<1>4. RouteOk(RouteInternal(line, i))
  BY <1>2, <1>3 DEF RouteOk
<1>5. i \in 1 .. Len(line.routes) /\ Len(line.routes) \in Nat
  BY <1>1
<1> QED  BY <1>3, <1>4, <1>5 DEF RouteInternal

LEMMA AddLineKeeps ==
    ASSUME NetworkInv, NEW line \in Lines, AddLine(line)
    PROVE  NetworkInv'
<1> DEFINE R(i) == RouteInternal(line, i)
           new(s) == UNION {NewEdges(R(i), s) : i \in RoutesAdded(line)}
<1>1. /\ line.id \notin DOMAIN lines_
      /\ routesMade' = routesMade + Len(line.routes)
      /\ edges' = [s \in stations_ |-> edges[s] \cup new(s)]
      /\ UNCHANGED <<stations_, passengerCount>>
  BY DEF AddLine
<1>2. lines_' = IF CanAddLine(line)
                THEN [l \in DOMAIN lines_ \cup {line.id} |->
                        IF l = line.id THEN {R(i) : i \in DOMAIN line.routes} ELSE lines_[l]]
                ELSE lines_
  BY DEF AddLine
<1>3. /\ routesMade \in Nat /\ DOMAIN edges = stations_ /\ stations_ \subseteq Stations
  BY DEF NetworkInv, EdgesOk
<1>4. \A i \in DOMAIN line.routes :
        /\ RouteOk(R(i)) /\ R(i).line = line.id /\ R(i).made = routesMade + i
        /\ R(i).stops = line.routes[i].stops
        /\ i \in 1 .. Len(line.routes) /\ Len(line.routes) \in Nat
  BY NewRoutes
<1>5. Len(line.routes) \in Nat /\ routesMade' \in Nat /\ routesMade <= routesMade'
  <2>1. Len(line.routes) \in Nat
    BY LinesAssumption
  <2> QED  BY <1>1, <1>3, <2>1
<1>6. \A i \in RoutesAdded(line) : i \in DOMAIN line.routes /\ Range(R(i).stops) \subseteq stations_
  <2> SUFFICES ASSUME NEW i \in RoutesAdded(line)
               PROVE  i \in DOMAIN line.routes /\ Range(R(i).stops) \subseteq stations_
    OBVIOUS
  <2>1. i \in DOMAIN line.routes /\ \A j \in 1 .. i : RouteFits(line, j)
    BY DEF RoutesAdded
  <2>2. i \in 1 .. i
    BY <1>4, <2>1
  <2>3. Range(line.routes[i].stops) \subseteq stations_
    BY <2>1, <2>2 DEF RouteFits
  <2> QED  BY <1>4, <2>1, <2>3
<1> HIDE DEF R
<1>7. ASSUME NEW s, NEW e \in new(s)
      PROVE  /\ IsEdge(e, s)' /\ e.route.made > routesMade /\ e.travelTime = 0
             /\ \A f \in new(s) : e.route.made = f.route.made => e = f
  <2>1. PICK i \in RoutesAdded(line) : e \in NewEdges(R(i), s)
    OBVIOUS
  <2>2. /\ RouteOk(R(i)) /\ R(i).made = routesMade + i /\ Range(R(i).stops) \subseteq stations_
        /\ i \in 1 .. Len(line.routes)
    BY <1>4, <1>6
  <2>3. /\ e.route = R(i) /\ e.travelTime = 0
        /\ e = [route |-> e.route, nextStop |-> e.nextStop, travelTime |-> e.travelTime]
        /\ e.nextStop \in Range(R(i).stops)
        /\ \E k \in 1 .. Len(R(i).stops) - 1 : R(i).stops[k] = s /\ R(i).stops[k + 1] = e.nextStop
        /\ \A f \in NewEdges(R(i), s) : e = f
    BY <2>1, <2>2, NewEdgeFacts
  <2>4. e.route.made \in 1 .. routesMade' /\ e.route.made > routesMade
    BY <1>1, <1>3, <1>5, <2>2, <2>3
  <2>5. e.travelTime \in 0 .. MaxTime
    BY <2>3, FilesAssumption
  <2>6. IsEdge(e, s)'
    BY <1>1, <2>2, <2>3, <2>4, <2>5 DEF IsEdge
  <2>7. ASSUME NEW f \in new(s), e.route.made = f.route.made PROVE e = f
    <3>1. PICK k \in RoutesAdded(line) : f \in NewEdges(R(k), s)
      OBVIOUS
    <3>2. RouteOk(R(k)) /\ R(k).made = routesMade + k /\ k \in 1 .. Len(line.routes)
      BY <1>4, <1>6
    <3>3. f.route = R(k)
      BY <3>1, <3>2, NewEdgeFacts
    <3>4. i = k
      BY <1>3, <1>5, <2>2, <2>3, <2>7, <3>2, <3>3
    <3> QED  BY <2>3, <3>1, <3>4
  <2> QED  BY <2>3, <2>4, <2>6, <2>7
<1> HIDE DEF new
<1>8. EdgesOk'
  <2>1. ASSUME NEW s \in stations_, NEW e \in edges'[s]
        PROVE  IsEdge(e, s)' /\ \A f \in edges'[s] : e.route.made = f.route.made => e = f
    <3>1. edges'[s] = edges[s] \cup new(s)
      BY <1>1
    <3>2. \A f \in edges[s] : IsEdge(f, s) /\ f.route.made \in 1 .. routesMade
      BY DEF NetworkInv, EdgesOk, IsEdge
    <3>3. \A f \in edges[s], g \in new(s) : f.route.made # g.route.made
      BY <1>3, <1>7, <3>2
    <3>4. \A f, g \in edges[s] : f.route.made = g.route.made => f = g
      BY DEF NetworkInv, EdgesOk
    <3>5. \A f \in edges[s] : IsEdge(f, s)'
      BY <1>1, <1>3, <1>5, <3>2 DEF IsEdge
    <3>6. \A f \in new(s) : IsEdge(f, s)' /\ \A g \in new(s) : f.route.made = g.route.made => f = g
      BY <1>7
    <3> QED  BY <3>1, <3>3, <3>4, <3>5, <3>6
  <2> QED  BY <1>1, <1>3, <1>5, <2>1 DEF EdgesOk
<1>9. MapOk'
  <2>1. ASSUME NEW l \in DOMAIN lines_, NEW r \in lines_[l] PROVE IsOnMap(r, l)'
    <3>1. IsOnMap(r, l)
      BY DEF NetworkInv, MapOk
    <3>2. r.made \in 1 .. routesMade'
      BY <1>3, <1>5, <3>1 DEF IsOnMap
    <3>3. ASSUME NEW i \in 1 .. Len(r.stops) - 1
          PROVE  \E e \in edges'[r.stops[i]] : e.route = r /\ e.nextStop = r.stops[i + 1]
      <4>1. i \in 1 .. Len(r.stops)
        BY <3>1, RouteFacts DEF IsOnMap
      <4>2. r.stops[i] \in stations_
        BY <3>1, <4>1, RouteFacts DEF IsOnMap
      <4> QED  BY <1>1, <3>1, <4>2 DEF IsOnMap
    <3> QED  BY <1>1, <3>1, <3>2, <3>3 DEF IsOnMap
  <2>2. ASSUME CanAddLine(line), NEW i \in DOMAIN line.routes, NEW r, r = R(i)
        PROVE  IsOnMap(r, line.id)'
    <3>1. i \in RoutesAdded(line)
      BY <2>2 DEF CanAddLine
    <3>2. /\ RouteOk(R(i)) /\ R(i).line = line.id /\ R(i).made = routesMade + i
          /\ i \in 1 .. Len(line.routes) /\ Range(R(i).stops) \subseteq stations_
      BY <1>4, <1>6, <3>1
    <3>3. R(i).made \in 1 .. routesMade'
      BY <1>1, <1>3, <1>5, <3>2
    <3>4. ASSUME NEW k \in 1 .. Len(R(i).stops) - 1
          PROVE  \E e \in edges'[R(i).stops[k]] : e.route = R(i) /\ e.nextStop = R(i).stops[k + 1]
      <4>1. k \in 1 .. Len(R(i).stops)
        BY <3>2, RouteFacts
      <4>2. R(i).stops[k] \in stations_
        BY <3>2, <4>1, RouteFacts
      <4>3. PICK e \in NewEdges(R(i), R(i).stops[k]) : e.route = R(i) /\ e.nextStop = R(i).stops[k + 1]
        BY NewEdgesComplete
      <4>4. e \in new(R(i).stops[k])
        BY <3>1 DEF new
      <4> QED  BY <1>1, <4>2, <4>3, <4>4
    <3> QED  BY <1>1, <2>2, <3>2, <3>3, <3>4 DEF IsOnMap
  <2>3. CASE CanAddLine(line)
    <3>1. ASSUME NEW l \in DOMAIN lines_', NEW r \in lines_'[l] PROVE IsOnMap(r, l)'
      <4>1. CASE l = line.id
        <5>1. PICK i \in DOMAIN line.routes : r = R(i)
          BY <1>2, <2>3, <4>1
        <5> QED  BY <2>2, <2>3, <4>1, <5>1
      <4>2. CASE l # line.id
        BY <1>2, <2>1, <2>3, <4>2
      <4> QED  BY <4>1, <4>2
    <3> QED  BY <3>1 DEF MapOk
  <2>4. CASE ~CanAddLine(line)
    BY <1>2, <2>1, <2>4 DEF MapOk
  <2> QED  BY <2>3, <2>4
<1>10. CountsOk'
  BY <1>1 DEF NetworkInv, CountsOk
<1> QED  BY <1>8, <1>9, <1>10 DEF NetworkInv

(* SetTravelTime changes the time of the edges between two stations, and   *)
(* nothing else.                                                           *)
Timed(f, s, a, b, t) ==
    [route |-> f.route, nextStop |-> f.nextStop,
     travelTime |-> IF Joins(f, s, a, b) THEN t ELSE f.travelTime]

LEMMA SetTimeFacts ==
    ASSUME NetworkInv, NEW a, NEW b, NEW t, SetTravelTime(a, b, t), NEW s \in stations_
    PROVE  edges'[s] = {Timed(f, s, a, b, t) : f \in edges[s]}
<1>1. edges'[s] =
        {IF Joins(f, s, a, b) THEN [f EXCEPT !.travelTime = t] ELSE f : f \in edges[s]}
  BY DEF SetTravelTime
<1>2. ASSUME NEW f \in edges[s]
      PROVE  (IF Joins(f, s, a, b) THEN [f EXCEPT !.travelTime = t] ELSE f)
                = Timed(f, s, a, b, t)
  <2>1. f = [route |-> f.route, nextStop |-> f.nextStop, travelTime |-> f.travelTime]
    BY DEF NetworkInv, EdgesOk, IsEdge
  <2>2. CASE Joins(f, s, a, b)
    <3>1. [f EXCEPT !.travelTime = t] = [route |-> f.route, nextStop |-> f.nextStop, travelTime |-> t]
      BY <2>1
    <3> QED  BY <2>2, <3>1 DEF Timed
  <2>3. CASE ~Joins(f, s, a, b)
    BY <2>1, <2>3 DEF Timed
  <2> QED  BY <2>2, <2>3
<1> QED  BY <1>1, <1>2

LEMMA TimedFacts ==
    ASSUME NEW f, NEW s, NEW a, NEW b, NEW t, NEW e, e = Timed(f, s, a, b, t)
    PROVE  /\ e.route = f.route /\ e.nextStop = f.nextStop
           /\ e = [route |-> e.route, nextStop |-> e.nextStop, travelTime |-> e.travelTime]
           /\ Joins(f, s, a, b) => e.travelTime = t
           /\ ~Joins(f, s, a, b) => e.travelTime = f.travelTime
BY DEF Timed

LEMMA SetTravelTimeKeeps ==
    ASSUME NetworkInv, NEW a, NEW b, NEW t \in 0 .. MaxTime, SetTravelTime(a, b, t)
    PROVE  NetworkInv'
<1>1. UNCHANGED <<stations_, lines_, passengerCount, routesMade>> /\ DOMAIN edges' = stations_
  BY DEF SetTravelTime
<1>2. \A s \in stations_ : edges'[s] = {Timed(f, s, a, b, t) : f \in edges[s]}
  BY SetTimeFacts
<1>3. \A f, s, e : e = Timed(f, s, a, b, t) =>
        /\ e.route = f.route /\ e.nextStop = f.nextStop
        /\ e = [route |-> e.route, nextStop |-> e.nextStop, travelTime |-> e.travelTime]
        /\ e.travelTime = t \/ e.travelTime = f.travelTime
  BY TimedFacts
<1>4. EdgesOk'
  <2>1. ASSUME NEW s \in stations_, NEW e \in edges'[s] PROVE IsEdge(e, s)'
    <3>1. PICK f \in edges[s] : e = Timed(f, s, a, b, t)
      BY <1>2
    <3>2. IsEdge(f, s)
      BY DEF NetworkInv, EdgesOk
    <3>3. /\ e.route = f.route /\ e.nextStop = f.nextStop
          /\ e = [route |-> e.route, nextStop |-> e.nextStop, travelTime |-> e.travelTime]
          /\ e.travelTime \in 0 .. MaxTime
      BY <1>3, <3>1, <3>2 DEF IsEdge
    <3> QED  BY <1>1, <3>2, <3>3 DEF IsEdge
  <2>2. ASSUME NEW s \in stations_, NEW e \in edges'[s], NEW g \in edges'[s],
               e.route.made = g.route.made
        PROVE  e = g
    <3>1. PICK f \in edges[s] : e = Timed(f, s, a, b, t)
      BY <1>2
    <3>2. PICK h \in edges[s] : g = Timed(h, s, a, b, t)
      BY <1>2
    <3>3. f.route.made = h.route.made
      BY <1>3, <2>2, <3>1, <3>2
    <3>4. f = h
      BY <3>3 DEF NetworkInv, EdgesOk
    <3> QED  BY <3>1, <3>2, <3>4
  <2> QED  BY <1>1, <2>1, <2>2 DEF NetworkInv, EdgesOk
<1>5. MapOk'
  <2> SUFFICES ASSUME NEW l \in DOMAIN lines_, NEW r \in lines_[l] PROVE IsOnMap(r, l)'
    BY <1>1 DEF MapOk
  <2>1. IsOnMap(r, l)
    BY DEF NetworkInv, MapOk
  <2>2. ASSUME NEW i \in 1 .. Len(r.stops) - 1
        PROVE  \E e \in edges'[r.stops[i]] : e.route = r /\ e.nextStop = r.stops[i + 1]
    <3>1. i \in 1 .. Len(r.stops)
      BY <2>1, RouteFacts DEF IsOnMap
    <3>2. r.stops[i] \in stations_
      BY <2>1, <3>1, RouteFacts DEF IsOnMap
    <3>3. PICK f \in edges[r.stops[i]] : f.route = r /\ f.nextStop = r.stops[i + 1]
      BY <2>1 DEF IsOnMap
    <3>4. Timed(f, r.stops[i], a, b, t) \in edges'[r.stops[i]]
      BY <1>2, <3>2
    <3> QED  BY <1>3, <3>3, <3>4
  <2> QED  BY <1>1, <2>1, <2>2 DEF IsOnMap
<1>6. CountsOk'
  BY <1>1 DEF NetworkInv, CountsOk
<1> QED  BY <1>4, <1>5, <1>6 DEF NetworkInv

LEMMA RecordKeeps ==
    ASSUME NetworkInv, NEW s, NEW change, RecordPassengerEvent(s, change)
    PROVE  NetworkInv'
<1>1. /\ UNCHANGED <<stations_, lines_, edges, routesMade>>
      /\ passengerCount[s] + change \in -MaxCount .. MaxCount
      /\ passengerCount' = [passengerCount EXCEPT ![s] = @ + change]
  BY DEF RecordPassengerEvent
<1>2. EdgesOk'
  BY <1>1 DEF NetworkInv, EdgesOk, IsEdge
<1>3. MapOk'
  BY <1>1 DEF NetworkInv, MapOk, IsOnMap
<1>4. CountsOk'
  BY <1>1 DEF NetworkInv, CountsOk
<1> QED  BY <1>2, <1>3, <1>4 DEF NetworkInv

LEMMA SameNetworkKeeps ==
    ASSUME NetworkInv, UNCHANGED network
    PROVE  NetworkInv'
<1>1. UNCHANGED <<stations_, lines_, edges, routesMade, passengerCount>>
  BY DEF network
<1>2. EdgesOk'
  BY <1>1 DEF NetworkInv, EdgesOk, IsEdge
<1>3. MapOk'
  <2>1. ASSUME NEW l \in DOMAIN lines_, NEW r \in lines_[l] PROVE IsOnMap(r, l)'
    <3>1. IsOnMap(r, l)
      BY DEF NetworkInv, MapOk
    <3> QED  BY <1>1, <3>1 DEF IsOnMap
  <2> QED  BY <1>1, <2>1 DEF MapOk
<1>4. CountsOk'
  BY <1>1 DEF NetworkInv, CountsOk
<1> QED  BY <1>2, <1>3, <1>4 DEF NetworkInv

-----------------------------------------------------------------------------
(* The edges of a route of the map.                                        *)
LEMMA RouteHasEdge ==
    ASSUME NetworkInv, NEW r \in AllRoutes, NEW i \in 1 .. Len(r.stops) - 1
    PROVE  /\ r.stops[i] \in stations_
           /\ \E e \in edges[r.stops[i]] :
                EdgesForRoute(r.stops[i], r) = {e} /\ e.nextStop = r.stops[i + 1]
<1>1. PICK l \in DOMAIN lines_ : r \in lines_[l]
  BY DEF AllRoutes
<1>2. IsOnMap(r, l)
  BY <1>1 DEF NetworkInv, MapOk
<1>3. r.stops[i] \in stations_
  <2>1. i \in 1 .. Len(r.stops)
    BY <1>2, RouteFacts DEF IsOnMap
  <2> QED  BY <1>2, <2>1, RouteFacts DEF IsOnMap
<1>4. PICK e \in edges[r.stops[i]] : e.route = r /\ e.nextStop = r.stops[i + 1]
  BY <1>2 DEF IsOnMap
<1>5. \A f \in edges[r.stops[i]] : f.route = r => f = e
  BY <1>3, <1>4 DEF NetworkInv, EdgesOk
<1>6. EdgesForRoute(r.stops[i], r) = {e}
  BY <1>4, <1>5 DEF EdgesForRoute
<1> QED  BY <1>3, <1>4, <1>6

LEMMA RouteOfMap ==
    ASSUME NetworkInv, NEW r \in AllRoutes
    PROVE  RouteOk(r) /\ Range(r.stops) \subseteq stations_
BY DEF AllRoutes, NetworkInv, MapOk, IsOnMap

(* There is none where the route ends or does not stop.                    *)
LEMMA NoEdgeElsewhere ==
    ASSUME NetworkInv, NEW r \in AllRoutes, NEW s \in stations_,
           \A i \in 1 .. Len(r.stops) - 1 : r.stops[i] # s
    PROVE  EdgesForRoute(s, r) = {}
BY DEF NetworkInv, EdgesOk, IsEdge, EdgesForRoute

LEMMA Walkable == NetworkInv => RoutesAreWalkable
<1> SUFFICES ASSUME NetworkInv, NEW r \in AllRoutes, NEW i \in DOMAIN r.stops
             PROVE  IF i < Len(r.stops)
                    THEN \E e \in edges[r.stops[i]] :
                            EdgesForRoute(r.stops[i], r) = {e} /\ e.nextStop = r.stops[i + 1]
                    ELSE EdgesForRoute(r.stops[i], r) = {}
  BY DEF RoutesAreWalkable
<1>1. RouteOk(r) /\ Range(r.stops) \subseteq stations_
  BY RouteOfMap
<1>2. /\ Len(r.stops) \in Nat /\ i \in 1 .. Len(r.stops) /\ r.stops[i] \in stations_
      /\ \A k, m \in 1 .. Len(r.stops) : r.stops[k] = r.stops[m] => k = m
  BY <1>1, RouteFacts
<1>3. CASE i < Len(r.stops)
  <2>1. i \in 1 .. Len(r.stops) - 1
    BY <1>2, <1>3
  <2> QED  BY <1>3, <2>1, RouteHasEdge
<1>4. CASE ~(i < Len(r.stops))
  <2>1. \A k \in 1 .. Len(r.stops) - 1 : k \in 1 .. Len(r.stops) /\ k # i
    BY <1>2, <1>4
  <2>2. \A k \in 1 .. Len(r.stops) - 1 : r.stops[k] # r.stops[i]
    BY <1>2, <2>1
  <2> QED  BY <1>2, <1>4, <2>2, NoEdgeElsewhere
<1> QED  BY <1>3, <1>4

-----------------------------------------------------------------------------
(* How many ids GetRoutesServingStation returns.                           *)
LEMMA CountedInParts ==
    ASSUME NEW S, IsFiniteSet(S), NEW A, NEW B, S = A \cup B, A \cap B = {}
    PROVE  /\ IsFiniteSet(A) /\ IsFiniteSet(B)
           /\ Cardinality(S) = Cardinality(A) + Cardinality(B)
           /\ Cardinality(A) \in Nat /\ Cardinality(B) \in Nat
<1>1. IsFiniteSet(A) /\ IsFiniteSet(B)
  BY FS_Subset
<1>2. Cardinality(A) \in Nat /\ Cardinality(B) \in Nat /\ Cardinality(A \cap B) = 0
  BY <1>1, FS_CardinalityType, FS_EmptySet
<1>3. Cardinality(S) = Cardinality(A) + Cardinality(B) - Cardinality(A \cap B)
  BY <1>1, FS_Union
<1> QED  BY <1>1, <1>2, <1>3

(* The edges of a station have different numbers.                          *)
LEMMA EdgesAreFinite ==
    ASSUME NetworkInv, NEW s \in stations_
    PROVE  IsFiniteSet(edges[s])
<1> DEFINE number == [e \in edges[s] |-> e.route.made]
<1>1. routesMade \in Nat /\ IsFiniteSet(1 .. routesMade)
  BY FS_Interval DEF NetworkInv, EdgesOk
<1>2. number \in Injection(edges[s], 1 .. routesMade)
  BY DEF NetworkInv, EdgesOk, IsEdge, Injection, IsInjective
<1> HIDE DEF number
<1> QED  BY <1>1, <1>2, FS_Injection

(* The edges of the routes of the map stand for these routes.              *)
MapEdges(s, id) == {e \in edges[s] : e.route \in AllRoutes /\ e.route.id = id}

Leaving(s, id) ==
    {r \in AllRoutes : r.id = id /\ \E i \in 1 .. Len(r.stops) - 1 : r.stops[i] = s}

LEMMA EdgesCountRoutes ==
    ASSUME NetworkInv, NEW s \in stations_, NEW id
    PROVE  Cardinality(MapEdges(s, id)) = Cardinality(Leaving(s, id))
<1>0. PICK es, rs : es = MapEdges(s, id) /\ rs = Leaving(s, id)
  OBVIOUS
<1> DEFINE routeOf == [e \in es |-> e.route]
<1>1. routeOf \in [es -> rs]
  BY <1>0 DEF NetworkInv, EdgesOk, IsEdge, MapEdges, Leaving
<1>2. IsInjective(routeOf)
  BY <1>0 DEF MapEdges, NetworkInv, EdgesOk, IsInjective
<1>3. ASSUME NEW r \in rs PROVE \E e \in es : routeOf[e] = r
  <2>1. PICK i \in 1 .. Len(r.stops) - 1 : r.stops[i] = s
    BY <1>0 DEF Leaving
  <2>2. r \in AllRoutes /\ r.id = id
    BY <1>0 DEF Leaving
  <2>3. PICK e : EdgesForRoute(s, r) = {e}
    BY <2>1, <2>2, RouteHasEdge
  <2>4. e \in es /\ e.route = r
    BY <1>0, <2>2, <2>3 DEF EdgesForRoute, MapEdges
  <2> QED  BY <2>4
<1>4. routeOf \in Bijection(es, rs)
  BY <1>1, <1>2, <1>3 DEF Bijection, Injection, Surjection
<1>5. ExistsBijection(es, rs)
  BY <1>4 DEF ExistsBijection
<1>6. IsFiniteSet(es)
  <2>1. es \in SUBSET edges[s]
    BY <1>0 DEF MapEdges
  <2> QED  BY <2>1, EdgesAreFinite, FS_Subset
<1> QED  BY <1>0, <1>5, <1>6, FS_Bijection

LEMMA ListedOnce == NetworkInv /\ IsFiniteSet(AllRoutes) => RoutesListedOnce
<1> SUFFICES ASSUME NetworkInv, IsFiniteSet(AllRoutes), NEW s \in stations_, NEW id
             PROVE  Listings(s, id) =
                        Cardinality({r \in AllRoutes : r.id = id /\ s \in Range(r.stops)})
                            + Cardinality({e \in Strays(s) : e.route.id = id})
  BY DEF RoutesListedOnce
<1> DEFINE es == {e \in edges[s] : e.route.id = id}
           known == MapEdges(s, id)
           stray == {e \in Strays(s) : e.route.id = id}
           serving == {r \in AllRoutes : r.id = id /\ s \in Range(r.stops)}
           ending == {r \in AllRoutes : r.id = id /\ Last(r.stops) = s}
           leaving == Leaving(s, id)
<1>1. /\ Cardinality(es) = Cardinality(known) + Cardinality(stray)
      /\ Cardinality(known) \in Nat /\ Cardinality(stray) \in Nat
  <2>1. IsFiniteSet(es) /\ es = known \cup stray /\ known \cap stray = {}
    BY EdgesAreFinite, FS_Subset DEF Strays, MapEdges
  <2> HIDE DEF es, known, stray
  <2> QED  BY <2>1, CountedInParts
<1>2. Cardinality(known) = Cardinality(leaving)
  BY EdgesCountRoutes
<1>3. /\ Cardinality(serving) = Cardinality(leaving) + Cardinality(ending)
      /\ Cardinality(ending) \in Nat
  <2>1. ASSUME NEW r \in AllRoutes
        PROVE  /\ s \in Range(r.stops) <=>
                    (\E i \in 1 .. Len(r.stops) - 1 : r.stops[i] = s) \/ Last(r.stops) = s
               /\ ~((\E i \in 1 .. Len(r.stops) - 1 : r.stops[i] = s) /\ Last(r.stops) = s)
    <3> DEFINE n == Len(r.stops)
    <3>1. /\ n \in Nat /\ n >= 2 /\ DOMAIN r.stops = 1 .. n
          /\ \A k, m \in 1 .. n : r.stops[k] = r.stops[m] => k = m
          /\ Last(r.stops) = r.stops[n]
      BY RouteOfMap, RouteFacts
    <3>2. n \in 1 .. n /\ \A i \in 1 .. n : i = n \/ i \in 1 .. n - 1
      BY <3>1
    <3>3. \A i \in 1 .. n - 1 : i \in 1 .. n /\ i # n
      BY <3>1
    <3> HIDE DEF n
    <3>4. s \in Range(r.stops) <=> (\E i \in 1 .. n - 1 : r.stops[i] = s) \/ Last(r.stops) = s
      BY <3>1, <3>2, <3>3 DEF Range
    <3>5. ~((\E i \in 1 .. n - 1 : r.stops[i] = s) /\ Last(r.stops) = s)
      BY <3>1, <3>2, <3>3
    <3> QED  BY <3>4, <3>5 DEF n
  <2>2. serving = leaving \cup ending /\ leaving \cap ending = {}
    BY <2>1 DEF Leaving
  <2>3. IsFiniteSet(serving)
    BY FS_Subset
  <2> HIDE DEF serving, leaving, ending
  <2> QED  BY <2>2, <2>3, CountedInParts
<1>4. Listings(s, id) = Cardinality(es) + Cardinality(ending)
  BY DEF Listings
<1> HIDE DEF es, known, stray, serving, ending, leaving
<1>5. Listings(s, id) = Cardinality(serving) + Cardinality(stray)
  BY <1>1, <1>2, <1>3, <1>4
<1> QED  BY <1>5 DEF serving, stray

-----------------------------------------------------------------------------
(* Reading a file.                                                         *)
NoTimeYet == \A i \in 1 .. position - 1 : file[i] \notin TimeItems

AllTimesZero == \A s \in stations_ : \A e \in edges[s] : e.travelTime = 0

(* While no travel time is read all are 0.                                 *)
TimesOk == file # <<>> => Uniform /\ (NoTimeYet => AllTimesZero)

SetAgain(i) ==
    \E j \in i + 1 .. position - 1 :
        file[j].item = "time" /\ {file[j].a, file[j].b} = {file[i].a, file[i].b}

LineIsThere(line) ==
    /\ line.id \in DOMAIN lines_
    /\ {r.id : r \in lines_[line.id]} = {r.id : r \in Range(line.routes)}

IsDone(i) ==
    /\ file[i] \in StationItems => file[i].station \in stations_
    /\ file[i] \in LineItems => LineIsThere(file[i].line)
    /\ \A a, b : file[i] \in TimeItems /\ file[i].a = a /\ file[i].b = b /\ ok =>
            GetTravelTime(a, b) = file[i].time \/ SetAgain(i)

FileOk ==
    /\ file \in Files
    /\ position \in 1 .. Len(file) + 1
    /\ ok \in BOOLEAN
    /\ loaded \in {"no", "true", "false", "threw"}
    /\ loaded # "no" => file # <<>>
    /\ loaded \in {"true", "false"} => position = Len(file) + 1
    /\ loaded = "true" => ok

ItemsDone == loaded # "threw" => \A i \in 1 .. position - 1 : IsDone(i)

Inv == NetworkInv /\ FileOk /\ TimesOk /\ ItemsDone

LEMMA FileFacts ==
    ASSUME file \in Files
    PROVE  /\ Len(file) \in Nat /\ DOMAIN file = 1 .. Len(file)
           /\ \A i \in 1 .. Len(file) :
                file[i] \in StationItems \/ file[i] \in LineItems \/ file[i] \in TimeItems
           /\ \A i, k \in 1 .. Len(file) : i < k /\ file[i] \in TimeItems => file[k] \in TimeItems
<1>1. file \in Seq(StationItems \cup LineItems \cup TimeItems)
  BY FilesAssumption
<1>2. Len(file) \in Nat /\ DOMAIN file = 1 .. Len(file)
  BY <1>1
<1>3. \A i \in 1 .. Len(file) : file[i] \in StationItems \cup LineItems \cup TimeItems
  BY <1>1
<1>4. \A i, k \in 1 .. Len(file) : i < k /\ file[i] \in TimeItems => file[k] \in TimeItems
  BY <1>2, FilesAssumption
<1> QED  BY <1>2, <1>3, <1>4

LEMMA ItemKinds ==
    ASSUME NEW x
    PROVE  /\ x \in StationItems =>
                /\ x.item = "station" /\ x.station \in Stations /\ x = Station(x.station)
                /\ x \notin LineItems /\ x \notin TimeItems
           /\ x \in LineItems =>
                /\ x.item = "line" /\ x.line \in Lines /\ x = LineItem(x.line)
                /\ x \notin StationItems /\ x \notin TimeItems
           /\ x \in TimeItems =>
                /\ x.item = "time" /\ x.time \in 0 .. MaxTime /\ x = TravelTime(x.a, x.b, x.time)
                /\ x \notin StationItems /\ x \notin LineItems
<1>1. x \in StationItems => x.item = "station" /\ x.station \in Stations /\ x = Station(x.station)
  BY DEF StationItems, Station
<1>2. x \in LineItems => x.item = "line" /\ x.line \in Lines /\ x = LineItem(x.line)
  BY DEF LineItems, LineItem
<1>3. x \in TimeItems =>
        x.item = "time" /\ x.time \in 0 .. MaxTime /\ x = TravelTime(x.a, x.b, x.time)
  BY DEF TimeItems, TravelTime
<1> QED  BY <1>1, <1>2, <1>3

(* What reading an item comes to.                                          *)
LEMMA ReadKinds ==
    ASSUME FileOk, ReadItem
    PROVE  /\ position \in 1 .. Len(file) /\ loaded = "no" /\ file # <<>>
           /\ position' = position + 1 /\ file' = file
           /\ \/ /\ file[position] \in StationItems
                 /\ \/ AddStation(file[position].station) /\ loaded' = "no" /\ ok' = ok
                    \/ UNCHANGED network /\ loaded' = "threw" /\ ok' \in BOOLEAN
              \/ /\ file[position] \in LineItems
                 /\ \/ /\ AddLine(file[position].line) /\ CanAddLine(file[position].line)
                       /\ loaded' = "no" /\ ok' = ok
                    \/ /\ AddLine(file[position].line) \/ UNCHANGED network
                       /\ loaded' = "threw" /\ ok' \in BOOLEAN
              \/ /\ file[position] \in TimeItems
                 /\ \/ /\ SetTravelTime(file[position].a, file[position].b, file[position].time)
                       /\ loaded' = "no" /\ ok' = ok
                    \/ UNCHANGED network /\ loaded' = "no" /\ ok' = FALSE
<1> DEFINE x == file[position]
<1>1. /\ position \in 1 .. Len(file) /\ loaded = "no" /\ file # <<>>
      /\ position' = position + 1 /\ file' = file
  BY FileFacts DEF FileOk, ReadItem, Loading
<1>2. /\ ok' = (ok /\ ItemFits(x)) /\ ok \in BOOLEAN
      /\ ItemFits(x) => ApplyItem(x) /\ loaded' = loaded
      /\ ~ItemFits(x) =>
            /\ loaded' = IF x.item = "time" THEN "no" ELSE "threw"
            /\ \/ x.item = "line" /\ AddLine(x.line)
               \/ UNCHANGED network
  BY DEF ReadItem, OkAfter, FileOk
<1>3. x \in StationItems \/ x \in LineItems \/ x \in TimeItems
  BY <1>1, FileFacts DEF FileOk
<1> HIDE DEF x
<1>4. CASE x \in StationItems
  <2>1. /\ x.item = "station" /\ ItemFits(x) = CanAddStation(x.station)
        /\ ApplyItem(x) = AddStation(x.station)
    BY <1>4, ItemKinds DEF ItemFits, ApplyItem
  <2>2. ItemFits(x) \in BOOLEAN
    BY <2>1 DEF CanAddStation
  <2> QED  BY <1>1, <1>2, <1>4, <2>1, <2>2 DEF x
<1>5. CASE x \in LineItems
  <2>1. /\ x.item = "line" /\ ItemFits(x) = CanAddLine(x.line)
        /\ ApplyItem(x) = AddLine(x.line)
    BY <1>5, ItemKinds DEF ItemFits, ApplyItem
  <2>2. ItemFits(x) \in BOOLEAN
    BY <2>1 DEF CanAddLine
  <2> QED  BY <1>1, <1>2, <1>5, <2>1, <2>2 DEF x
<1>6. CASE x \in TimeItems
  <2>1. /\ x.item = "time" /\ ItemFits(x) = Adjacent(x.a, x.b)
        /\ ApplyItem(x) = SetTravelTime(x.a, x.b, x.time)
    BY <1>6, ItemKinds DEF ItemFits, ApplyItem
  <2>2. ItemFits(x) \in BOOLEAN
    BY <2>1 DEF Adjacent
  <2> QED  BY <1>1, <1>2, <1>6, <2>1, <2>2 DEF x
<1> QED  BY <1>3, <1>4, <1>5, <1>6

LEMMA InitInv == Init => Inv
<1> SUFFICES ASSUME Init PROVE Inv
  OBVIOUS
<1>1. /\ stations_ = {} /\ DOMAIN lines_ = {} /\ DOMAIN edges = {} /\ routesMade = 0
      /\ passengerCount = [s \in {} |-> 0]
      /\ file \in Files /\ position = 1 /\ ok = TRUE /\ loaded = "no"
  BY DEF Init
<1>2. EdgesOk
  BY <1>1 DEF EdgesOk
<1>3. MapOk
  BY <1>1 DEF MapOk
<1>4. CountsOk
  BY <1>1 DEF CountsOk
<1>5. FileOk
  <2>1. Len(file) \in Nat
    BY <1>1, FileFacts
  <2> QED  BY <1>1, <2>1 DEF FileOk
<1>6. TimesOk
  BY <1>1 DEF TimesOk, Uniform, AllTimesZero
<1>7. ItemsDone
  BY <1>1 DEF ItemsDone
<1> QED  BY <1>2, <1>3, <1>4, <1>5, <1>6, <1>7 DEF Inv, NetworkInv

LEMMA NetworkKept == Inv /\ [Next]_vars => NetworkInv'
<1> SUFFICES ASSUME Inv, [Next]_vars PROVE NetworkInv'
  OBVIOUS
<1>1. NetworkInv /\ FileOk
  BY DEF Inv
<1>2. CASE ReadItem
  <2>1. /\ file[position] \in StationItems => file[position].station \in Stations
        /\ file[position] \in LineItems => file[position].line \in Lines
        /\ file[position] \in TimeItems => file[position].time \in 0 .. MaxTime
    BY ItemKinds
  <2> QED  BY <1>1, <1>2, <2>1, ReadKinds, AddStationKeeps, AddLineKeeps, SetTravelTimeKeeps,
              SameNetworkKeeps
<1>3. CASE FromJsonReturns
  BY <1>1, <1>3, SameNetworkKeeps DEF FromJsonReturns
<1>4. CASE CallMethod
  <2>1. \A t \in 1 .. MaxTime : t \in 0 .. MaxTime
    BY FilesAssumption
  <2> QED  BY <1>1, <1>4, <2>1, AddStationKeeps, AddLineKeeps, SetTravelTimeKeeps DEF CallMethod
<1>5. CASE Record
  BY <1>1, <1>5, RecordKeeps DEF Record
<1>6. CASE UNCHANGED vars
  BY <1>1, <1>6, SameNetworkKeeps DEF vars
<1> QED  BY <1>2, <1>3, <1>4, <1>5, <1>6 DEF Next

LEMMA FileKept == Inv /\ [Next]_vars => FileOk'
<1> SUFFICES ASSUME Inv, [Next]_vars PROVE FileOk'
  OBVIOUS
<1>1. FileOk
  BY DEF Inv
<1>2. Len(file) \in Nat
  BY <1>1, FileFacts DEF FileOk
<1>3. CASE ReadItem
  <2>1. /\ position \in 1 .. Len(file) /\ file # <<>> /\ position' = position + 1 /\ file' = file
        /\ loaded' \in {"no", "threw"} /\ ok' \in BOOLEAN
    BY <1>1, <1>3, ReadKinds DEF FileOk
  <2>2. position' \in 1 .. Len(file') + 1
    BY <1>2, <2>1
  <2> QED  BY <1>1, <2>1, <2>2 DEF FileOk
<1>4. CASE FromJsonReturns
  <2>1. /\ UNCHANGED <<file, position, ok>> /\ file # <<>> /\ position > Len(file)
        /\ loaded' = IF ok THEN "true" ELSE "false"
    BY <1>4 DEF FromJsonReturns, Loading
  <2>2. position = Len(file) + 1
    BY <1>1, <1>2, <2>1 DEF FileOk
  <2> QED  BY <1>1, <2>1, <2>2 DEF FileOk
<1>5. CASE UNCHANGED loading
  BY <1>1, <1>5 DEF FileOk, loading
<1> QED  BY <1>3, <1>4, <1>5 DEF Next, CallMethod, Record, vars

-----------------------------------------------------------------------------
(* The times of the edges.                                                 *)
LEMMA SetTravelTimeUniform ==
    ASSUME NetworkInv, Uniform, NEW a, NEW b, NEW t, SetTravelTime(a, b, t)
    PROVE  Uniform'
<1>1. stations_' = stations_
  BY DEF SetTravelTime
<1>2. \A s \in stations_ : edges'[s] = {Timed(f, s, a, b, t) : f \in edges[s]}
  BY SetTimeFacts
<1> SUFFICES ASSUME NEW s \in stations_, NEW u \in stations_, NEW e \in edges'[s], NEW g \in edges'[u],
                    {s, e.nextStop} = {u, g.nextStop}
             PROVE  e.travelTime = g.travelTime
  BY <1>1 DEF Uniform
<1>3. PICK f \in edges[s] : e = Timed(f, s, a, b, t)
  BY <1>2
<1>4. PICK h \in edges[u] : g = Timed(h, u, a, b, t)
  BY <1>2
<1>5. {s, f.nextStop} = {u, h.nextStop}
  BY <1>3, <1>4, TimedFacts
<1>6. f.travelTime = h.travelTime
  BY <1>5 DEF Uniform
<1>7. Joins(f, s, a, b) <=> Joins(h, u, a, b)
  BY <1>5 DEF Joins
<1> QED  BY <1>3, <1>4, <1>6, <1>7, TimedFacts

LEMMA StillZero ==
    ASSUME NetworkInv, AllTimesZero,
           \/ UNCHANGED network
           \/ \E s \in Stations : AddStation(s)
           \/ \E l \in Lines : AddLine(l)
    PROVE  AllTimesZero'
<1>1. CASE UNCHANGED network
  BY <1>1 DEF AllTimesZero, network
<1>2. ASSUME NEW s \in Stations, AddStation(s) PROVE AllTimesZero'
  <2>1. /\ stations_' = stations_ \cup {s}
        /\ edges' = [t \in stations_' |-> IF t = s THEN {} ELSE edges[t]]
    BY <1>2 DEF AddStation
  <2> QED  BY <2>1 DEF AllTimesZero
<1>3. ASSUME NEW l \in Lines, AddLine(l) PROVE AllTimesZero'
  <2>1. /\ stations_' = stations_
        /\ edges' = [s \in stations_ |->
                        edges[s] \cup UNION {NewEdges(RouteInternal(l, i), s) : i \in RoutesAdded(l)}]
    BY <1>3 DEF AddLine
  <2>2. ASSUME NEW s \in stations_, NEW i \in RoutesAdded(l), NEW e \in NewEdges(RouteInternal(l, i), s)
        PROVE  e.travelTime = 0
    BY <2>2 DEF NewEdges
  <2>3. ASSUME NEW s \in stations_, NEW e \in edges'[s] PROVE e.travelTime = 0
    BY <2>1, <2>2, <2>3 DEF AllTimesZero
  <2> QED  BY <2>1, <2>3 DEF AllTimesZero
<1> QED  BY <1>1, <1>2, <1>3

LEMMA ZeroIsUniform == AllTimesZero => Uniform
BY DEF AllTimesZero, Uniform

(* The first of some edges is one of them.                                 *)
LEMMA FirstIsOne ==
    ASSUME NEW es, es # {}, \A e \in es : e.route.made \in Nat
    PROVE  First(es) \in es
<1> DEFINE numbers == {e.route.made : e \in es}
           R == OpToRel(<, Nat)
<1>1. numbers \subseteq Nat /\ numbers # {}
  OBVIOUS
<1>2. \A x, y \in Nat : x < y => <<x, y>> \in R
  BY DEF OpToRel
<1>3. IsWellFoundedOn(R, Nat)
  BY NatLessThanWellFounded
<1> HIDE DEF R, numbers
<1>4. PICK n \in numbers : \A m \in numbers : ~(<<m, n>> \in R)
  BY <1>1, <1>3, WFMin
<1>5. \A m \in numbers : n <= m
  <2>1. ASSUME NEW m \in numbers PROVE n <= m
    <3>1. m \in Nat /\ n \in Nat /\ ~(m < n)
      BY <1>1, <1>2, <1>4
    <3> QED  BY <3>1
  <2> QED  BY <2>1
<1>6. PICK e \in es : n = e.route.made
  BY <1>4 DEF numbers
<1>7. \A f \in es : e.route.made <= f.route.made
  BY <1>5, <1>6 DEF numbers
<1> QED  BY <1>7 DEF First

(* In a network where the times agree GetTravelTime gives the time of any  *)
(* edge between the stations.                                              *)
TimesAreTheEdges ==
    \A s \in stations_ : \A e \in edges[s] :
        /\ GetTravelTime(s, e.nextStop) = e.travelTime
        /\ GetTravelTime(e.nextStop, s) = e.travelTime

LEMMA TimeOfEdge == NetworkInv /\ Uniform => TimesAreTheEdges
<1> SUFFICES ASSUME NetworkInv, Uniform PROVE TimesAreTheEdges
  OBVIOUS
<1>1. ASSUME NEW c \in stations_, NEW d, EdgesTo(c, d) # {}
      PROVE  First(EdgesTo(c, d)) \in edges[c] /\ First(EdgesTo(c, d)).nextStop = d
  <2>1. \A e \in EdgesTo(c, d) : e \in edges[c] /\ e.nextStop = d
    BY DEF EdgesTo
  <2>2. \A e \in EdgesTo(c, d) : e.route.made \in Nat
    BY <1>1, <2>1 DEF NetworkInv, EdgesOk, IsEdge
  <2>3. First(EdgesTo(c, d)) \in EdgesTo(c, d)
    BY <1>1, <2>2, FirstIsOne
  <2> QED  BY <2>1, <2>3
<1>2. ASSUME NEW s \in stations_, NEW e \in edges[s]
      PROVE  /\ GetTravelTime(s, e.nextStop) = e.travelTime
             /\ GetTravelTime(e.nextStop, s) = e.travelTime
  <2> DEFINE t == e.nextStop
  <2>1. t \in stations_
    BY DEF NetworkInv, EdgesOk, IsEdge
  <2>2. e \in EdgesTo(s, t)
    BY DEF EdgesTo
  <2>3. \A f \in edges[s] : f.nextStop = t => f.travelTime = e.travelTime
    BY DEF Uniform
  <2>4. \A f \in edges[t] : f.nextStop = s => f.travelTime = e.travelTime
    BY <2>1 DEF Uniform
  <2> HIDE DEF t
  <2>5. First(EdgesTo(s, t)).travelTime = e.travelTime
    BY <1>1, <2>2, <2>3
  <2>6. EdgesTo(t, s) # {} => First(EdgesTo(t, s)).travelTime = e.travelTime
    BY <1>1, <2>1, <2>4
  <2>7. GetTravelTime(s, t) = e.travelTime
    BY <2>1, <2>2, <2>5 DEF GetTravelTime
  <2>8. GetTravelTime(t, s) = e.travelTime
    BY <2>1, <2>2, <2>5, <2>6 DEF GetTravelTime
  <2> QED  BY <2>7, <2>8 DEF t
<1> QED  BY <1>2 DEF TimesAreTheEdges

(* SetTravelTime is seen by GetTravelTime, both ways, and by no other pair *)
(* of stations.                                                            *)
LEMMA TimeIsSet ==
    ASSUME NetworkInv, Uniform, NEW a, NEW b, NEW t \in 0 .. MaxTime, SetTravelTime(a, b, t)
    PROVE  GetTravelTime(a, b)' = t
<1>1. NetworkInv' /\ Uniform'
  BY SetTravelTimeKeeps, SetTravelTimeUniform
<1>2. PICK s \in {a, b} : \E f \in edges[s] : Joins(f, s, a, b)
  BY DEF SetTravelTime, Adjacent
<1>3. s \in stations_ /\ stations_' = stations_
  BY <1>2 DEF SetTravelTime, Adjacent
<1>4. PICK f \in edges[s] : {s, f.nextStop} = {a, b}
  BY <1>2 DEF Joins
<1> DEFINE e == Timed(f, s, a, b, t)
<1>5. e \in edges'[s] /\ e.nextStop = f.nextStop /\ e.travelTime = t
  <2>1. edges'[s] = {Timed(g, s, a, b, t) : g \in edges[s]}
    BY <1>3, SetTimeFacts
  <2>2. Joins(f, s, a, b)
    BY <1>4 DEF Joins
  <2> QED  BY <2>1, <2>2, TimedFacts
<1>6. TimesAreTheEdges'
  BY <1>1, TimeOfEdge, PTL
<1> HIDE DEF e
<1>7. GetTravelTime(s, e.nextStop)' = t /\ GetTravelTime(e.nextStop, s)' = t
  BY <1>3, <1>5, <1>6 DEF TimesAreTheEdges
<1>8. (s = a /\ e.nextStop = b) \/ (s = b /\ e.nextStop = a)
  BY <1>4, <1>5
<1> QED  BY <1>7, <1>8

LEMMA OtherTimesStay ==
    ASSUME NetworkInv, NEW a, NEW b, NEW t, SetTravelTime(a, b, t),
           NEW c, NEW d, {c, d} # {a, b}
    PROVE  GetTravelTime(c, d)' = GetTravelTime(c, d)
<1>1. stations_' = stations_
  BY DEF SetTravelTime
<1>2. ASSUME NEW x \in stations_, NEW y, {x, y} # {a, b}
      PROVE  EdgesTo(x, y)' = EdgesTo(x, y)
  <2>1. edges'[x] = {Timed(f, x, a, b, t) : f \in edges[x]}
    BY SetTimeFacts
  <2>2. ASSUME NEW f \in edges[x], f.nextStop = y PROVE Timed(f, x, a, b, t) = f
    <3>1. f = [route |-> f.route, nextStop |-> f.nextStop, travelTime |-> f.travelTime]
      BY DEF NetworkInv, EdgesOk, IsEdge
    <3>2. ~Joins(f, x, a, b)
      BY <1>2, <2>2 DEF Joins
    <3> QED  BY <3>1, <3>2 DEF Timed
  <2>3. \A f \in edges[x] : Timed(f, x, a, b, t).nextStop = f.nextStop
    BY DEF Timed
  <2> QED  BY <2>1, <2>2, <2>3 DEF EdgesTo
<1>3. CASE {c, d} \subseteq stations_
  <2>1. EdgesTo(c, d)' = EdgesTo(c, d) /\ EdgesTo(d, c)' = EdgesTo(d, c)
    BY <1>2, <1>3
  <2> QED  BY <1>1, <2>1 DEF GetTravelTime
<1>4. CASE ~({c, d} \subseteq stations_)
  BY <1>1, <1>4 DEF GetTravelTime
<1> QED  BY <1>3, <1>4

-----------------------------------------------------------------------------
(* The order of the items of a file: before a travel time is read there is *)
(* none, and after one there are only more.                                *)
LEMMA OnlyTimesAfter ==
    ASSUME FileOk, position \in 1 .. Len(file), NEW i \in 1 .. position - 1, file[i] \in TimeItems
    PROVE  file[position] \in TimeItems
<1>1. Len(file) \in Nat
  BY FileFacts DEF FileOk
<1>2. i \in 1 .. Len(file) /\ i < position
  BY <1>1
<1> QED  BY <1>2, FileFacts DEF FileOk

LEMMA UniformStays ==
    ASSUME Uniform, UNCHANGED <<stations_, edges>>
    PROVE  Uniform'
<1>1. stations_' = stations_ /\ edges' = edges
  OBVIOUS
<1> SUFFICES ASSUME NEW s \in stations_, NEW t \in stations_, NEW e \in edges[s], NEW f \in edges[t],
                    {s, e.nextStop} = {t, f.nextStop}
             PROVE  e.travelTime = f.travelTime
  BY <1>1 DEF Uniform
<1> QED  BY DEF Uniform

LEMMA TimesKept == Inv /\ [Next]_vars => TimesOk'
<1> SUFFICES ASSUME Inv, [Next]_vars, file' # <<>> PROVE Uniform' /\ (NoTimeYet' => AllTimesZero')
  BY DEF TimesOk
<1>1. NetworkInv /\ FileOk /\ TimesOk
  BY DEF Inv
<1>2. file' = file
  BY DEF Next, ReadItem, FromJsonReturns, CallMethod, Record, vars, loading
<1>3. Uniform /\ (NoTimeYet => AllTimesZero)
  BY <1>1, <1>2 DEF TimesOk
<1>4. CASE ReadItem
  <2>1. position \in 1 .. Len(file) /\ position' = position + 1
    BY <1>1, <1>4, ReadKinds
  <2>2. position \in Nat /\ position' - 1 = position
    BY <2>1
  <2>3. NoTimeYet' => NoTimeYet
    BY <1>2, <2>2 DEF NoTimeYet
  <2>4. CASE file[position] \notin TimeItems
    <3>1. NoTimeYet
      BY <1>1, <2>1, <2>4, OnlyTimesAfter DEF NoTimeYet
    <3>2. \/ UNCHANGED network
          \/ \E s \in Stations : AddStation(s)
          \/ \E l \in Lines : AddLine(l)
      BY <1>1, <1>4, <2>4, ReadKinds, ItemKinds
    <3>3. AllTimesZero'
      BY <1>1, <1>3, <3>1, <3>2, StillZero
    <3>4. Uniform'
      BY <3>3 DEF AllTimesZero, Uniform
    <3> QED  BY <3>3, <3>4
  <2>5. CASE file[position] \in TimeItems
    <3>1. ~NoTimeYet'
      <4>1. position \in 1 .. position' - 1
        BY <2>1, <2>2
      <4> QED  BY <1>2, <2>5, <4>1 DEF NoTimeYet
    <3>2. \/ SetTravelTime(file[position].a, file[position].b, file[position].time)
          \/ UNCHANGED network
      BY <1>1, <1>4, <2>5, ReadKinds, ItemKinds
    <3>3. CASE UNCHANGED network
      BY <1>3, <3>1, <3>3, UniformStays DEF network
    <3>4. CASE SetTravelTime(file[position].a, file[position].b, file[position].time)
      BY <1>1, <1>3, <3>1, <3>4, SetTravelTimeUniform
    <3> QED  BY <3>2, <3>3, <3>4
  <2> QED  BY <2>4, <2>5
<1>5. CASE UNCHANGED <<stations_, edges, position>>
  <2>1. Uniform'
    BY <1>3, <1>5, UniformStays
  <2>2. NoTimeYet' => AllTimesZero'
    BY <1>2, <1>3, <1>5 DEF NoTimeYet, AllTimesZero
  <2> QED  BY <2>1, <2>2
<1>6. CASE FromJsonReturns
  BY <1>5, <1>6 DEF FromJsonReturns, network
<1>7. CASE CallMethod
  BY <1>2, <1>7 DEF CallMethod
<1>8. CASE Record
  BY <1>5, <1>8 DEF Record, RecordPassengerEvent, loading
<1>9. CASE UNCHANGED vars
  BY <1>5, <1>9 DEF vars, network, loading
<1> QED  BY <1>4, <1>6, <1>7, <1>8, <1>9 DEF Next

(* Stations and lines that are there stay as they are.                     *)
LEMMA StationsAndLinesStay ==
    ASSUME \/ UNCHANGED network
           \/ \E s : AddStation(s)
           \/ \E l : AddLine(l)
           \/ \E a, b, t : SetTravelTime(a, b, t)
    PROVE  /\ stations_ \subseteq stations_'
           /\ \A l \in DOMAIN lines_ : l \in DOMAIN lines_' /\ lines_'[l] = lines_[l]
<1>1. CASE UNCHANGED network
  BY <1>1 DEF network
<1>2. ASSUME NEW s, AddStation(s)
      PROVE  /\ stations_ \subseteq stations_'
             /\ \A l \in DOMAIN lines_ : l \in DOMAIN lines_' /\ lines_'[l] = lines_[l]
  BY <1>2 DEF AddStation
<1>3. ASSUME NEW x, AddLine(x)
      PROVE  /\ stations_ \subseteq stations_'
             /\ \A l \in DOMAIN lines_ : l \in DOMAIN lines_' /\ lines_'[l] = lines_[l]
  <2>1. x.id \notin DOMAIN lines_ /\ stations_' = stations_
    BY <1>3 DEF AddLine
  <2>2. CASE CanAddLine(x)
    <3>1. lines_' = [l \in DOMAIN lines_ \cup {x.id} |->
                        IF l = x.id THEN {RouteInternal(x, i) : i \in DOMAIN x.routes}
                        ELSE lines_[l]]
      BY <1>3, <2>2 DEF AddLine
    <3> QED  BY <2>1, <3>1
  <2>3. CASE ~CanAddLine(x)
    BY <1>3, <2>1, <2>3 DEF AddLine
  <2> QED  BY <2>2, <2>3
<1>4. ASSUME NEW a, NEW b, NEW t, SetTravelTime(a, b, t)
      PROVE  /\ stations_ \subseteq stations_'
             /\ \A l \in DOMAIN lines_ : l \in DOMAIN lines_' /\ lines_'[l] = lines_[l]
  BY <1>4 DEF SetTravelTime
<1> QED  BY <1>1, <1>2, <1>3, <1>4

(* A line that was added is there with its routes.                         *)
LEMMA LineIsAdded ==
    ASSUME NEW line \in Lines, AddLine(line), CanAddLine(line)
    PROVE  LineIsThere(line)'
<1>1. lines_' = [l \in DOMAIN lines_ \cup {line.id} |->
                    IF l = line.id THEN {RouteInternal(line, i) : i \in DOMAIN line.routes}
                    ELSE lines_[l]]
  BY DEF AddLine
<1>2. /\ line.id \in DOMAIN lines_'
      /\ lines_'[line.id] = {RouteInternal(line, i) : i \in DOMAIN line.routes}
  BY <1>1
<1>3. \A i \in DOMAIN line.routes : RouteInternal(line, i).id = line.routes[i].id
  BY DEF RouteInternal
<1>4. {r.id : r \in lines_'[line.id]} = {line.routes[i].id : i \in DOMAIN line.routes}
  BY <1>2, <1>3
<1>5. {r.id : r \in Range(line.routes)} = {line.routes[i].id : i \in DOMAIN line.routes}
  BY DEF Range
<1> QED  BY <1>2, <1>4, <1>5 DEF LineIsThere

(* What was read before stays done.                                        *)
LEMMA DoneStays ==
    ASSUME Inv, ReadItem, loaded' # "threw", NEW i \in 1 .. position - 1
    PROVE  IsDone(i)'
<1>1. NetworkInv /\ FileOk /\ TimesOk /\ IsDone(i)
  BY ReadKinds DEF Inv, ItemsDone
<1>2. /\ position \in 1 .. Len(file) /\ position' = position + 1 /\ file' = file /\ file # <<>>
  BY <1>1, ReadKinds
<1>3. /\ stations_ \subseteq stations_'
      /\ \A l \in DOMAIN lines_ : l \in DOMAIN lines_' /\ lines_'[l] = lines_[l]
  BY <1>1, ReadKinds, StationsAndLinesStay
<1>4. (file[i] \in StationItems => file[i].station \in stations_)'
  BY <1>1, <1>2, <1>3 DEF IsDone
<1>5. (file[i] \in LineItems => LineIsThere(file[i].line))'
  BY <1>1, <1>2, <1>3 DEF IsDone, LineIsThere
<1>6. ASSUME NEW a, NEW b, file[i] \in TimeItems, file[i].a = a, file[i].b = b, ok'
      PROVE  GetTravelTime(a, b)' = file[i].time \/ SetAgain(i)'
  <2> DEFINE x == file[position]
  <2>1. x \in TimeItems
    BY <1>1, <1>2, <1>6, OnlyTimesAfter
  <2>2. SetTravelTime(x.a, x.b, x.time) /\ ok' = ok
    BY <1>1, <1>6, <2>1, ReadKinds, ItemKinds
  <2>3. GetTravelTime(a, b) = file[i].time \/ SetAgain(i)
    BY <1>1, <1>6, <2>2 DEF IsDone
  <2>4. position \in Nat /\ i \in Nat /\ i < position /\ position' - 1 = position
    BY <1>2
  <2>5. CASE SetAgain(i)
    <3>1. PICK j \in i + 1 .. position - 1 :
            file[j].item = "time" /\ {file[j].a, file[j].b} = {file[i].a, file[i].b}
      BY <2>5 DEF SetAgain
    <3>2. j \in i + 1 .. position' - 1
      BY <2>4
    <3> QED  BY <1>2, <3>1, <3>2 DEF SetAgain
  <2>6. CASE {x.a, x.b} = {a, b}
    <3>1. position \in i + 1 .. position' - 1
      BY <2>4
    <3>2. x.item = "time"
      BY <2>1, ItemKinds
    <3> QED  BY <1>2, <1>6, <2>6, <3>1, <3>2 DEF SetAgain
  <2>7. CASE ~SetAgain(i) /\ {x.a, x.b} # {a, b}
    <3>1. PICK c, d, t : c = x.a /\ d = x.b /\ t = x.time
      OBVIOUS
    <3>2. SetTravelTime(c, d, t)
      BY <2>2, <3>1
    <3>3. {a, b} # {c, d}
      BY <2>7, <3>1
    <3>4. GetTravelTime(a, b)' = GetTravelTime(a, b)
      BY <1>1, <3>2, <3>3, OtherTimesStay
    <3> QED  BY <2>3, <2>7, <3>4
  <2> QED  BY <2>5, <2>6, <2>7
<1> QED  BY <1>2, <1>4, <1>5, <1>6 DEF IsDone

(* And so is the item that is read.                                        *)
LEMMA ItemIsDone ==
    ASSUME Inv, ReadItem, loaded' # "threw", NEW i, i = position
    PROVE  IsDone(i)'
<1> DEFINE x == file[i]
<1>1. NetworkInv /\ FileOk /\ TimesOk
  BY DEF Inv
<1>2. position \in 1 .. Len(file) /\ position' = position + 1 /\ file' = file /\ file # <<>>
  BY <1>1, ReadKinds
<1>3. (x \in StationItems => x.station \in stations_')
  <2> SUFFICES ASSUME x \in StationItems PROVE x.station \in stations_'
    OBVIOUS
  <2>1. AddStation(x.station)
    BY <1>1, ReadKinds, ItemKinds
  <2> QED  BY <2>1 DEF AddStation
<1>4. ASSUME x \in LineItems, NEW l, l = x.line PROVE LineIsThere(l)'
  <2>1. AddLine(x.line) /\ CanAddLine(x.line) /\ x.line \in Lines
    BY <1>1, <1>4, ReadKinds, ItemKinds
  <2> QED  BY <1>4, <2>1, LineIsAdded
<1>5. ASSUME x \in TimeItems, ok', NEW a, NEW b, a = x.a, b = x.b PROVE GetTravelTime(a, b)' = x.time
  <2>1. SetTravelTime(a, b, x.time) /\ x.time \in 0 .. MaxTime
    BY <1>1, <1>5, ReadKinds, ItemKinds
  <2>2. Uniform
    BY <1>1, <1>2 DEF TimesOk
  <2> QED  BY <1>1, <2>1, <2>2, TimeIsSet
<1> QED  BY <1>2, <1>3, <1>4, <1>5 DEF IsDone

LEMMA ItemsKept == Inv /\ [Next]_vars => ItemsDone'
<1> SUFFICES ASSUME Inv, [Next]_vars, loaded' # "threw", NEW i \in 1 .. position' - 1
             PROVE  IsDone(i)'
  BY DEF ItemsDone
<1>1. FileOk /\ ItemsDone
  BY DEF Inv
<1>2. CASE ReadItem
  <2>1. position \in 1 .. Len(file) /\ position' = position + 1
    BY <1>1, <1>2, ReadKinds
  <2>2. i \in 1 .. position - 1 \/ i = position
    BY <2>1
  <2> QED  BY <1>2, <2>2, DoneStays, ItemIsDone
<1>3. CASE UNCHANGED <<stations_, lines_, edges, file, position, ok>> /\ (loaded = "threw" => loaded' = "threw")
  <2>1. IsDone(i)
    BY <1>1, <1>3 DEF ItemsDone
  <2>2. \A a, b : GetTravelTime(a, b)' = GetTravelTime(a, b)
    BY <1>3 DEF GetTravelTime, EdgesTo
  <2>3. SetAgain(i)' <=> SetAgain(i)
    BY <1>3 DEF SetAgain
  <2> QED  BY <1>3, <2>1, <2>2, <2>3 DEF IsDone, LineIsThere
<1>4. CASE FromJsonReturns
  BY <1>3, <1>4 DEF FromJsonReturns, Loading, network
<1>5. CASE CallMethod
  <2>1. Len(file) = 0 /\ position' = position
    BY <1>5 DEF CallMethod, loading
  <2> QED  BY <1>1, <2>1 DEF FileOk
<1>6. CASE Record
  BY <1>3, <1>6 DEF Record, RecordPassengerEvent, loading
<1>7. CASE UNCHANGED vars
  BY <1>3, <1>7 DEF vars, network, loading
<1> QED  BY <1>2, <1>4, <1>5, <1>6, <1>7 DEF Next

LEMMA NextInv == Inv /\ [Next]_vars => Inv'
BY NetworkKept, FileKept, TimesKept, ItemsKept DEF Inv

-----------------------------------------------------------------------------
LEMMA TypesHold == Inv => TypeOK
<1> SUFFICES ASSUME Inv PROVE TypeOK
  OBVIOUS
<1>1. NetworkInv /\ FileOk
  BY DEF Inv
<1>2. stations_ \subseteq Stations /\ DOMAIN edges = stations_ /\ routesMade \in Nat
  BY <1>1 DEF NetworkInv, EdgesOk
<1>3. \A l \in DOMAIN lines_ : \A r \in lines_[l] : r.line = l /\ r.made <= routesMade
  BY <1>1 DEF NetworkInv, MapOk, IsOnMap
<1>4. \A s \in stations_ : \A e \in edges[s] :
        /\ e.nextStop \in stations_ /\ e.travelTime \in 0 .. MaxTime
        /\ \A f \in edges[s] : e.route.made = f.route.made => e = f
  BY <1>1 DEF NetworkInv, EdgesOk, IsEdge
<1> QED  BY <1>1, <1>2, <1>3, <1>4 DEF TypeOK, NetworkInv, CountsOk, FileOk

LEMMA LoadsComplete == Inv => LoadIsComplete
<1> SUFFICES ASSUME Inv, loaded \in {"true", "false"}, NEW i \in DOMAIN file
             PROVE  CASE file[i].item = "station" -> file[i].station \in stations_
                      [] file[i].item = "line" -> LineIsThere(file[i].line)
                      [] file[i].item = "time" ->
                            loaded = "true" =>
                                \/ GetTravelTime(file[i].a, file[i].b) = file[i].time
                                \/ \E j \in i + 1 .. Len(file) :
                                    /\ file[j].item = "time"
                                    /\ {file[j].a, file[j].b} = {file[i].a, file[i].b}
  BY DEF LoadIsComplete, LineIsThere
<1>1. FileOk /\ ItemsDone
  BY DEF Inv
<1>2. position = Len(file) + 1 /\ (loaded = "true" => ok)
  BY <1>1 DEF FileOk
<1>3. Len(file) \in Nat /\ i \in 1 .. Len(file) /\ position - 1 = Len(file)
  BY <1>1, <1>2, FileFacts DEF FileOk
<1>4. IsDone(i)
  BY <1>1, <1>3 DEF ItemsDone
<1>5. file[i] \in StationItems \/ file[i] \in LineItems \/ file[i] \in TimeItems
  BY <1>1, <1>3, FileFacts DEF FileOk
<1>6. CASE file[i] \in StationItems
  BY <1>4, <1>6, ItemKinds DEF IsDone
<1>7. CASE file[i] \in LineItems
  BY <1>4, <1>7, ItemKinds DEF IsDone
<1>8. CASE file[i] \in TimeItems
  BY <1>2, <1>3, <1>4, <1>8, ItemKinds DEF IsDone, SetAgain
<1> QED  BY <1>5, <1>6, <1>7, <1>8

(* The time along a route is the sum of the times between its stops.       *)
LEMMA TimeAlongRoute ==
    ASSUME NetworkInv, Uniform, NEW r \in AllRoutes,
           NEW i \in DOMAIN r.stops, NEW j \in DOMAIN r.stops, i < j
    PROVE  GetRouteTravelTime(r, r.stops[i], r.stops[j]) =
                SumFunction([k \in i .. j - 1 |-> GetTravelTime(r.stops[k], r.stops[k + 1])])
<1> DEFINE stops == r.stops
           between == {k \in DOMAIN stops :
                        /\ \E m \in 1 .. k : stops[m] = stops[i]
                        /\ \A m \in 1 .. k : stops[m] # stops[j]}
           legs(k) == EdgesForRoute(stops[k], r)
           n == Len(stops)
<1>1. /\ n \in Nat /\ DOMAIN stops = 1 .. n /\ i \in 1 .. n /\ j \in 1 .. n
      /\ \A k, m \in 1 .. n : stops[k] = stops[m] => k = m
      /\ \A k \in 1 .. n : stops[k] \in Range(stops)
  BY RouteOfMap, RouteFacts
<1>2. between = i .. j - 1
  <2>1. ASSUME NEW k \in between PROVE k \in i .. j - 1
    <3>1. PICK m \in 1 .. k : stops[m] = stops[i]
      OBVIOUS
    <3>2. k \in 1 .. n /\ \A q \in 1 .. k : stops[q] # stops[j]
      BY <1>1
    <3>3. m \in 1 .. n /\ m = i
      BY <1>1, <3>1, <3>2
    <3>4. ~(j \in 1 .. k)
      BY <3>2
    <3> QED  BY <1>1, <3>2, <3>3, <3>4
  <2>2. ASSUME NEW k \in i .. j - 1 PROVE k \in between
    <3>1. k \in 1 .. n /\ i \in 1 .. k
      BY <1>1
    <3>2. \A m \in 1 .. k : m \in 1 .. n /\ m # j
      BY <1>1, <3>1
    <3>3. \A m \in 1 .. k : stops[m] # stops[j]
      BY <1>1, <3>2
    <3> QED  BY <1>1, <3>1, <3>3
  <2> QED  BY <2>1, <2>2
<1>3. ASSUME NEW k \in i .. j - 1
      PROVE  legs(k) # {} /\ First(legs(k)).travelTime = GetTravelTime(stops[k], stops[k + 1])
  <2>1. k \in 1 .. n - 1
    BY <1>1
  <2>2. stops[k] \in stations_
    BY <2>1, RouteHasEdge
  <2>3. PICK e \in edges[stops[k]] : legs(k) = {e} /\ e.nextStop = stops[k + 1]
    BY <2>1, RouteHasEdge
  <2>4. First({e}) = e
    <3>1. e.route.made \in Nat
      BY <2>2 DEF NetworkInv, EdgesOk, IsEdge
    <3> QED  BY <3>1, FirstIsOne
  <2>5. GetTravelTime(stops[k], stops[k + 1]) = e.travelTime
    BY <2>2, <2>3, TimeOfEdge DEF TimesAreTheEdges
  <2> QED  BY <2>3, <2>4, <2>5
<1>4. GetRouteTravelTime(r, stops[i], stops[j]) =
        IF stops[j] \in Range(stops) /\ \A k \in between : legs(k) # {}
        THEN SumFunction([k \in between |-> First(legs(k)).travelTime])
        ELSE 0
  BY DEF GetRouteTravelTime
<1>5. stops[j] \in Range(stops)
  BY <1>1
<1> HIDE DEF between, legs
<1>6. [k \in between |-> First(legs(k)).travelTime] =
        [k \in i .. j - 1 |-> GetTravelTime(stops[k], stops[k + 1])]
  BY <1>2, <1>3
<1> QED  BY <1>2, <1>3, <1>4, <1>5, <1>6

LEMMA TimesAgree == Inv => LoadedTimesAgree
<1> SUFFICES ASSUME Inv, loaded \in {"true", "false"}
             PROVE  /\ Uniform
                    /\ \A r \in AllRoutes : \A i, j \in DOMAIN r.stops :
                        i < j =>
                            GetRouteTravelTime(r, r.stops[i], r.stops[j]) =
                                SumFunction([k \in i .. j - 1 |->
                                                GetTravelTime(r.stops[k], r.stops[k + 1])])
  BY DEF LoadedTimesAgree
<1>1. NetworkInv /\ Uniform
  BY DEF Inv, FileOk, TimesOk
<1> QED  BY <1>1, TimeAlongRoute

-----------------------------------------------------------------------------
(* The network is consistent after any calls of its methods, a load that   *)
(* threw included, and a load in progress has done what it read so far.    *)
THEOREM NetworkInvariant == Spec => []Inv
BY InitInv, NextInv, PTL DEF Spec

(* The stations, the edges and the passenger counts belong together: every *)
(* edge leads to a station, and a route object has at most one edge at     *)
(* each (AddStation, AddRouteToLine, SetTravelTime, RecordPassengerEvent). *)
THEOREM NetworkTypeCorrect == Spec => []TypeOK
BY NetworkInvariant, TypesHold, PTL

(* The walks of GetRouteTravelTime and GetFastestTravelRoute along a route *)
(* of the map always find the next edge, and no edge at the last stop,     *)
(* whatever edges an AddLine that was refused has left behind.             *)
THEOREM RoutesStayWalkable == Spec => []RoutesAreWalkable
<1>1. Inv => RoutesAreWalkable
  BY Walkable DEF Inv
<1> QED  BY <1>1, NetworkInvariant, PTL

(* The map has finitely many routes: AddLine adds those of one line.       *)
LEMMA RoutesStayFinite == Inv /\ IsFiniteSet(AllRoutes) /\ [Next]_vars => IsFiniteSet(AllRoutes)'
<1> SUFFICES ASSUME Inv, IsFiniteSet(AllRoutes), [Next]_vars PROVE IsFiniteSet(AllRoutes')
  OBVIOUS
<1>1. ASSUME NEW line \in Lines, AddLine(line) PROVE IsFiniteSet(AllRoutes')
  <2> DEFINE new == {RouteInternal(line, i) : i \in DOMAIN line.routes}
             indices == DOMAIN line.routes
             route == [i \in indices |-> RouteInternal(line, i)]
  <2>1. /\ line.id \notin DOMAIN lines_
        /\ \/ lines_' = lines_
           \/ lines_' = [l \in DOMAIN lines_ \cup {line.id} |->
                            IF l = line.id THEN new ELSE lines_[l]]
    BY <1>1 DEF AddLine
  <2>2. IsFiniteSet(indices)
    <3>1. Len(line.routes) \in Nat /\ DOMAIN line.routes = 1 .. Len(line.routes)
      BY LinesAssumption
    <3>2. \A n \in Nat : IsFiniteSet(1 .. n)
      BY FS_Interval
    <3> QED  BY <3>1, <3>2
  <2>3. route \in Surjection(indices, new)
    <3>1. \A i \in indices : route[i] = RouteInternal(line, i) /\ route[i] \in new
      OBVIOUS
    <3>2. \A r \in new : \E i \in indices : route[i] = r
      BY <3>1
    <3>3. route \in [indices -> new]
      OBVIOUS
    <3> HIDE DEF route, indices, new
    <3> QED  BY <3>2, <3>3 DEF Surjection
  <2> HIDE DEF route, indices, new
  <2>4. IsFiniteSet(new)
    BY <2>2, <2>3, FS_Surjection
  <2>5. AllRoutes' = AllRoutes \/ AllRoutes' = AllRoutes \cup new
    <3>1. CASE lines_' = lines_
      BY <3>1 DEF AllRoutes
    <3>2. CASE lines_' = [l \in DOMAIN lines_ \cup {line.id} |->
                            IF l = line.id THEN new ELSE lines_[l]]
      <4>1. ASSUME NEW r
            PROVE  r \in AllRoutes' <=> r \in AllRoutes \/ r \in new
        BY <2>1, <3>2 DEF AllRoutes
      <4> QED  BY <4>1
    <3> QED  BY <2>1, <3>1, <3>2
  <2> QED  BY <2>4, <2>5, FS_Union
<1>2. ASSUME UNCHANGED lines_ PROVE IsFiniteSet(AllRoutes')
  BY <1>2 DEF AllRoutes
<1>3. CASE ReadItem
  <2>1. FileOk /\ (file[position] \in LineItems => file[position].line \in Lines)
    BY ItemKinds DEF Inv
  <2> QED  BY <1>1, <1>2, <1>3, <2>1, ReadKinds DEF AddStation, SetTravelTime, network
<1>4. CASE CallMethod
  BY <1>1, <1>2, <1>4 DEF CallMethod, AddStation, SetTravelTime
<1>5. CASE FromJsonReturns \/ Record \/ UNCHANGED vars
  BY <1>2, <1>5 DEF FromJsonReturns, Record, RecordPassengerEvent, network, vars
<1> QED  BY <1>3, <1>4, <1>5 DEF Next

(* GetRoutesServingStation returns an id as often as routes of the map     *)
(* with this id stop at the station, and once more for each edge there     *)
(* that a refused AddLine has left.                                        *)
THEOREM RoutesStayListedOnce == Spec => []RoutesListedOnce
<1>1. Init => IsFiniteSet(AllRoutes)
  <2>1. Init => AllRoutes = {}
    BY DEF Init, AllRoutes
  <2> QED  BY <2>1, FS_EmptySet
<1>2. Inv /\ IsFiniteSet(AllRoutes) => RoutesListedOnce
  BY ListedOnce DEF Inv
<1> QED  BY <1>1, <1>2, RoutesStayFinite, NetworkInvariant, PTL DEF Spec

(* In a network that FromJson loaded GetTravelTime gives one time for two  *)
(* stations, both ways and for all routes, and GetRouteTravelTime the sum  *)
(* of these times.                                                         *)
THEOREM LoadedTimesAlwaysAgree == Spec => []LoadedTimesAgree
BY NetworkInvariant, TimesAgree, PTL

(* Unless FromJson threw, the network has all stations and lines of the    *)
(* file, and when it returned true GetTravelTime gives the last time that  *)
(* the file has for each pair of stations.                                 *)
THEOREM LoadsAreComplete == Spec => []LoadIsComplete
BY NetworkInvariant, LoadsComplete, PTL

=============================================================================
