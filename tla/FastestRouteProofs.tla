------------------------- MODULE FastestRouteProofs -------------------------
(***************************************************************************)
(* Proofs about FastestRoute: the distances and the previous stops of the  *)
(* search, in every network and from every start.                          *)
(***************************************************************************)
EXTENDS FastestRoute, JourneyProofs

(* A PathStop whose least distance is still in the queue.                  *)
Queued(s) == At(s, distFromA[s]) \in nodesToVisit

(* No edge out of a PathStop leads anywhere faster than is known.          *)
Settled(s) ==
    s.node # stationB =>
        \A e \in Ways(network, s, excludedStops) :
            /\ Stop(e.to, e) \in DOMAIN distFromA
            /\ distFromA[Stop(e.to, e)] <= distFromA[s] + Ride(s, e)

Distances ==
    /\ stopA = At(stopA.stop, stopA.dist)
    /\ stopA.dist \in Nat
    /\ stopA.stop \in DOMAIN distFromA
    /\ distFromA[stopA.stop] = stopA.dist
    /\ \A s \in DOMAIN distFromA : distFromA[s] >= stopA.dist

Queue ==
    \A n \in nodesToVisit : n = At(n.stop, n.dist) /\ distFromA[n.stop] <= n.dist

(* A PathStop that is not in the queue with its least distance was visited *)
(* with it: nothing in the queue is nearer, and its edges were followed.   *)
Explored ==
    \A s \in DOMAIN distFromA : ~Queued(s) =>
        /\ \A n \in nodesToVisit : distFromA[s] <= n.dist
        /\ Settled(s)

Previous ==
    \A s \in DOMAIN previousStop, r \in DOMAIN distFromA :
        previousStop[s] = r =>
            ~Queued(r) /\ distFromA[s] = distFromA[r] + Ride(r, s.edge)

(* What a search is asked does not change.                                 *)
Inputs ==
    /\ NetworkOk(network)
    /\ SearchOk(network, stopA, stationB, excludedStops)

(* A PathStop is reached by its edge, which is neither excluded nor leaves *)
(* station B.                                                              *)
Reached ==
    \A s \in DOMAIN previousStop :
        /\ s.edge \in network /\ s = Stop(s.edge.to, s.edge) /\ s \notin excludedStops
        /\ \A r \in DOMAIN distFromA :
            previousStop[s] = r => s.edge.from = r.node /\ r.node # stationB

(* Walking back along previousStop comes to an end.                        *)
Ranked ==
    \E k \in Nat : \E rank \in [DOMAIN distFromA -> 0 .. k] :
        \A s \in DOMAIN previousStop, r \in DOMAIN distFromA :
            previousStop[s] = r => rank[r] < rank[s]

(* Of the PathStops of one station, a PathStop's previous one is the first *)
(* visited, unless a later one was strictly better.                        *)
FirstServed ==
    \A s \in DOMAIN previousStop, r \in DOMAIN distFromA, x \in DOMAIN distFromA :
        previousStop[s] = r /\ x.node = r.node /\ ~Queued(x) =>
            distFromA[s] < distFromA[x] + Ride(x, s.edge) \/ distFromA[r] <= distFromA[x]

Inv ==
    /\ TypeOK /\ Distances /\ Queue /\ Explored /\ Previous
    /\ Inputs /\ Reached /\ Ranked /\ FirstServed

-----------------------------------------------------------------------------
LEMMA WaysFacts ==
    ASSUME TypeOK, NEW s, NEW e \in Ways(network, s, excludedStops)
    PROVE  /\ e \in network /\ e.time \in Nat /\ Ride(s, e) \in Nat
           /\ Stop(e.to, e) \in PathStops /\ Stop(e.to, e).edge = e
<1>1. e \in network /\ e.time \in Nat
  BY DEF Ways, TypeOK, EdgeOk
<1> QED  BY <1>1, RideNat DEF PathStops, Stop

LEMMA InitInv == Init => Inv
<1> SUFFICES ASSUME Init PROVE Inv
  OBVIOUS
<1>0. Inputs
  <2>1. PICK s \in Searches : /\ network = s.network /\ stopA = s.stopA
                              /\ stationB = s.stationB /\ excludedStops = s.excludedStops
    BY DEF Init
  <2>2. SearchOk(network, stopA, stationB, excludedStops)
    BY <2>1, SearchesAssumption
  <2>3. network \in {s1.network : s1 \in Searches}
    BY <2>1
  <2> QED  BY <2>2, <2>3, SearchesAssumption DEF Inputs
<1>1. EdgeOk(network)
  BY <1>0 DEF Inputs, NetworkOk
<1>2. stopA = At(stopA.stop, stopA.dist) /\ stopA.dist \in Nat
  BY <1>0 DEF Inputs, SearchOk, Origin, At
<1>3. /\ DOMAIN distFromA = {stopA.stop} /\ distFromA[stopA.stop] = stopA.dist
      /\ DOMAIN previousStop = {} /\ nodesToVisit = {stopA}
  BY DEF Init
<1>4. excludedStops \subseteq PathStops
  BY <1>0 DEF Inputs, SearchOk, PathStops
<1>5. TypeOK
  BY <1>1, <1>2, <1>3, <1>4 DEF TypeOK, PathStops, Init
<1>6. Queued(stopA.stop)
  BY <1>2, <1>3 DEF Queued
<1>8. Ranked
  <2> DEFINE rank == [s \in {stopA.stop} |-> 0]
  <2>1. rank \in [DOMAIN distFromA -> 0 .. 0]
    BY <1>3
  <2> QED  BY <1>3, <2>1 DEF Ranked
<1> QED
  BY <1>0, <1>2, <1>3, <1>5, <1>6, <1>8
  DEF Inv, Distances, Queue, Explored, Previous, Reached, FirstServed

-----------------------------------------------------------------------------
(* A visit.                                                                *)

Found(cur) == {n.stop : n \in Improved(cur)}
NewDist(cur, s) == cur.dist + Ride(cur.stop, s.edge)

LEMMA FoundFacts ==
    ASSUME Inv, NEW cur \in nodesToVisit
    PROVE  /\ \A s \in Found(cur) :
               /\ cur.stop.node # stationB
               /\ s \in PathStops /\ s.edge \in Ways(network, cur.stop, excludedStops)
               /\ s = Stop(s.edge.to, s.edge)
               /\ Ride(cur.stop, s.edge) \in Nat
               /\ s \in DOMAIN distFromA => NewDist(cur, s) < distFromA[s]
           /\ \A e \in Ways(network, cur.stop, excludedStops) :
               cur.stop.node # stationB =>
                   \/ Stop(e.to, e) \in Found(cur)
                   \/ /\ Stop(e.to, e) \in DOMAIN distFromA
                      /\ distFromA[Stop(e.to, e)] <= cur.dist + Ride(cur.stop, e)
           /\ Improved(cur) = {At(s, NewDist(cur, s)) : s \in Found(cur)}
           /\ cur.dist \in Nat /\ cur.stop \in DOMAIN distFromA /\ distFromA[cur.stop] <= cur.dist
           /\ distFromA[cur.stop] \in Nat
<1>0. TypeOK
  BY DEF Inv
<1>1. /\ cur.dist \in Nat /\ cur.stop \in DOMAIN distFromA /\ distFromA[cur.stop] <= cur.dist
      /\ distFromA[cur.stop] \in Nat
  BY DEF Inv, TypeOK, Queue
<1>2. ASSUME NEW e \in Ways(network, cur.stop, excludedStops)
      PROVE  /\ Ride(cur.stop, e) \in Nat /\ Stop(e.to, e) \in PathStops /\ Stop(e.to, e).edge = e
             /\ Follow(cur, e) = At(Stop(e.to, e), cur.dist + Ride(cur.stop, e))
             /\ Follow(cur, e).stop = Stop(e.to, e)
             /\ Follow(cur, e).dist = NewDist(cur, Stop(e.to, e))
  BY <1>0, WaysFacts DEF Follow, At, NewDist
<1>3. \A n \in Improved(cur) :
          /\ cur.stop.node # stationB
          /\ \E e \in Ways(network, cur.stop, excludedStops) : n = Follow(cur, e)
          /\ n.stop \in DOMAIN distFromA => n.dist < distFromA[n.stop]
  BY DEF Improved
<1>4. ASSUME NEW s \in Found(cur)
      PROVE  /\ cur.stop.node # stationB
             /\ s \in PathStops /\ s.edge \in Ways(network, cur.stop, excludedStops)
             /\ s = Stop(s.edge.to, s.edge)
             /\ Ride(cur.stop, s.edge) \in Nat
             /\ s \in DOMAIN distFromA => NewDist(cur, s) < distFromA[s]
             /\ At(s, NewDist(cur, s)) \in Improved(cur)
  <2>1. PICK n \in Improved(cur) : n.stop = s
    BY DEF Found
  <2>2. PICK e \in Ways(network, cur.stop, excludedStops) : n = Follow(cur, e)
    BY <1>3
  <2>3. s = Stop(e.to, e) /\ s.edge = e
    BY <1>2, <2>1, <2>2
  <2> QED  BY <1>2, <1>3, <2>1, <2>2, <2>3 DEF NewDist
<1>5. ASSUME NEW e \in Ways(network, cur.stop, excludedStops), cur.stop.node # stationB,
             Stop(e.to, e) \notin Found(cur)
      PROVE  /\ Stop(e.to, e) \in DOMAIN distFromA
             /\ distFromA[Stop(e.to, e)] <= cur.dist + Ride(cur.stop, e)
  <2>1. Follow(cur, e) \notin Improved(cur)
    BY <1>2, <1>5 DEF Found
  <2>2. /\ Follow(cur, e).stop \in DOMAIN distFromA
        /\ ~(Follow(cur, e).dist < distFromA[Follow(cur, e).stop])
    BY <1>5, <2>1 DEF Improved
  <2> QED  BY <1>0, <1>1, <1>2, <2>2 DEF TypeOK, NewDist
<1>6. \A n \in Improved(cur) : n.stop \in Found(cur) /\ n = At(n.stop, NewDist(cur, n.stop))
  BY <1>2, <1>3 DEF Found, NewDist
<1>7. Improved(cur) = {At(s, NewDist(cur, s)) : s \in Found(cur)}
  BY <1>4, <1>6
<1> QED  BY <1>1, <1>4, <1>5, <1>7

(* An entry that is not up to date any more improves nothing, and what is  *)
(* improved has not been visited with its least distance.                  *)
LEMMA ImprovedFacts ==
    ASSUME Inv, NEW cur \in nodesToVisit, OnTop(cur), NEW s \in Found(cur)
    PROVE  /\ cur.dist = distFromA[cur.stop]
           /\ s \in DOMAIN distFromA => Queued(s)
           /\ s # stopA.stop /\ s # cur.stop
<1>1. /\ cur.stop.node # stationB
      /\ s.edge \in Ways(network, cur.stop, excludedStops)
      /\ s = Stop(s.edge.to, s.edge)
      /\ Ride(cur.stop, s.edge) \in Nat
      /\ s \in DOMAIN distFromA => NewDist(cur, s) < distFromA[s]
      /\ cur.dist \in Nat /\ cur.stop \in DOMAIN distFromA /\ distFromA[cur.stop] <= cur.dist
      /\ distFromA[cur.stop] \in Nat
  BY FoundFacts
<1>2. \A r \in DOMAIN distFromA : distFromA[r] \in Nat
  BY DEF Inv, TypeOK
<1>3. \A n \in nodesToVisit : n.dist \in Nat /\ cur.dist <= n.dist
  BY DEF Inv, TypeOK, OnTop
<1>4. cur.dist = distFromA[cur.stop]
  <2>1. SUFFICES ASSUME distFromA[cur.stop] < cur.dist PROVE FALSE
    BY <1>1
  <2>2. ~Queued(cur.stop)
    BY <1>1, <1>3, <2>1 DEF Queued, At
  <2>3. /\ s \in DOMAIN distFromA
        /\ distFromA[s] <= distFromA[cur.stop] + Ride(cur.stop, s.edge)
    BY <1>1, <2>2 DEF Inv, Explored, Settled
  <2> QED  BY <1>1, <1>2, <2>1, <2>3 DEF NewDist
<1>5. ASSUME s \in DOMAIN distFromA, ~Queued(s) PROVE FALSE
  <2>1. distFromA[s] <= cur.dist
    BY <1>5 DEF Inv, Explored
  <2> QED  BY <1>1, <1>2, <1>5, <2>1 DEF NewDist
<1>6. s # stopA.stop
  BY <1>1, <1>2, <1>4 DEF Inv, Distances, NewDist
<1>7. s # cur.stop
  BY <1>1, <1>2 DEF NewDist
<1> QED  BY <1>4, <1>5, <1>6, <1>7

LEMMA VisitInv ==
    ASSUME Inv, NEW cur \in nodesToVisit, Visit(cur)
    PROVE  Inv'
<1> DEFINE found == Found(cur)
<1>0. /\ OnTop(cur) /\ TypeOK /\ UNCHANGED <<network, stopA, stationB, excludedStops, finished>>
      /\ PathStops' = PathStops
  BY DEF Visit, Inv, inputs, PathStops
<1>1. /\ distFromA' = [s \in DOMAIN distFromA \cup found |->
                        IF s \in found THEN NewDist(cur, s) ELSE distFromA[s]]
      /\ previousStop' = [s \in DOMAIN previousStop \cup found |->
                        IF s \in found THEN cur.stop ELSE previousStop[s]]
      /\ nodesToVisit' = (nodesToVisit \ {cur}) \cup {At(s, NewDist(cur, s)) : s \in found}
  <2>1. Improved(cur) = {At(s, NewDist(cur, s)) : s \in found}
    BY FoundFacts
  <2> QED  BY <2>1 DEF Visit, DistancesAfter, QueueAfter, Found, NewDist
<1>2. /\ \A s \in found :
          /\ cur.stop.node # stationB
          /\ s \in PathStops
          /\ s = Stop(s.edge.to, s.edge)
          /\ Ride(cur.stop, s.edge) \in Nat /\ NewDist(cur, s) \in Nat /\ NewDist(cur, s) >= cur.dist
          /\ s \in DOMAIN distFromA => NewDist(cur, s) < distFromA[s]
          /\ cur.dist = distFromA[cur.stop]
          /\ s \in DOMAIN distFromA => Queued(s)
          /\ s # stopA.stop /\ s # cur.stop
      /\ cur.dist \in Nat /\ cur.stop \in DOMAIN distFromA /\ distFromA[cur.stop] <= cur.dist
      /\ distFromA[cur.stop] \in Nat
  BY <1>0, FoundFacts, ImprovedFacts DEF NewDist
<1>3. \A e \in Ways(network, cur.stop, excludedStops) :
          cur.stop.node # stationB =>
              \/ Stop(e.to, e) \in found
              \/ /\ Stop(e.to, e) \in DOMAIN distFromA
                 /\ distFromA[Stop(e.to, e)] <= cur.dist + Ride(cur.stop, e)
  BY FoundFacts
<1>4. /\ \A s \in DOMAIN distFromA : distFromA[s] \in Nat /\ s \in PathStops
      /\ \A n \in nodesToVisit :
            n.dist \in Nat /\ cur.dist <= n.dist /\ n.stop \in DOMAIN distFromA
            /\ n = At(n.stop, n.dist) /\ distFromA[n.stop] <= n.dist
      /\ DOMAIN previousStop = DOMAIN distFromA \ {stopA.stop}
  BY <1>0 DEF Inv, TypeOK, OnTop, Queue
<1> HIDE DEF found
<1>5. /\ DOMAIN distFromA' = DOMAIN distFromA \cup found
      /\ \A s \in found : distFromA'[s] = NewDist(cur, s)
      /\ \A s \in DOMAIN distFromA \ found : distFromA'[s] = distFromA[s]
      /\ \A s \in DOMAIN distFromA : distFromA'[s] <= distFromA[s]
      /\ \A s \in DOMAIN distFromA' : distFromA'[s] \in Nat
  BY <1>1, <1>2, <1>4
<1>6. /\ \A n \in nodesToVisit' :
            \/ n \in nodesToVisit
            \/ n.stop \in found /\ n.dist = NewDist(cur, n.stop) /\ n = At(n.stop, n.dist)
      /\ \A s \in found : At(s, NewDist(cur, s)) \in nodesToVisit'
      /\ \A n \in nodesToVisit : n # cur => n \in nodesToVisit'
  BY <1>1 DEF At
<1>7. TypeOK'
  <2>1. /\ DOMAIN distFromA' \subseteq PathStops'
        /\ DOMAIN previousStop' = DOMAIN distFromA' \ {stopA'.stop}
    BY <1>0, <1>1, <1>2, <1>4, <1>5
  <2>2. \A s \in DOMAIN previousStop' : previousStop'[s] \in DOMAIN distFromA'
    BY <1>0, <1>1, <1>2, <1>5 DEF TypeOK
  <2>3. \A n \in nodesToVisit' : n.stop \in DOMAIN distFromA' /\ n.dist \in Nat
    BY <1>2, <1>4, <1>5, <1>6
  <2>4. EdgeOk(network)' /\ (excludedStops \subseteq PathStops)' /\ finished' \in BOOLEAN
    BY <1>0 DEF TypeOK, EdgeOk
  <2> QED  BY <1>5, <2>1, <2>2, <2>3, <2>4 DEF TypeOK
<1>8. Distances'
  BY <1>0, <1>2, <1>4, <1>5 DEF Inv, Distances
<1>9. Queue'
  BY <1>2, <1>4, <1>5, <1>6 DEF Queue
(* What is not queued afterwards is the visited stop or was not before.    *)
<1>10. ASSUME NEW s \in DOMAIN distFromA', ~Queued(s)'
       PROVE  /\ s \in DOMAIN distFromA /\ s \notin found /\ distFromA'[s] = distFromA[s]
              /\ ~Queued(s) \/ (s = cur.stop /\ cur.dist = distFromA[s])
  <2>1. At(s, distFromA'[s]) \notin nodesToVisit'
    BY <1>10 DEF Queued
  <2>2. s \notin found
    BY <1>5, <1>6, <2>1
  <2>3. Queued(s) => At(s, distFromA[s]) = cur
    BY <1>5, <1>6, <2>1, <2>2 DEF Queued
  <2> QED  BY <1>5, <2>2, <2>3 DEF At
<1>11. ASSUME NEW s \in DOMAIN distFromA, s \notin found, ~Queued(s) \/ s = cur.stop
       PROVE  ~Queued(s)'
  <2>1. CASE ~Queued(s)
    BY <1>5, <1>6, <1>11, <2>1 DEF Queued, At
  <2>2. CASE s = cur.stop /\ Queued(s)
    <3>1. At(s, distFromA[s]) = cur
      BY <1>2, <1>4, <2>2 DEF Queued, At
    <3> QED  BY <1>1, <1>5, <1>11, <3>1 DEF Queued, At
  <2> QED  BY <1>11, <2>1, <2>2
<1>12. Explored'
  <2> SUFFICES ASSUME NEW s \in DOMAIN distFromA', ~Queued(s)'
               PROVE  (\A n \in nodesToVisit' : distFromA'[s] <= n.dist) /\ Settled(s)'
    BY DEF Explored
  <2>1. /\ s \in DOMAIN distFromA /\ s \notin found /\ distFromA'[s] = distFromA[s]
        /\ ~Queued(s) \/ (s = cur.stop /\ cur.dist = distFromA[s])
    BY <1>10
  <2>2. \A n \in nodesToVisit : distFromA[s] <= n.dist
    BY <1>4, <2>1 DEF Inv, Explored
  <2>3. \A n \in nodesToVisit' : distFromA'[s] <= n.dist
    BY <1>2, <1>4, <1>6, <2>1, <2>2
  <2>4. ASSUME NEW e \in Ways(network, s, excludedStops), s.node # stationB
        PROVE  /\ Stop(e.to, e) \in DOMAIN distFromA'
               /\ distFromA'[Stop(e.to, e)] <= distFromA'[s] + Ride(s, e)
    <3>0. Ride(s, e) \in Nat
      BY <1>0, WaysFacts
    <3>1. CASE Stop(e.to, e) \in found /\ s = cur.stop
      <4>1. Stop(e.to, e).edge = e
        BY DEF Stop
      <4> QED  BY <1>2, <1>5, <2>1, <3>1, <4>1 DEF NewDist
    <3>2. CASE Stop(e.to, e) \in DOMAIN distFromA /\
                 distFromA[Stop(e.to, e)] <= distFromA[s] + Ride(s, e)
      BY <1>4, <1>5, <2>1, <3>0, <3>2
    <3> QED  BY <1>2, <1>3, <2>1, <2>4, <3>1, <3>2 DEF Inv, Explored, Settled
  <2>5. Settled(s)'
    BY <1>0, <2>4 DEF Settled, Ways
  <2> QED  BY <2>3, <2>5
<1>13. Previous'
  <2> SUFFICES ASSUME NEW s \in DOMAIN previousStop', NEW r \in DOMAIN distFromA',
                      previousStop'[s] = r
               PROVE  ~Queued(r)' /\ distFromA'[s] = distFromA'[r] + Ride(r, s.edge)
    BY DEF Previous
  <2>1. CASE s \in found
    <3>1. r = cur.stop /\ cur.stop \notin found /\ cur.dist = distFromA[cur.stop]
      BY <1>1, <1>2, <2>1
    <3>2. ~Queued(r)'
      BY <1>2, <1>11, <3>1
    <3> QED  BY <1>2, <1>5, <2>1, <3>1, <3>2 DEF NewDist
  <2>2. CASE s \notin found
    <3>1. s \in DOMAIN previousStop /\ previousStop[s] = r
      BY <1>1, <2>2
    <3>2. r \in DOMAIN distFromA /\ s \in DOMAIN distFromA
      BY <1>0, <3>1 DEF TypeOK
    <3>3. ~Queued(r) /\ distFromA[s] = distFromA[r] + Ride(r, s.edge)
      BY <1>4, <3>1, <3>2 DEF Inv, Previous
    <3>4. r \notin found
      BY <1>2, <3>2, <3>3
    <3>5. ~Queued(r)'
      BY <1>11, <3>2, <3>3, <3>4
    <3> QED  BY <1>5, <2>2, <3>2, <3>3, <3>4, <3>5
  <2> QED  BY <2>1, <2>2
<1>14. Inputs'
  BY <1>0 DEF Inv, Inputs, inputs
<1>15. Reached'
  <2> SUFFICES ASSUME NEW s \in DOMAIN previousStop'
               PROVE  /\ s.edge \in network /\ s = Stop(s.edge.to, s.edge)
                      /\ s \notin excludedStops
                      /\ \A r \in DOMAIN distFromA' :
                            previousStop'[s] = r => s.edge.from = r.node /\ r.node # stationB
    BY <1>0 DEF Reached, inputs
  <2>1. CASE s \in found
    <3>1. s.edge \in Ways(network, cur.stop, excludedStops) /\ s = Stop(s.edge.to, s.edge)
      BY <2>1, FoundFacts DEF found
    <3> QED  BY <1>1, <1>2, <2>1, <3>1 DEF Ways
  <2>2. CASE s \notin found
    <3>1. s \in DOMAIN previousStop /\ previousStop'[s] = previousStop[s]
      BY <1>1, <2>2
    <3>2. previousStop[s] \in DOMAIN distFromA
      BY <1>0, <3>1 DEF TypeOK
    <3> QED  BY <3>1, <3>2 DEF Inv, Reached
  <2> QED  BY <2>1, <2>2
(* What others were reached from has been visited, and is not found again. *)
<1>16. \A s \in DOMAIN previousStop, r \in DOMAIN distFromA :
          previousStop[s] = r => ~Queued(r) /\ r \notin found
  BY <1>2 DEF Inv, Previous
<1>17. Ranked'
  <2>1. PICK k \in Nat : \E rank \in [DOMAIN distFromA -> 0 .. k] :
            \A s \in DOMAIN previousStop, r \in DOMAIN distFromA :
                previousStop[s] = r => rank[r] < rank[s]
    BY DEF Inv, Ranked
  <2>2. PICK rank \in [DOMAIN distFromA -> 0 .. k] :
            \A s \in DOMAIN previousStop, r \in DOMAIN distFromA :
                previousStop[s] = r => rank[r] < rank[s]
    BY <2>1
  <2> DEFINE rank2 == [s \in DOMAIN distFromA' |-> IF s \in found THEN k + 1 ELSE rank[s]]
  <2>3. /\ rank2 \in [DOMAIN distFromA' -> 0 .. k + 1]
        /\ \A s \in found : rank2[s] = k + 1
        /\ \A s \in DOMAIN distFromA : s \notin found => rank2[s] = rank[s]
    BY <1>5
  <2>4. \A s \in DOMAIN distFromA : rank[s] \in Nat /\ rank[s] < k + 1
    OBVIOUS
  <2> HIDE DEF rank2
  <2>5. ASSUME NEW s \in DOMAIN previousStop', NEW r \in DOMAIN distFromA', previousStop'[s] = r
        PROVE  rank2[r] < rank2[s]
    <3>1. CASE s \in found
      <4>1. r = cur.stop /\ cur.stop \notin found
        BY <1>1, <1>2, <2>5, <3>1
      <4> QED  BY <1>2, <2>3, <2>4, <3>1, <4>1
    <3>2. CASE s \notin found
      <4>1. s \in DOMAIN previousStop /\ previousStop[s] = r
        BY <1>1, <2>5, <3>2
      <4>2. r \in DOMAIN distFromA /\ s \in DOMAIN distFromA
        BY <1>0, <4>1 DEF TypeOK
      <4> QED  BY <1>16, <2>2, <2>3, <3>2, <4>1, <4>2
    <3> QED  BY <3>1, <3>2
  <2>6. k + 1 \in Nat
    OBVIOUS
  <2> QED  BY <2>3, <2>5, <2>6 DEF Ranked
<1>18. FirstServed'
  <2> SUFFICES ASSUME NEW s \in DOMAIN previousStop', NEW r \in DOMAIN distFromA',
                      NEW x \in DOMAIN distFromA',
                      previousStop'[s] = r, x.node = r.node, ~Queued(x)'
               PROVE  \/ distFromA'[s] < distFromA'[x] + Ride(x, s.edge)
                      \/ distFromA'[r] <= distFromA'[x]
    BY DEF FirstServed
  <2>1. /\ x \in DOMAIN distFromA /\ x \notin found /\ distFromA'[x] = distFromA[x]
        /\ ~Queued(x) \/ (x = cur.stop /\ cur.dist = distFromA[x])
    BY <1>10
  <2>2. CASE s \in found /\ x = cur.stop
    <3>1. r = x
      BY <1>1, <2>2
    <3> QED  BY <1>5, <3>1
  <2>3. CASE s \in found /\ ~Queued(x)
    <3>1. /\ r = cur.stop /\ r.node # stationB
          /\ s.edge \in Ways(network, r, excludedStops) /\ s = Stop(s.edge.to, s.edge)
      BY <1>1, <2>3, FoundFacts DEF found
    <3>2. s.edge \in Ways(network, x, excludedStops)
      BY <3>1 DEF Ways
    <3>3. s \in DOMAIN distFromA /\ distFromA[s] <= distFromA[x] + Ride(x, s.edge)
      BY <2>1, <2>3, <3>1, <3>2 DEF Inv, Explored, Settled
    <3>4. distFromA'[s] < distFromA[s] /\ Ride(x, s.edge) \in Nat
      BY <1>0, <1>2, <1>5, <2>3, <3>2, <3>3, WaysFacts
    <3>5. distFromA'[s] \in Nat /\ distFromA[s] \in Nat /\ distFromA[x] \in Nat
      BY <1>4, <1>5, <2>1, <3>3
    <3> QED  BY <2>1, <3>3, <3>4, <3>5
  <2>4. CASE s \notin found
    <3>1. s \in DOMAIN previousStop /\ previousStop[s] = r /\ distFromA'[s] = distFromA[s]
      BY <1>1, <1>4, <1>5, <2>4
    <3>2. r \in DOMAIN distFromA /\ ~Queued(r) /\ r \notin found /\ distFromA'[r] = distFromA[r]
      BY <1>0, <1>5, <1>16, <3>1 DEF TypeOK
    <3>3. CASE ~Queued(x)
      BY <2>1, <3>1, <3>2, <3>3 DEF Inv, FirstServed
    <3>4. CASE x = cur.stop /\ cur.dist = distFromA[x]
      <4>1. distFromA[r] <= cur.dist
        BY <3>2 DEF Inv, Explored
      <4> QED  BY <2>1, <3>2, <3>4, <4>1
    <3> QED  BY <2>1, <3>3, <3>4
  <2> QED  BY <2>1, <2>2, <2>3, <2>4
<1> QED  BY <1>7, <1>8, <1>9, <1>12, <1>13, <1>14, <1>15, <1>17, <1>18 DEF Inv

-----------------------------------------------------------------------------
LEMMA StepInv == Inv /\ [Next]_vars => Inv'
<1> SUFFICES ASSUME Inv, [Next]_vars PROVE Inv'
  OBVIOUS
<1>1. CASE \E cur \in nodesToVisit : Visit(cur)
  BY <1>1, VisitInv
<1>2. CASE SameStation \/ Assemble \/ UNCHANGED vars
  <2>1. UNCHANGED <<inputs, distFromA, previousStop, nodesToVisit>> /\ finished' \in BOOLEAN
    BY <1>2 DEF SameStation, Assemble, vars, Inv, TypeOK
  <2> QED
    BY <2>1
    DEF inputs, Inv, TypeOK, EdgeOk, PathStops, Distances, Queue, Explored, Settled, Ways, Queued,
        Previous, Inputs, Reached, Ranked, FirstServed
<1> QED  BY <1>1, <1>2 DEF Next

-----------------------------------------------------------------------------
(* The end of a search.                                                    *)
Walk(p) == IsWalk(network, stopA, stationB, excludedStops, p)

(* A walk as the search records it, to a PathStop.                         *)
IsChain(p, s) ==
    /\ Walk(p)
    /\ Last(p) = At(s, distFromA[s])
    /\ \A i \in 1 .. Len(p) :
        p[i].stop \in DOMAIN distFromA /\ p[i].dist = distFromA[p[i].stop]
    /\ \A i \in 1 .. Len(p) - 1 :
        p[i + 1].stop \in DOMAIN previousStop /\ previousStop[p[i + 1].stop] = p[i].stop

LEMMA InputFacts ==
    ASSUME Inv
    PROVE  /\ NetworkOk(network) /\ EdgeOk(network) /\ IsFiniteSet(network)
           /\ StartOk(stopA)
<1>1. NetworkOk(network)
  BY DEF Inv, Inputs
<1>2. EdgeOk(network) /\ IsFiniteSet(network)
  BY <1>1 DEF NetworkOk
<1>3. StartOk(stopA)
  BY DEF Inv, Distances, StartOk
<1> QED  BY <1>1, <1>2, <1>3

(* Every PathStop found has its chain.                                     *)
LEMMA ChainsExist ==
    ASSUME Inv, NEW s \in DOMAIN distFromA
    PROVE  \E p : IsChain(p, s)
<1>1. PICK k \in Nat : \E rank \in [DOMAIN distFromA -> 0 .. k] :
            \A t \in DOMAIN previousStop, r \in DOMAIN distFromA :
                previousStop[t] = r => rank[r] < rank[t]
  BY DEF Inv, Ranked
<1>2. PICK rank \in [DOMAIN distFromA -> 0 .. k] :
            \A t \in DOMAIN previousStop, r \in DOMAIN distFromA :
                previousStop[t] = r => rank[r] < rank[t]
  BY <1>1
<1> DEFINE Covered(n) == \A t \in DOMAIN distFromA : rank[t] <= n => \E p : IsChain(p, t)
           T == {n \in 0 .. k : Covered(n)}
<1>3. ASSUME NEW t \in DOMAIN distFromA, t = stopA.stop PROVE \E p : IsChain(p, t)
  <2>1. <<stopA>>[1] = At(stopA.stop, distFromA[stopA.stop]) /\ Last(<<stopA>>) = <<stopA>>[1]
    BY DEF Inv, Distances, Last
  <2>2. Walk(<<stopA>>)
    BY WalkOne DEF Walk
  <2>3. IsChain(<<stopA>>, t)
    BY <1>3, <2>1, <2>2 DEF IsChain, Inv, Distances, At
  <2> QED  BY <2>3
<1>4. ASSUME NEW t \in DOMAIN previousStop, NEW p, IsChain(p, previousStop[t])
      PROVE  \E q : IsChain(q, t)
  <2> DEFINE r == previousStop[t]
             q == Append(p, Follow(Last(p), t.edge))
  <2>1. /\ r \in DOMAIN distFromA /\ t \in DOMAIN distFromA
        /\ distFromA[t] = distFromA[r] + Ride(r, t.edge)
        /\ t.edge \in Ways(network, r, excludedStops) /\ t = Stop(t.edge.to, t.edge)
        /\ r.node # stationB
    BY DEF Inv, TypeOK, Previous, Reached, Ways
  <2>2. Walk(p) /\ Last(p) = At(r, distFromA[r])
    BY <1>4 DEF IsChain
  <2> HIDE DEF r
  <2>3. Last(p).stop = r /\ Last(p).dist = distFromA[r] /\ Follow(Last(p), t.edge) = At(t, distFromA[t])
    BY <2>1, <2>2 DEF Follow, At
  <2>4. Walk(q) /\ Len(q) = Len(p) + 1
    BY <2>1, <2>2, <2>3, InputFacts, WalkAppend DEF Walk
  <2>5. /\ p \in Seq(Items(network, stopA)) /\ Len(p) \in Nat /\ Len(p) >= 1 /\ Last(p) = p[Len(p)]
        /\ q \in Seq(Items(network, stopA))
    BY <2>2, <2>4 DEF Walk, IsWalk, Last
  <2>6. /\ \A i \in 1 .. Len(p) : q[i] = p[i]
        /\ q[Len(p) + 1] = At(t, distFromA[t])
    BY <2>3, <2>5
  <2> HIDE DEF q
  <2>7. Last(q) = At(t, distFromA[t])
    BY <2>4, <2>5, <2>6 DEF Last
  <2>8. ASSUME NEW i \in 1 .. Len(q)
        PROVE  q[i].stop \in DOMAIN distFromA /\ q[i].dist = distFromA[q[i].stop]
    <3>1. CASE i = Len(p) + 1
      BY <2>1, <2>6, <3>1 DEF At
    <3>2. CASE i \in 1 .. Len(p)
      BY <1>4, <2>6, <3>2 DEF IsChain
    <3> QED  BY <2>4, <2>5, <3>1, <3>2
  <2>9. ASSUME NEW i \in 1 .. Len(q) - 1
        PROVE  q[i + 1].stop \in DOMAIN previousStop /\ previousStop[q[i + 1].stop] = q[i].stop
    <3>1. CASE i = Len(p)
      <4>1. q[i + 1] = At(t, distFromA[t]) /\ q[i].stop = r
        BY <2>3, <2>5, <2>6, <3>1
      <4> QED  BY <4>1 DEF At, r
    <3>2. CASE i \in 1 .. Len(p) - 1
      <4>1. q[i] = p[i] /\ q[i + 1] = p[i + 1]
        BY <2>5, <2>6, <3>2
      <4> QED  BY <1>4, <3>2, <4>1 DEF IsChain
    <3> QED  BY <2>4, <2>5, <3>1, <3>2
  <2>10. IsChain(q, t)
    BY <2>4, <2>7, <2>8, <2>9 DEF IsChain
  <2> QED  BY <2>10
<1>5. DOMAIN previousStop = DOMAIN distFromA \ {stopA.stop}
  BY DEF Inv, TypeOK
<1>6. \A t \in DOMAIN distFromA : rank[t] \in 0 .. k
  OBVIOUS
<1>7. \A t \in DOMAIN previousStop :
        previousStop[t] \in DOMAIN distFromA /\ rank[previousStop[t]] < rank[t]
  BY <1>2 DEF Inv, TypeOK
<1>8. Covered(0)
  BY <1>3, <1>5, <1>6, <1>7
<1>9. ASSUME NEW n \in 0 .. k, Covered(n) PROVE Covered(n + 1)
  <2> SUFFICES ASSUME NEW t \in DOMAIN distFromA, rank[t] <= n + 1
               PROVE  \E p : IsChain(p, t)
    OBVIOUS
  <2>1. CASE t = stopA.stop
    BY <1>3, <2>1
  <2>2. CASE t # stopA.stop
    <3>1. t \in DOMAIN previousStop /\ previousStop[t] \in DOMAIN distFromA
      BY <1>5, <1>7, <2>2
    <3>2. rank[previousStop[t]] <= n
      BY <1>6, <1>7, <3>1
    <3>3. PICK p : IsChain(p, previousStop[t])
      BY <1>9, <3>1, <3>2
    <3> QED  BY <1>4, <3>1, <3>3
  <2> QED  BY <2>1, <2>2
<1>10. Covered(k)
  <2> HIDE DEF Covered
  <2>1. T \in SUBSET (0 .. k) /\ 0 \in T /\ k \in 0 .. k /\ k \in Int
    BY <1>8
  <2>2. \A n \in T : n < k => n + 1 \in T
    BY <1>9
  <2> HIDE DEF T
  <2>3. T = 0 .. k
    <3>1. 0 \in Int
      OBVIOUS
    <3> QED  BY <2>1, <2>2, <3>1, IntervalInduction
  <2> QED  BY <2>1, <2>3 DEF T
<1> QED  BY <1>6, <1>10

(* A chain to station B passes no station twice: when the search is over,  *)
(* coming back to a station costs more than the best change there.         *)
LEMMA ChainsDontRepeat ==
    ASSUME Inv, nodesToVisit = {}, NEW s, s.node = stationB, NEW p, IsChain(p, s)
    PROVE  NoRepeat(p)
<1>0. /\ Len(p) \in Nat /\ Len(p) >= 1 /\ p[Len(p)].stop.node = stationB
      /\ \A i \in 1 .. Len(p) - 1 : IsStep(network, stationB, excludedStops, p, i)
  BY InputFacts, WalkSteps DEF IsChain, Walk, Last, At
<1> SUFFICES ASSUME NEW i \in 1 .. Len(p), NEW k \in 1 .. Len(p), i < k,
                    p[i].stop.node = p[k].stop.node
             PROVE  FALSE
  BY DEF NoRepeat
<1>1. i \in 1 .. Len(p) - 1
  BY <1>0
<1>2. k \in 1 .. Len(p) - 1
  <2>1. p[i].stop.node # stationB
    BY <1>0, <1>1 DEF IsStep
  <2> QED  BY <1>0, <2>1
<1> DEFINE x == p[i].stop
           r == p[k].stop
           t == p[k + 1].stop
<1>3. p[i].dist + RouteChangePenalty <= p[k].dist
  BY InputFacts, WalkGoesOn DEF IsChain, Walk
<1>4. /\ x \in DOMAIN distFromA /\ distFromA[x] = p[i].dist
      /\ r \in DOMAIN distFromA /\ distFromA[r] = p[k].dist
  BY DEF IsChain
<1>5. t \in DOMAIN previousStop /\ previousStop[t] = r
  BY <1>2 DEF IsChain
<1>6. /\ distFromA[t] = distFromA[r] + Ride(r, t.edge) /\ t \in DOMAIN distFromA
  BY <1>4, <1>5 DEF Inv, Previous, TypeOK
<1>7. t.edge.time \in Nat
  BY <1>0, <1>2 DEF IsStep
<1>8. ~Queued(x)
  BY DEF Queued
<1>9. distFromA[t] < distFromA[x] + Ride(x, t.edge) \/ distFromA[r] <= distFromA[x]
  BY <1>4, <1>5, <1>8 DEF Inv, FirstServed
<1>10. distFromA[x] \in Nat /\ distFromA[r] \in Nat
  BY <1>4 DEF Inv, TypeOK
<1> HIDE DEF x, r, t
<1>11. /\ Ride(x, t.edge) \in Nat /\ Ride(x, t.edge) <= t.edge.time + 5
       /\ Ride(r, t.edge) \in Nat /\ Ride(r, t.edge) >= t.edge.time
  BY <1>7, RideFacts DEF RouteChangePenalty
<1>12. \A a, b, c, u, v, time \in Nat :
          ~ (a + 5 <= b /\ u <= time + 5 /\ v >= time /\ c = b + v /\ (c < a + u \/ b <= a))
  OBVIOUS
<1>13. /\ distFromA[x] + 5 <= distFromA[r]
       /\ distFromA[t] = distFromA[r] + Ride(r, t.edge) /\ distFromA[t] \in Nat
  BY <1>3, <1>4, <1>6, <1>10, <1>11 DEF RouteChangePenalty
<1> QED  BY <1>7, <1>9, <1>10, <1>11, <1>12, <1>13

(* The walk back from the end of such a chain collects it.                 *)
LEMMA PathToIsChain ==
    ASSUME Inv, NEW s, NEW p, IsChain(p, s), NoRepeat(p)
    PROVE  PathTo(s) = p
<1> DEFINE D == DOMAIN distFromA
           Ends == {t \in D : t.node = stopA.stop.node}
           item == [t \in D |-> At(t, distFromA[t])]
           IsBack(f) == f = [t \in D |-> IF t.node = stopA.stop.node
                                        THEN <<At(t, distFromA[t])>>
                                        ELSE Append(f[previousStop[t]], At(t, distFromA[t]))]
           B == CHOOSE f : IsBack(f)
<1>1. \E f : IsBack(f)
  <2>1. PICK k \in Nat : \E rank \in [D -> 0 .. k] :
            \A t \in DOMAIN previousStop, r \in D : previousStop[t] = r => rank[r] < rank[t]
    BY DEF Inv, Ranked
  <2>2. PICK rank \in [D -> 0 .. k] :
            \A t \in DOMAIN previousStop, r \in D : previousStop[t] = r => rank[r] < rank[t]
    BY <2>1
  <2>3. \A t \in D \ Ends : previousStop[t] \in D /\ rank[previousStop[t]] < rank[t]
    <3>1. \A t \in D \ Ends : t \in DOMAIN previousStop
      BY DEF Inv, TypeOK
    <3> QED  BY <2>2, <3>1 DEF Inv, TypeOK
  <2>4. Ends \in SUBSET D
    OBVIOUS
  <2> HIDE DEF D, Ends, item
  <2>5. PICK f : IsWalkBack(f, D, Ends, previousStop, item)
    BY <2>3, <2>4, WalkBackExists
  <2>6. IsBack(f)
    <3>1. \A t \in D : item[t] = At(t, distFromA[t]) /\ (t \in Ends <=> t.node = stopA.stop.node)
      BY DEF D, item, Ends
    <3> QED  BY <2>5, <3>1 DEF IsWalkBack
  <2> QED  BY <2>6
<1>2. IsBack(B)
  BY <1>1
<1>3. PathTo(s) = B[s]
  BY DEF PathTo
<1>4. \A t \in D : B[t] = IF t.node = stopA.stop.node
                         THEN <<At(t, distFromA[t])>>
                         ELSE Append(B[previousStop[t]], At(t, distFromA[t]))
  BY <1>2
<1> HIDE DEF B
<1>5. /\ p \in Seq(Items(network, stopA)) /\ Len(p) \in Nat /\ Len(p) >= 1
      /\ Last(p) = p[Len(p)] /\ p[1] = stopA
  BY DEF IsChain, Walk, IsWalk, Last
<1>5a. \A i \in 1 .. Len(p) : p[i].stop \in D /\ p[i] = At(p[i].stop, distFromA[p[i].stop])
  <2>1. \A x \in Items(network, stopA) : x = At(x.stop, x.dist)
    BY InputFacts DEF Items, StartOk, At
  <2>2. \A i \in 1 .. Len(p) : p[i] \in Items(network, stopA)
    BY <1>5
  <2> QED  BY <2>1, <2>2 DEF IsChain
<1> DEFINE T == {n \in 1 .. Len(p) : B[p[n].stop] = SubSeq(p, 1, n)}
<1>6. 1 \in T
  <2>1. p[1].stop \in D /\ p[1] = At(p[1].stop, distFromA[p[1].stop])
    BY <1>5, <1>5a
  <2>2. B[p[1].stop] = <<p[1]>>
    BY <1>4, <1>5, <2>1
  <2>3. SubSeq(p, 1, 1) \in Seq(Items(network, stopA)) /\ Len(SubSeq(p, 1, 1)) = 1
        /\ SubSeq(p, 1, 1)[1] = p[1]
    BY <1>5
  <2>4. SubSeq(p, 1, 1) = <<p[1]>>
    BY <2>3, SingletonSequence
  <2> QED  BY <1>5, <2>2, <2>4
<1>7. ASSUME NEW n \in T, n < Len(p) PROVE n + 1 \in T
  <2>0. n \in 1 .. Len(p) /\ B[p[n].stop] = SubSeq(p, 1, n)
    OBVIOUS
  <2> HIDE DEF T
  <2>1. n \in 1 .. Len(p) - 1 /\ n + 1 \in 1 .. Len(p) /\ 1 < n + 1
    BY <1>5, <1>7, <2>0
  <2>2. /\ p[n + 1].stop \in D /\ p[n + 1] = At(p[n + 1].stop, distFromA[p[n + 1].stop])
        /\ previousStop[p[n + 1].stop] = p[n].stop
    BY <1>5a, <2>1 DEF IsChain
  <2>3. p[n + 1].stop.node # stopA.stop.node
    BY <1>5, <2>1 DEF NoRepeat
  <2>4. B[p[n + 1].stop] = Append(B[p[n].stop], p[n + 1])
    BY <1>4, <2>2, <2>3
  <2>5. SubSeq(p, 1, n + 1) = Append(SubSeq(p, 1, n), p[n + 1])
    BY <1>7, <2>0, WalkPrefix DEF IsChain, Walk
  <2> QED  BY <2>0, <2>1, <2>4, <2>5 DEF T
<1>8. T = 1 .. Len(p)
  <2>1. T \in SUBSET (1 .. Len(p))
    OBVIOUS
  <2> HIDE DEF T
  <2> QED  BY <1>5, <1>6, <1>7, <2>1, IntervalInduction
<1>9. Len(p) \in T
  BY <1>5, <1>8
<1>10. SubSeq(p, 1, Len(p)) = p
  BY <1>5
<1>11. p[Len(p)].stop = s
  BY <1>5 DEF IsChain, At
<1> QED  BY <1>3, <1>9, <1>10, <1>11

(* Nothing gets anywhere faster than the search has found.                 *)
LEMMA NoWalkIsFaster ==
    ASSUME Inv, nodesToVisit = {}, NEW q, Walk(q)
    PROVE  /\ Last(q).stop \in DOMAIN distFromA
           /\ distFromA[Last(q).stop] <= Last(q).dist
<1>1. /\ Len(q) \in Nat /\ Len(q) >= 1 /\ Last(q) = q[Len(q)] /\ q[1] = stopA
      /\ \A i \in 1 .. Len(q) - 1 : IsStep(network, stationB, excludedStops, q, i)
  BY InputFacts, WalkSteps DEF Walk, IsWalk, Last
<1> DEFINE Known(n) == /\ q[n].stop \in DOMAIN distFromA
                       /\ distFromA[q[n].stop] <= q[n].dist
           T == {n \in 1 .. Len(q) : Known(n)}
<1>2. Known(1)
  BY <1>1 DEF Inv, Distances
<1>3. ASSUME NEW n \in 1 .. Len(q), Known(n), n < Len(q) PROVE Known(n + 1)
  <2> DEFINE s == q[n].stop
             t == q[n + 1].stop
  <2>1. n \in 1 .. Len(q) - 1
    BY <1>1, <1>3
  <2>2. /\ t.edge \in Ways(network, s, excludedStops) /\ t = Stop(t.edge.to, t.edge)
        /\ q[n + 1].dist = q[n].dist + Ride(s, t.edge) /\ Ride(s, t.edge) \in Nat
        /\ q[n].dist \in Nat /\ s.node # stationB
    BY <1>1, <2>1 DEF IsStep
  <2>3. s \in DOMAIN distFromA /\ distFromA[s] <= q[n].dist
    BY <1>3
  <2> HIDE DEF s, t
  <2>4. Settled(s)
    BY <2>3 DEF Inv, Explored, Queued
  <2>5. t \in DOMAIN distFromA /\ distFromA[t] <= distFromA[s] + Ride(s, t.edge)
    BY <2>2, <2>4 DEF Settled
  <2>6. distFromA[s] \in Nat /\ distFromA[t] \in Nat
    BY <2>3, <2>5 DEF Inv, TypeOK
  <2>7. distFromA[t] <= q[n + 1].dist
    BY <2>2, <2>3, <2>5, <2>6
  <2> QED  BY <2>5, <2>7 DEF t
<1> HIDE DEF Known
<1>4. T = 1 .. Len(q)
  <2>1. T \in SUBSET (1 .. Len(q)) /\ 1 \in T
    BY <1>1, <1>2
  <2>2. \A n \in T : n < Len(q) => n + 1 \in T
    BY <1>1, <1>3
  <2>3. 1 \in Int /\ Len(q) \in Int
    BY <1>1
  <2> HIDE DEF T
  <2> QED  BY <2>1, <2>2, <2>3, IntervalInduction
<1>5. Len(q) \in T
  BY <1>1, <1>4
<1> QED  BY <1>1, <1>5 DEF Known

Best == BestJourneys(network, stopA, stationB, excludedStops)

(* What Assemble returns.                                                  *)
LEMMA NoArrival ==
    ASSUME Inv, nodesToVisit = {}, {s \in DOMAIN distFromA : s.node = stationB} = {}
    PROVE  Best = {}
<1> SUFFICES ASSUME NEW q \in SimpleJourneys(network, stopA, stationB, excludedStops)
             PROVE  FALSE
  BY DEF Best, BestJourneys
<1>1. Walk(q) /\ Last(q).stop.node = stationB
  BY InputFacts, SimpleJourneysAreWalks DEF Walk
<1> QED  BY <1>1, NoWalkIsFaster

LEMMA NearestArrival ==
    ASSUME Inv, nodesToVisit = {},
           NEW s \in DOMAIN distFromA, s.node = stationB,
           \A t \in DOMAIN distFromA : t.node = stationB => distFromA[s] <= distFromA[t]
    PROVE  PathTo(s) \in Best
<1>1. PICK p : IsChain(p, s)
  BY ChainsExist
<1>2. NoRepeat(p)
  BY <1>1, ChainsDontRepeat
<1>3. PathTo(s) = p
  BY <1>1, <1>2, PathToIsChain
<1>4. Walk(p) /\ Last(p).stop = s /\ Last(p).dist = distFromA[s]
  BY <1>1 DEF IsChain, At
<1>5. p \in SimpleJourneys(network, stopA, stationB, excludedStops)
  BY <1>2, <1>4, InputFacts, WalksAreSimpleJourneys DEF Walk
<1>6. ASSUME NEW q \in SimpleJourneys(network, stopA, stationB, excludedStops)
      PROVE  Last(p).dist <= Last(q).dist
  <2>1. Walk(q) /\ Last(q).stop.node = stationB
    BY InputFacts, SimpleJourneysAreWalks DEF Walk
  <2>2. Last(q).stop \in DOMAIN distFromA /\ distFromA[Last(q).stop] <= Last(q).dist
    BY <2>1, NoWalkIsFaster
  <2>3. distFromA[s] <= distFromA[Last(q).stop]
    BY <2>1, <2>2
  <2>4. Last(q).dist \in Nat
    <3>1. q \in Seq(Items(network, stopA)) /\ Len(q) >= 1 /\ Last(q) = q[Len(q)]
      BY <2>1 DEF Walk, IsWalk, Last
    <3>2. Last(q) \in Items(network, stopA)
      BY <3>1
    <3> QED  BY <3>2, InputFacts DEF Items, StartOk, At
  <2>5. distFromA[s] \in Nat /\ distFromA[Last(q).stop] \in Nat
    BY <2>2 DEF Inv, TypeOK
  <2> QED  BY <1>4, <2>2, <2>3, <2>4, <2>5
<1> QED  BY <1>3, <1>5, <1>6 DEF Best, BestJourneys

(* The result, once there is one.                                          *)
Result ==
    finished =>
        IF stopA.stop.node = stationB
        THEN path = <<Origin(stationB)>>
        ELSE IF Best = {} THEN path = <<>> ELSE path \in Best

LEMMA StepResult == Inv /\ Result /\ [Next]_vars => Result'
<1> SUFFICES ASSUME Inv, Result, [Next]_vars PROVE Result'
  OBVIOUS
<1>1. CASE \E cur \in nodesToVisit : Visit(cur)
  BY <1>1 DEF Visit, Result
<1>2. CASE SameStation
  BY <1>2 DEF SameStation, Result, inputs
<1>3. CASE Assemble
  <2>1. /\ stopA.stop.node # stationB /\ nodesToVisit = {}
        /\ stopA' = stopA /\ stationB' = stationB /\ Best' = Best
    BY <1>3 DEF Assemble, inputs, Best
  <2> DEFINE arrivals == {s \in DOMAIN distFromA : s.node = stationB}
  <2>2. CASE arrivals = {}
    <3>1. path' = <<>> /\ Best = {}
      BY <1>3, <2>1, <2>2, NoArrival DEF Assemble
    <3> QED  BY <2>1, <3>1 DEF Result
  <2>3. CASE arrivals # {}
    <3>1. PICK s \in arrivals : /\ \A t \in arrivals : distFromA[s] <= distFromA[t]
                               /\ path' = PathTo(s)
      BY <1>3, <2>3 DEF Assemble
    <3>2. path' \in Best
      BY <2>1, <3>1, NearestArrival
    <3> QED  BY <2>1, <3>2 DEF Result
  <2> QED  BY <2>2, <2>3
<1>4. CASE UNCHANGED vars
  BY <1>4 DEF vars, inputs, Result, Best
<1> QED  BY <1>1, <1>2, <1>3, <1>4 DEF Next

(* The inductive invariant of the search: entries of the queue are never   *)
(* nearer than what is known, and what has left the queue is settled.      *)
THEOREM SearchInvariant == Spec => []Inv
BY InitInv, StepInv, PTL DEF Spec

(* The search's maps and queue are of their types.                         *)
THEOREM SearchTypes == Spec => []TypeOK
<1>1. Inv => TypeOK
  BY DEF Inv
<1> QED  BY <1>1, SearchInvariant, PTL

(* The distance of a PathStop is the one along previousStop, in every      *)
(* network and whatever the order of equal entries                         *)
(* (transport-network.cpp:771-867): no later improvement of the stop       *)
(* before it makes it stale.                                               *)
THEOREM PreviousStaysExact == Spec => []PreviousIsExact
<1>1. Inv => PreviousIsExact
  BY DEF Inv, TypeOK, Previous, PreviousIsExact
<1> QED  BY <1>1, SearchInvariant, PTL

(* No edge leads to a PathStop faster than the search has found.           *)
NothingFaster == nodesToVisit = {} => \A s \in DOMAIN distFromA : Settled(s)

(* When the queue is empty, and the path is assembled, no edge that the    *)
(* search may follow improves any distance (transport-network.cpp:789-852).*)
THEOREM SearchIsComplete == Spec => []NothingFaster
<1>1. Inv => NothingFaster
  BY DEF Inv, Explored, Queued, NothingFaster
<1> QED  BY <1>1, SearchInvariant, PTL

LEMMA ResultInvariant == Spec => []Result
<1>1. Init => Result
  BY DEF Init, Result
<1> QED  BY <1>1, StepResult, SearchInvariant, PTL DEF Spec

(* The result of a search is a fastest journey of all that avoid the       *)
(* excluded stops, with the penalty for each change of route, or empty if  *)
(* there is no journey at all; whatever the network, the start (a warm one *)
(* included), the station and the order of equal entries                   *)
(* (transport-network.cpp:756-867).                                        *)
THEOREM FastestIsBest == Spec => []ResultIsBest
<1>1. Result => ResultIsBest
  BY DEF Result, ResultIsBest, Best
<1> QED  BY <1>1, ResultInvariant, PTL

-----------------------------------------------------------------------------
(* The answers without a journey.                                          *)
LEMMA NoJourneyAddsUp ==
    LET answer == TravelRoute(<<>>)
    IN  /\ Len(answer.steps) = 0
        /\ answer.total =
            TotalTime(answer.steps) + RouteChangePenalty * Cardinality(Changes(answer.steps))
<1> DEFINE answer == TravelRoute(<<>>)
<1>1. answer.total = 0 /\ answer.steps = <<>>
  <2>1. Len(<<>>) = 0
    OBVIOUS
  <2>2. [i \in 1 .. 0 - 1 |-> <<>>[i + 1].stop.edge] = <<>>
    OBVIOUS
  <2> QED  BY <2>1, <2>2 DEF TravelRoute
<1>2. <<>> \in Seq({}) /\ Len(<<>>) = 0
  OBVIOUS
<1>3. TotalTime(<<>>) = 0
  <2> DEFINE S == {}
  <2>1. <<>> \in Seq(S) /\ \A x \in S : x.time \in Nat
    OBVIOUS
  <2> HIDE DEF S
  <2>2. PICK sum \in [0 .. Len(<<>>) -> Nat] : sum[0] = 0 /\ TotalTime(<<>>) = sum[Len(<<>>)]
    BY <2>1, TotalTimeFacts
  <2> QED  BY <1>2, <2>2
<1>4. Changes(<<>>) = {}
  BY <1>2 DEF Changes
<1>5. Cardinality(Changes(<<>>)) = 0
  BY <1>4, FS_EmptySet
<1> HIDE DEF answer
<1>6. answer.total = TotalTime(answer.steps) + 5 * Cardinality(Changes(answer.steps))
  BY <1>1, <1>3, <1>5
<1> QED  BY <1>1, <1>2, <1>6 DEF answer, RouteChangePenalty

LEMMA StayAddsUp ==
    ASSUME NEW station
    PROVE  LET answer == TravelRoute(<<Origin(station)>>)
           IN  /\ Len(answer.steps) = 1
               /\ answer.steps[1].from = station /\ answer.steps[1].to = station
               /\ answer.total =
                   TotalTime(answer.steps) + RouteChangePenalty * Cardinality(Changes(answer.steps))
<1> DEFINE answer == TravelRoute(<<Origin(station)>>)
           steps == <<Stay(station)>>
<1>1. answer.total = 0 /\ answer.steps = steps
  BY DEF TravelRoute, Origin, At, Stop, Last
<1>2. steps \in Seq({Stay(station)}) /\ Len(steps) = 1 /\ steps[1] = Stay(station)
  OBVIOUS
<1>3. Stay(station).time = 0 /\ Stay(station).from = station /\ Stay(station).to = station
  BY DEF Stay
<1> HIDE DEF answer, steps
<1>4. PICK sum \in [0 .. Len(steps) -> Nat] :
        /\ sum[0] = 0
        /\ \A j \in 1 .. Len(steps) : sum[j] = sum[j - 1] + steps[j].time
        /\ TotalTime(steps) = sum[Len(steps)]
  <2> DEFINE S == {Stay(station)}
  <2>1. steps \in Seq(S) /\ \A x \in S : x.time \in Nat
    BY <1>2, <1>3
  <2> HIDE DEF S
  <2> QED  BY <2>1, TotalTimeFacts
<1>5. TotalTime(steps) = 0
  <2>1. 1 \in 1 .. Len(steps) /\ 1 - 1 = 0
    BY <1>2
  <2>2. sum[1] = sum[0] + steps[1].time
    BY <1>4, <2>1
  <2> QED  BY <1>2, <1>3, <1>4, <2>2
<1>6. Changes(steps) = {}
  BY <1>2 DEF Changes
<1>7. Cardinality(Changes(steps)) = 0
  BY <1>6, FS_EmptySet
<1>8. answer.total = TotalTime(steps) + 5 * Cardinality(Changes(steps))
  BY <1>1, <1>5, <1>7
<1> QED  BY <1>1, <1>2, <1>3, <1>8 DEF answer, RouteChangePenalty

LEMMA JourneyAddsUp ==
    ASSUME Inv, stopA.stop.edge = NoEdge, stopA.stop.node # stationB, path \in Best
    PROVE  LET answer == TravelRoute(path)
               n == Len(answer.steps)
           IN  /\ n > 0 /\ answer.steps[1].from = stopA.stop.node
               /\ answer.steps[n].to = stationB
               /\ answer.total =
                   TotalTime(answer.steps) + RouteChangePenalty * Cardinality(Changes(answer.steps))
<1> DEFINE A == stopA.stop.node
           steps == [i \in 1 .. Len(path) - 1 |-> path[i + 1].stop.edge]
<1>1. stopA = Origin(A)
  <2>1. NoEdge \notin network
    BY InputFacts DEF NetworkOk
  <2>2. SearchOk(network, stopA, stationB, excludedStops)
    BY DEF Inv, Inputs
  <2> QED  BY <2>1, <2>2 DEF SearchOk, At, Stop
<1>2. IsWalk(network, Origin(A), stationB, excludedStops, path) /\ Last(path).stop.node = stationB
  BY <1>1, InputFacts, SimpleJourneysAreWalks DEF Best, BestJourneys
<1>3. Len(path) \in Nat /\ Len(path) >= 2
  <2>1. Len(path) \in Nat /\ Len(path) >= 1 /\ path[1] = stopA
    BY <1>1, <1>2 DEF IsWalk
  <2>2. Len(path) # 1
    BY <1>2, <2>1 DEF Last
  <2>3. \A n \in Nat : n >= 1 /\ n # 1 => n >= 2
    OBVIOUS
  <2> QED  BY <2>1, <2>2, <2>3
<1>4. /\ Len(steps) = Len(path) - 1
      /\ steps[1].from = A
      /\ steps[Len(path) - 1].to = Last(path).stop.node
      /\ Last(path).dist = TotalTime(steps) + RouteChangePenalty * Cardinality(Changes(steps))
  BY <1>2, <1>3, InputFacts, WalkAddsUp
<1>5. TravelRoute(path).steps = steps /\ TravelRoute(path).total = Last(path).dist
  <2>1. path # <<>> /\ Len(path) # 1
    <3>1. Len(<<>>) = 0 /\ \A n \in Nat : n >= 2 => n # 0 /\ n # 1
      OBVIOUS
    <3> QED  BY <1>3, <3>1
  <2> QED  BY <2>1 DEF TravelRoute
<1> HIDE DEF steps
<1> QED  BY <1>2, <1>3, <1>4, <1>5

(* The steps told to the user lead from A to B, and the total travel time  *)
(* is theirs and five minutes for each change of route, in every network   *)
(* (transport-network.cpp:449-517).                                        *)
THEOREM AnswersAddUp == Spec => []AnswerAddsUp
<1>1. Inv /\ Result => AnswerAddsUp
  <2> SUFFICES ASSUME Inv, Result, finished, stopA.stop.edge = NoEdge
               PROVE  LET answer == TravelRoute(path)
                          n == Len(answer.steps)
                      IN  /\ n > 0 => /\ answer.steps[1].from = stopA.stop.node
                                      /\ answer.steps[n].to = stationB
                          /\ answer.total =
                              TotalTime(answer.steps)
                                  + RouteChangePenalty * Cardinality(Changes(answer.steps))
    BY DEF AnswerAddsUp
  <2>1. CASE stopA.stop.node = stationB
    BY <2>1, StayAddsUp DEF Result
  <2>2. CASE stopA.stop.node # stationB /\ Best = {}
    BY <2>2, NoJourneyAddsUp DEF Result
  <2>3. CASE stopA.stop.node # stationB /\ Best # {}
    BY <2>3, JourneyAddsUp DEF Result
  <2> QED  BY <2>1, <2>2, <2>3
<1> QED  BY <1>1, ResultInvariant, SearchInvariant, PTL
=============================================================================
