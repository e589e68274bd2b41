----------------------------- MODULE FastestRoute -----------------------------
(***************************************************************************)
(* TransportNetwork::GetFastestTravelRoute, the internal function and the  *)
(* public one on top of it (src/src/transport-network.cpp): Dijkstra's     *)
(* algorithm over PathStops, with a penalty for changing routes, warm      *)
(* starts and excluded stops.  One step visits one entry of the priority   *)
(* queue; entries of equal distance may be visited in any order.           *)
(***************************************************************************)
EXTENDS Journeys

CONSTANT Searches   \* the arguments of the searches, with the network

ASSUME SearchesAssumption ==
    /\ \A E \in {s.network : s \in Searches} : NetworkOk(E)
    /\ \A s \in Searches : SearchOk(s.network, s.stopA, s.stationB, s.excludedStops)

VARIABLES
    network,        \* the edges; the inputs of a search do not change
    stopA, stationB, excludedStops,
    distFromA,      \* PathStop -> the least distance found so far
    previousStop,   \* PathStop -> the PathStop before it
    nodesToVisit,   \* the priority queue, a set: an entry is pushed only
                    \* with a smaller distance than before
    path,           \* the result
    finished

inputs == <<network, stopA, stationB, excludedStops>>
vars == <<inputs, distFromA, previousStop, nodesToVisit, path, finished>>

PathStops == {Stop(e.to, e) : e \in network} \cup {stopA.stop}

TypeOK ==
    /\ EdgeOk(network)
    /\ excludedStops \subseteq PathStops
    /\ DOMAIN distFromA \subseteq PathStops
    /\ \A s \in DOMAIN distFromA : distFromA[s] \in Nat
    /\ DOMAIN previousStop = DOMAIN distFromA \ {stopA.stop}
    /\ \A s \in DOMAIN previousStop : previousStop[s] \in DOMAIN distFromA
    /\ \A n \in nodesToVisit : n.stop \in DOMAIN distFromA /\ n.dist \in Nat
    /\ finished \in BOOLEAN

Init ==
    /\ \E s \in Searches :
        /\ network = s.network
        /\ stopA = s.stopA
        /\ stationB = s.stationB
        /\ excludedStops = s.excludedStops
    /\ distFromA = [s \in {stopA.stop} |-> stopA.dist]
    /\ previousStop = [s \in {} |-> stopA.stop]
    /\ nodesToVisit = {stopA}
    /\ path = <<>>
    /\ finished = FALSE

-----------------------------------------------------------------------------
(* A and B are the same station.                                           *)
SameStation ==
    /\ ~finished
    /\ stopA.stop.node = stationB
    /\ path' = <<Origin(stationB)>>
    /\ finished' = TRUE
    /\ UNCHANGED <<inputs, distFromA, previousStop, nodesToVisit>>

(* A variant that never improves a distance.                               *)
FirstFound(cur) ==
    {n \in {Follow(cur, e) : e \in Ways(network, cur.stop, excludedStops)} :
        cur.stop.node # stationB /\ n.stop \notin DOMAIN distFromA}

(* The neighbours of a queue entry that it gives a smaller distance to.    *)
(* Station B is not left again.                                            *)
Improved(cur) ==
    {n \in {Follow(cur, e) : e \in Ways(network, cur.stop, excludedStops)} :
        /\ cur.stop.node # stationB
        /\ n.stop \in DOMAIN distFromA => n.dist < distFromA[n.stop]}

(* The top of the priority queue, and a variant with the comparison the    *)
(* wrong way round.                                                        *)
OnBottom(cur) == \A n \in nodesToVisit : cur.dist >= n.dist
OnTop(cur) == \A n \in nodesToVisit : cur.dist <= n.dist

(* The queue after a visit, and a variant without the pop.                 *)
QueueKeeping(cur, better) == nodesToVisit \cup better
QueueAfter(cur, better) == (nodesToVisit \ {cur}) \cup better

(* The distances after a visit.                                            *)
DistancesAfter(cur, found) ==
    [s \in DOMAIN distFromA \cup found |->
        IF s \in found THEN cur.dist + Ride(cur.stop, s.edge) ELSE distFromA[s]]

Visit(cur) ==
    /\ ~finished
    /\ stopA.stop.node # stationB
    /\ cur \in nodesToVisit
    /\ OnTop(cur)
    /\ LET better == Improved(cur)
           found == {n.stop : n \in better}
       IN  /\ distFromA' = DistancesAfter(cur, found)
           /\ previousStop' = [s \in DOMAIN previousStop \cup found |->
                IF s \in found THEN cur.stop ELSE previousStop[s]]
           /\ nodesToVisit' = QueueAfter(cur, better)
    /\ UNCHANGED <<inputs, path, finished>>

(* A variant that leaves out the stop the walk back ends at.               *)
PathWithoutA(stop) ==
    LET back[s \in DOMAIN distFromA] ==
            IF s.node = stopA.stop.node
            THEN <<>>
            ELSE Append(back[previousStop[s]], At(s, distFromA[s]))
    IN  back[stop]

(* The path to a PathStop, walked back until station A.                    *)
PathTo(stop) ==
    LET back[s \in DOMAIN distFromA] ==
            IF s.node = stopA.stop.node
            THEN <<At(s, distFromA[s])>>
            ELSE Append(back[previousStop[s]], At(s, distFromA[s]))
    IN  back[stop]

(* The queue is empty: any of the nearest PathStops of station B is taken. *)
Assemble ==
    /\ ~finished
    /\ stopA.stop.node # stationB
    /\ nodesToVisit = {}
    /\ LET arrivals == {s \in DOMAIN distFromA : s.node = stationB}
       IN  IF arrivals = {}
           THEN path' = <<>>
           ELSE \E s \in arrivals :
                    /\ \A t \in arrivals : distFromA[s] <= distFromA[t]
                    /\ path' = PathTo(s)
    /\ finished' = TRUE
    /\ UNCHANGED <<inputs, distFromA, previousStop, nodesToVisit>>

Next ==
    \/ SameStation
    \/ \E cur \in nodesToVisit : Visit(cur)
    \/ Assemble

Spec == Init /\ [][Next]_vars

(* One thread runs the loop to its end.                                    *)
LiveSpec == Spec /\ WF_vars(Next)

-----------------------------------------------------------------------------
(* Properties.                                                             *)

(* The distance of a PathStop is always the one along previousStop: no     *)
(* later improvement of the stop before it leaves it stale, and the path   *)
(* assembled in lines 857-867 has the distances of a journey.              *)
PreviousIsExact ==
    \A s \in DOMAIN previousStop :
        distFromA[s] = distFromA[previousStop[s]] + Ride(previousStop[s], s.edge)

(* The path is a fastest one, of all that avoid the excluded stops, for    *)
(* every order of equal entries; there is none only if B is out of reach.  *)
(* It begins with stopA itself, whose distance a warm start relies on: the *)
(* walk back does not stop at another visit of the station (line 862).     *)
ResultIsBest ==
    finished /\ stopA.stop.node # stationB =>
        LET best == BestJourneys(network, stopA, stationB, excludedStops)
        IN  IF best = {} THEN path = <<>> ELSE path \in best

(* What the user is told adds up: the steps lead from A to B, if any, and  *)
(* the total travel time is theirs and five minutes for each change of     *)
(* route between them.                                                     *)
AnswerAddsUp ==
    finished /\ stopA.stop.edge = NoEdge =>
        LET answer == TravelRoute(path)
            n == Len(answer.steps)
        IN  /\ n > 0 => /\ answer.steps[1].from = stopA.stop.node
                        /\ answer.steps[n].to = stationB
            /\ answer.total =
                TotalTime(answer.steps)
                    + RouteChangePenalty * Cardinality(Changes(answer.steps))

(* The search ends, although entries are visited again when improved.      *)
SearchEnds == <>finished
=============================================================================
