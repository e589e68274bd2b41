------------------------------ MODULE QuietRoute ------------------------------
(***************************************************************************)
(* TransportNetwork::GetQuietTravelRoute (src/src/transport-network.cpp):  *)
(* a variant of Yen's algorithm lists the paths within a time limit, and   *)
(* the least crowded is taken if it is quiet enough.  One step is one      *)
(* search from a spur node, the choice of the next path, or the final      *)
(* choice.  A search returns any best journey: FastestRoute shows that it  *)
(* does.                                                                   *)
(***************************************************************************)
EXTENDS Journeys

CONSTANTS
    Problems,       \* what is asked, of which network with which counts
    Shorts,         \* the <<n, percent>> whose product, n * (1 + pc) or
                    \* n * (1 - pc) in a double, is not the whole number it
                    \* should be but a little less
    UnsignedMod     \* bound: 2^32 in the program

(* A product is exact when nothing is added or taken off, and zero is.     *)
ASSUME ParametersAssumption ==
    /\ \A p \in Problems :
        /\ p.maxSlowdownPc \in Nat
        /\ p.minQuietnessPc \in 0 .. 100
        /\ p.maxNPaths \in Nat \ {0}
    /\ Shorts \subseteq Nat \X Nat
    /\ \A short \in Shorts :
        /\ short[1] * short[2] > 0
        /\ (short[1] * short[2]) % 100 = 0
        /\ short[2] # 100
    /\ UnsignedMod \in Nat \ {0}
    /\ \A E \in {p.network : p \in Problems} : NetworkOk(E)

VARIABLES
    problem,        \* [network, passengerCount, stationA, stationB,
                    \*  maxSlowdownPc, minQuietnessPc, maxNPaths], the Pcs in
                    \* per cent
    fastestPaths,   \* the paths found
    potentialPaths, \* the priority queue, a set: a second copy of a path is
                    \* skipped when it is popped
    idx,            \* the next spur node on the last of fastestPaths
    answer,         \* the result
    pc              \* "start" | "spur" | "select" | "pick" | "done"

vars == <<problem, fastestPaths, potentialPaths, idx, answer, pc>>

network == problem.network
stationA == problem.stationA
stationB == problem.stationB
maxNPaths == problem.maxNPaths
maxSlowdownPc == problem.maxSlowdownPc
minQuietnessPc == problem.minQuietnessPc

(* A percentage of n, truncated: a product that is a whole number may come *)
(* out just below it, any other lies too far from the next one.            *)
Truncated(n, percent) ==
    (n * percent) \div 100 - (IF <<n, percent>> \in Shorts THEN 1 ELSE 0)

TravelTime(path) == Last(path).dist

Init ==
    /\ problem \in Problems
    /\ fastestPaths = <<>>
    /\ potentialPaths = {}
    /\ idx = 1
    /\ answer = <<>>
    /\ pc = "start"

-----------------------------------------------------------------------------
(* The fastest path, if there is any; A and B are different stations.      *)
FindFastest ==
    /\ pc = "start"
    /\ stationA # stationB
    /\ LET best == BestJourneys(network, Origin(stationA), stationB, {})
       IN  IF best = {}
           THEN pc' = "done" /\ UNCHANGED fastestPaths
           ELSE /\ \E path \in best : fastestPaths' = <<path>>
                /\ pc' = IF 1 < maxNPaths THEN "spur" ELSE "pick"
    /\ UNCHANGED <<problem, potentialPaths, idx, answer>>

SameStation ==
    /\ pc = "start"
    /\ stationA = stationB
    /\ answer' = <<Origin(stationA)>>
    /\ pc' = "done"
    /\ UNCHANGED <<problem, fastestPaths, potentialPaths, idx>>

MaxTravelTime == Truncated(TravelTime(fastestPaths[1]), 100 + maxSlowdownPc)

(* What a search from the spur node must not use: the next stop of every   *)
(* path found that begins with the same stops before the spur node.        *)
RemovedStops ==
    {path[idx + 1].stop : path \in
        {p \in Range(fastestPaths) :
            /\ idx < Len(p)
            /\ SubSeq(p, 1, idx - 1) = SubSeq(Last(fastestPaths), 1, idx - 1)}}

(* Root path and spur path, and a variant that has the spur node twice.    *)
JoinedTwice(last, spurPath) == SubSeq(last, 1, idx) \o spurPath
Joined(last, spurPath) == SubSeq(last, 1, idx - 1) \o spurPath

Spur ==
    LET last == Last(fastestPaths)
        best == BestJourneys(network, last[idx], stationB, RemovedStops)
    IN  /\ pc = "spur"
        /\ idx < Len(last)
        /\ IF best = {}
           THEN UNCHANGED potentialPaths
           ELSE \E spurPath \in best :
                    potentialPaths' = potentialPaths \cup {Joined(last, spurPath)}
        /\ idx' = idx + 1
        /\ pc' = IF idx' < Len(last) THEN "spur" ELSE "select"
        /\ UNCHANGED <<problem, fastestPaths, answer>>

(* The paths that may be taken next, and a variant without the limit.      *)
NewPathsUnlimited == potentialPaths \ Range(fastestPaths)
NewPaths ==
    {p \in potentialPaths \ Range(fastestPaths) : TravelTime(p) <= MaxTravelTime}

(* A variant that goes on when there is no new path.                       *)
SelectForever ==
    /\ pc = "select"
    /\ pc' = "spur"
    /\ idx' = 1
    /\ UNCHANGED <<problem, fastestPaths, potentialPaths, answer>>

(* The fastest path of the queue that is new, any one of equally fast      *)
(* ones.  The copies of known paths that are skipped on the way leave the  *)
(* queue; those that are not reached now would be skipped later.           *)
Select ==
    LET new == NewPaths
    IN  /\ pc = "select"
        /\ IF new = {}
           THEN pc' = "pick" /\ UNCHANGED <<fastestPaths, potentialPaths>>
           ELSE \E path \in new :
                    /\ \A p \in new : TravelTime(path) <= TravelTime(p)
                    /\ fastestPaths' = Append(fastestPaths, path)
                    /\ potentialPaths' = potentialPaths \ Range(fastestPaths')
                    /\ pc' = IF Len(fastestPaths') < maxNPaths THEN "spur" ELSE "pick"
        /\ idx' = 1
        /\ UNCHANGED <<problem, answer>>

-----------------------------------------------------------------------------
(* The sum of the passenger counts, in an unsigned int.                    *)
PassengersOf(passengerCount, path) ==
    FoldLeft(LAMBDA sum, at : sum + passengerCount[at.stop.node], 0, path)

Passengers(path) == PassengersOf(problem.passengerCount, path)

PathCrowding(path) == Passengers(path) % UnsignedMod

(* A variant with the sign of the quietness the wrong way round.           *)
MaxCrowdingAbove == Truncated(PathCrowding(fastestPaths[1]), 100 + minQuietnessPc)
MaxCrowding == Truncated(PathCrowding(fastestPaths[1]), 100 - minQuietnessPc)

(* The first of the least crowded of the other paths that are quiet        *)
(* enough, if it is less crowded than the fastest path.  (The code then    *)
(* overwrites the front of the vector, which is not read again.)           *)
PickQuietest ==
    LET crowding(i) == PathCrowding(fastestPaths[i])
        quiet == {i \in 2 .. Len(fastestPaths) :
                    crowding(i) <= MaxCrowding /\ crowding(i) < crowding(1)}
    IN  /\ pc = "pick"
        /\ IF quiet = {}
           THEN answer' = fastestPaths[1]
           ELSE \E i \in quiet :
                    /\ \A j \in quiet :
                        \/ crowding(i) < crowding(j)
                        \/ crowding(i) = crowding(j) /\ i <= j
                    /\ answer' = fastestPaths[i]
        /\ pc' = "done"
        /\ UNCHANGED <<problem, fastestPaths, potentialPaths, idx>>

Next == FindFastest \/ SameStation \/ Spur \/ Select \/ PickQuietest

Spec == Init /\ [][Next]_vars

(* One thread runs the function to its end.                                *)
LiveSpec == Spec /\ WF_vars(Next)

-----------------------------------------------------------------------------
(* Properties.                                                             *)

(* Every path found or waiting is a journey from A to B with the distances *)
(* it would have had if searched as a whole: root and spur path fit, the   *)
(* penalty for changing routes at the spur node included.                  *)
PathsAreJourneys ==
    \A path \in Range(fastestPaths) \cup potentialPaths :
        /\ IsJourney(network, path)
        /\ path[1] = Origin(stationA)
        /\ Last(path).stop.node = stationB

(* bestTravelTime <= travelTime <= bestTravelTime * (1 + maxSlowdownPc)    *)
(* (transport-network.h:489), each path once.                              *)
PathsWithinLimit ==
    /\ IsInjective(fastestPaths)
    /\ \A path \in Range(fastestPaths) :
        /\ TravelTime(fastestPaths[1]) <= TravelTime(path)
        /\ 100 * TravelTime(path) <= TravelTime(fastestPaths[1]) * (100 + maxSlowdownPc)
    /\ Len(fastestPaths) <= maxNPaths

(* The quiet route is worth its detour: it is the fastest route, or it is  *)
(* quieter by minQuietnessPc, and no candidate that is as much quieter is  *)
(* quieter still.  This needs sums that an unsigned int can hold.  A       *)
(* candidate with exactly the crowding allowed is refused where the        *)
(* product falls short: 1 passenger is not 80 % quieter than 5.            *)
DetourIsWorthIt ==
    pc = "done" /\ fastestPaths # <<>>
        /\ (\A p \in Range(fastestPaths) : Passengers(p) \in 0 .. UnsignedMod - 1) =>
        LET first == Passengers(fastestPaths[1])
            allowed == first * (100 - minQuietnessPc)
            promised(p) == 100 * Passengers(p) <= allowed
            refused(p) ==
                100 * Passengers(p) = allowed /\ <<first, 100 - minQuietnessPc>> \in Shorts
        IN  /\ answer \in Range(fastestPaths)
            /\ answer # fastestPaths[1] => promised(answer)
            /\ \A p \in Range(fastestPaths) :
                promised(p) /\ ~refused(p) => Passengers(answer) <= Passengers(p)

(* The loop ends, although paths may pass a station more than once: each   *)
(* turn finds one more of the maxNPaths paths, or is the last.             *)
SearchEnds == <>(pc = "done")

-----------------------------------------------------------------------------
(* What the comments say and the code does not do.                         *)

(* "Internal function to get all the paths (up to maxNPaths) that meet a   *)
(* certain travel time criterion" (transport-network.h:487-489): at least  *)
(* those that pass no station twice.                                       *)
AllPathsFound ==
    pc = "pick" /\ Len(fastestPaths) < maxNPaths =>
        \A path \in SimpleJourneys(network, Origin(stationA), stationB, {}) :
            TravelTime(path) <= MaxTravelTime => path \in Range(fastestPaths)

(* "here we can simply select the path with the lowest passenger count"    *)
(* (transport-network.cpp:571-573), of counts that "can be negative"       *)
(* (transport-network.h:262): no candidate is less crowded.                *)
LowestPassengerCount ==
    pc = "done" /\ minQuietnessPc = 0 =>
        \A path \in Range(fastestPaths) : Passengers(answer) <= Passengers(path)
=============================================================================
