-------------------------- MODULE QuietRouteProofs --------------------------
(***************************************************************************)
(* What QuietRoute guarantees for all networks, passenger counts and       *)
(* parameters: each candidate is a whole journey although it is put        *)
(* together from two searches, none is faster than the first or beyond the *)
(* limit, and the one chosen is worth its detour.                          *)
(***************************************************************************)
EXTENDS QuietRoute, JourneyProofs

(* The candidates as walks, that is, with every step a way of the network  *)
(* and B at the end only.                                                  *)
IsCandidate(p) ==
    /\ IsWalk(network, Origin(stationA), stationB, {}, p)
    /\ Last(p).stop.node = stationB

Control ==
    /\ problem \in Problems
    /\ idx \in Nat /\ idx >= 1
    /\ pc = "start" => fastestPaths = <<>>
    /\ pc \in {"spur", "select", "pick"} => fastestPaths # <<>>
    /\ fastestPaths = <<>> => potentialPaths = {}
    /\ fastestPaths # <<>> => stationA # stationB
    /\ Len(fastestPaths) <= maxNPaths
    /\ pc \in {"spur", "select"} => Len(fastestPaths) < maxNPaths

Candidates ==
    /\ fastestPaths \in Seq(Seq(Items(network, Origin(stationA))))
    /\ \A path \in Range(fastestPaths) \cup potentialPaths : IsCandidate(path)

FirstIsFastest ==
    fastestPaths # <<>> =>
        \A path : IsCandidate(path) => TravelTime(fastestPaths[1]) <= TravelTime(path)

Inv ==
    /\ Control
    /\ Candidates
    /\ FirstIsFastest
    /\ IsInjective(fastestPaths)
    /\ \A path \in Range(fastestPaths) : TravelTime(path) <= MaxTravelTime
    /\ DetourIsWorthIt

-----------------------------------------------------------------------------
LEMMA NetworkIsOk ==
    ASSUME problem \in Problems
    PROVE  /\ NetworkOk(network) /\ EdgeOk(network) /\ IsFiniteSet(network)
           /\ maxNPaths \in Nat /\ maxNPaths >= 1
           /\ maxSlowdownPc \in Nat /\ 100 - minQuietnessPc \in Nat
<1>1. problem.network \in {p.network : p \in Problems}
  OBVIOUS
<1>2. maxSlowdownPc \in Nat /\ minQuietnessPc \in 0 .. 100
  BY ParametersAssumption DEF maxSlowdownPc, minQuietnessPc
<1>3. 100 - minQuietnessPc \in Nat
  BY <1>2
<1> QED  BY <1>1, <1>2, <1>3, ParametersAssumption DEF network, maxNPaths, NetworkOk

LEMMA OriginOk ==
    ASSUME NEW s
    PROVE  StartOk(Origin(s)) /\ Origin(s).stop.node = s /\ Origin(s).dist = 0
BY DEF StartOk, Origin, At, Stop

(* The length and the last item of a walk.                                 *)
LEMMA WalkEnd ==
    ASSUME NEW E, EdgeOk(E), NEW start, StartOk(start), NEW station, NEW excludedStops,
           NEW p, IsWalk(E, start, station, excludedStops, p)
    PROVE  /\ p \in Seq(Items(E, start)) /\ Len(p) \in Nat /\ Len(p) >= 1 /\ p # <<>>
           /\ Last(p) = p[Len(p)] /\ Last(p) \in Items(E, start)
           /\ TravelTime(p) = Last(p).dist /\ TravelTime(p) \in Nat
<1>1. p \in Seq(Items(E, start)) /\ Len(p) >= 1 /\ Last(p) = p[Len(p)]
  BY DEF IsWalk, Last
<1>2. Len(p) \in Nat /\ p # <<>> /\ Len(p) \in 1 .. Len(p)
  BY <1>1
<1>3. Last(p) \in Items(E, start)
  BY <1>1, <1>2
<1>4. Last(p).dist \in Nat
  BY <1>3 DEF Items, StartOk, At
<1> QED  BY <1>1, <1>2, <1>3, <1>4 DEF TravelTime

LEMMA WiderSequence ==
    ASSUME NEW S, NEW T, S \subseteq T, NEW s \in Seq(S)
    PROVE  s \in Seq(T)
<1>1. Len(s) \in Nat /\ s = [i \in 1 .. Len(s) |-> s[i]] /\ \A i \in 1 .. Len(s) : s[i] \in T
  OBVIOUS
<1> QED  BY <1>1

LEMMA JoinedSequence ==
    ASSUME NEW S, NEW s \in Seq(S), NEW t \in Seq(S)
    PROVE  /\ s \o t \in Seq(S) /\ Len(s \o t) = Len(s) + Len(t)
           /\ \A j \in 1 .. Len(s) : (s \o t)[j] = s[j]
           /\ \A j \in 1 .. Len(t) : (s \o t)[Len(s) + j] = t[j]
OBVIOUS

(* A walk to one of its stations and on by a search from there, which      *)
(* keeps the edge it came by and the distance, is a walk of the whole.     *)
LEMMA JoinedIsWalk ==
    ASSUME NEW E, EdgeOk(E), NEW start, StartOk(start), NEW station, NEW excludedStops,
           NEW p, IsWalk(E, start, station, {}, p),
           NEW n \in 1 .. Len(p) - 1,
           NEW u, u = SubSeq(p, 1, n - 1),
           NEW q, IsWalk(E, p[n], station, excludedStops, q),
           NEW r, r = u \o q
    PROVE  IsWalk(E, start, station, {}, r)
<1> DEFINE m == n - 1
           I == Items(E, start)
<1>1. p \in Seq(I) /\ Len(p) \in Nat /\ p[1] = start
  BY DEF IsWalk
<1>2. m \in Nat /\ m + 1 = n /\ n \in 1 .. Len(p) /\ m <= Len(p) - 1
  BY <1>1
<1>3. p[n] \in I /\ StartOk(p[n])
  <2>1. p[n] \in I
    BY <1>1, <1>2
  <2> QED  BY <2>1 DEF Items, StartOk, At
<1>4. q \in Seq(I) /\ Len(q) \in Nat /\ Len(q) >= 1 /\ q[1] = p[n] /\ Last(q) = q[Len(q)]
  <2>1. q \in Seq(Items(E, p[n])) /\ Len(q) >= 1 /\ q[1] = p[n]
    BY DEF IsWalk
  <2>2. Items(E, p[n]) \subseteq I
    BY <1>3 DEF Items
  <2>3. Len(q) \in Nat
    BY <2>1
  <2>4. q \in Seq(I)
    <3> HIDE DEF I
    <3> QED  BY <2>1, <2>2, WiderSequence
  <2>5. Last(q) = q[Len(q)]
    BY DEF Last
  <2> QED  BY <2>1, <2>3, <2>4, <2>5, Zenon
<1> HIDE DEF I
<1>5. u \in Seq(I) /\ Len(u) = m /\ \A j \in 1 .. m : u[j] = p[j]
  BY <1>1, <1>2
<1>6. /\ r \in Seq(I) /\ Len(r) = m + Len(q)
      /\ \A j \in 1 .. m : r[j] = p[j]
      /\ \A j \in 1 .. Len(q) : r[m + j] = q[j]
  <2>1. /\ r \in Seq(I) /\ Len(r) = Len(u) + Len(q)
        /\ \A j \in 1 .. Len(u) : r[j] = u[j]
        /\ \A j \in 1 .. Len(q) : r[Len(u) + j] = q[j]
    <3> HIDE DEF m
    <3> QED  BY <1>4, <1>5, JoinedSequence
  <2> HIDE DEF m
  <2> QED  BY <1>5, <2>1
<1>7. r[n] = p[n]
  <2>1. 1 \in 1 .. Len(q)
    BY <1>4
  <2>2. r[m + 1] = q[1]
    BY <1>6, <2>1
  <2> QED  BY <1>2, <1>4, <2>2
<1>8. ASSUME NEW j \in 1 .. Len(r) - 1
      PROVE  /\ r[j].stop.node # station
             /\ \E e \in Ways(E, r[j].stop, {}) : r[j + 1] = Follow(r[j], e)
  <2>1. CASE j \in 1 .. m
    <3>1. r[j] = p[j] /\ r[j + 1] = p[j + 1]
      <4>1. CASE j = m
        BY <1>2, <1>6, <1>7, <2>1, <4>1
      <4>2. CASE j # m
        <5>1. j + 1 \in 1 .. m
          BY <1>2, <2>1, <4>2
        <5> QED  BY <1>6, <2>1, <5>1
      <4> QED  BY <4>1, <4>2
    <3>2. j \in 1 .. Len(p) - 1
      BY <1>1, <1>2, <2>1
    <3> QED  BY <3>1, <3>2 DEF IsWalk
  <2>2. CASE j \notin 1 .. m
    <3> DEFINE k == j - m
    <3>1. /\ k \in 1 .. Len(q) - 1 /\ k \in 1 .. Len(q) /\ k + 1 \in 1 .. Len(q)
          /\ m + k = j /\ m + (k + 1) = j + 1
      BY <1>2, <1>4, <1>6, <2>2
    <3>2. r[m + k] = q[k] /\ r[m + (k + 1)] = q[k + 1]
      <4> HIDE DEF k
      <4> QED  BY <1>6, <3>1
    <3>3. r[j] = q[k] /\ r[j + 1] = q[k + 1]
      BY <3>1, <3>2
    <3> HIDE DEF k
    <3>4. /\ q[k].stop.node # station
          /\ \E e \in Ways(E, q[k].stop, excludedStops) : q[k + 1] = Follow(q[k], e)
      BY <3>1 DEF IsWalk
    <3>5. Ways(E, q[k].stop, excludedStops) \subseteq Ways(E, q[k].stop, {})
      BY DEF Ways
    <3> QED  BY <3>3, <3>4, <3>5
  <2> QED  BY <2>1, <2>2
<1>9. r[1] = start
  <2>1. CASE m = 0
    <3>1. n = 1
      BY <1>2, <2>1
    <3> QED  BY <1>1, <1>7, <3>1
  <2>2. CASE m # 0
    <3>1. 1 \in 1 .. m
      BY <1>2, <2>2
    <3> QED  BY <1>1, <1>6, <3>1
  <2> QED  BY <2>1, <2>2
<1>10. IsWalk(E, start, station, {}, r)
  <2>1. Len(r) >= 1
    BY <1>2, <1>4, <1>6
  <2> QED  BY <1>6, <1>8, <1>9, <2>1 DEF IsWalk, I
<1> QED  BY <1>10

(* What a best journey without a repetition is compared to the others.     *)
LEMMA BestIsFastest ==
    ASSUME NEW E, NetworkOk(E), NEW s, NEW station, s # station,
           NEW p \in BestJourneys(E, Origin(s), station, {}),
           NEW q, IsWalk(E, Origin(s), station, {}, q), Last(q).stop.node = station
    PROVE  TravelTime(p) <= TravelTime(q)
<1> DEFINE start == Origin(s)
<1>0. EdgeOk(E) /\ IsFiniteSet(E)
  BY DEF NetworkOk
<1>1. StartOk(start) /\ start.stop.node = s
  BY OriginOk
<1>2. p \in SimpleJourneys(E, start, station, {})
      /\ \A r \in SimpleJourneys(E, start, station, {}) : Last(p).dist <= Last(r).dist
  BY DEF BestJourneys
<1> HIDE DEF start
<1>5. PICK r \in SimpleJourneys(E, start, station, {}) : Last(r).dist <= Last(q).dist
  BY <1>1, SimpleIsNoSlower DEF start
<1>6. /\ Last(p).dist \in Nat /\ Last(r).dist \in Nat /\ Last(q).dist \in Nat
  <2>1. IsWalk(E, start, station, {}, p) /\ IsWalk(E, start, station, {}, r)
    BY <1>0, <1>1, <1>2, <1>5, SimpleJourneysAreWalks
  <2>2. IsWalk(E, start, station, {}, q)
    BY DEF start
  <2>3. TravelTime(p) \in Nat /\ TravelTime(r) \in Nat /\ TravelTime(q) \in Nat
    BY <1>0, <1>1, <2>1, <2>2, WalkEnd
  <2> QED  BY <2>3 DEF TravelTime
<1>7. Last(p).dist <= Last(r).dist
  BY <1>2
<1> QED  BY <1>5, <1>6, <1>7 DEF TravelTime

-----------------------------------------------------------------------------
LEMMA AppendFacts ==
    ASSUME NEW S, NEW s \in Seq(S), NEW x \in S
    PROVE  /\ Append(s, x) \in Seq(S) /\ Append(s, x) # <<>>
           /\ Len(Append(s, x)) = Len(s) + 1
           /\ s # <<>> => Append(s, x)[1] = s[1]
           /\ Range(Append(s, x)) = Range(s) \cup {x}
           /\ IsInjective(s) /\ x \notin Range(s) => IsInjective(Append(s, x))
<1> DEFINE t == Append(s, x)
<1>1. /\ t \in Seq(S) /\ Len(s) \in Nat /\ Len(t) = Len(s) + 1 /\ t # <<>>
      /\ DOMAIN s = 1 .. Len(s) /\ DOMAIN t = 1 .. Len(s) + 1
      /\ \A i \in 1 .. Len(s) : t[i] = s[i]
      /\ t[Len(s) + 1] = x
  OBVIOUS
<1> HIDE DEF t
<1>2. s # <<>> => t[1] = s[1]
  <2>1. s # <<>> => 1 \in 1 .. Len(s)
    OBVIOUS
  <2> QED  BY <1>1, <2>1
<1>3. 1 .. Len(s) + 1 = (1 .. Len(s)) \cup {Len(s) + 1}
  BY <1>1
<1>4. Range(t) = Range(s) \cup {x}
  BY <1>1, <1>3 DEF Range
<1>5. ASSUME IsInjective(s), x \notin Range(s) PROVE IsInjective(t)
  <2>1. \A i \in 1 .. Len(s) : s[i] # x
    BY <1>1, <1>5 DEF Range
  <2>2. \A i, k \in 1 .. Len(s) : s[i] = s[k] => i = k
    BY <1>1, <1>5 DEF IsInjective
  <2> QED  BY <1>1, <1>3, <2>1, <2>2 DEF IsInjective
<1> QED  BY <1>1, <1>2, <1>4, <1>5 DEF t

(* What is no more than a truncated percentage of n is no more than the    *)
(* percentage itself, and the other way round, except for the number that  *)
(* the percentage should be where the product falls short of it.           *)
LEMMA TruncatedIsExact ==
    ASSUME NEW n \in Nat, NEW percent \in Nat, NEW x \in Nat
    PROVE  /\ Truncated(n, percent) \in Int
           /\ x <= Truncated(n, percent) <=>
                /\ 100 * x <= n * percent
                /\ ~(100 * x = n * percent /\ <<n, percent>> \in Shorts)
<1> DEFINE product == n * percent
<1>1. product \in Nat
  OBVIOUS
<1>2. <<n, percent>> \in Shorts => product % 100 = 0
  BY ParametersAssumption
<1>3. Truncated(n, percent) = product \div 100 - (IF <<n, percent>> \in Shorts THEN 1 ELSE 0)
  BY DEF Truncated
<1> HIDE DEF product
<1>4. /\ product \div 100 \in Int
      /\ x <= product \div 100 <=> 100 * x <= product
      /\ product % 100 = 0 => (x <= product \div 100 - 1 <=> 100 * x < product)
  BY <1>1
<1>5. CASE <<n, percent>> \in Shorts
  <2>1. /\ Truncated(n, percent) = product \div 100 - 1
        /\ x <= product \div 100 - 1 <=> 100 * x < product
    BY <1>2, <1>3, <1>4, <1>5
  <2>2. 100 * x < product <=> 100 * x <= product /\ 100 * x # product
    BY <1>1
  <2> QED  BY <1>4, <1>5, <2>1, <2>2 DEF product
<1>6. CASE <<n, percent>> \notin Shorts
  <2>1. Truncated(n, percent) = product \div 100
    BY <1>3, <1>4, <1>6
  <2> QED  BY <1>4, <1>6, <2>1 DEF product
<1> QED  BY <1>5, <1>6

(* A path as fast as the first is within the limit, whatever the slowdown. *)
LEMMA LimitAdmitsFirst ==
    ASSUME NEW t \in Nat, NEW k \in Nat
    PROVE  t <= Truncated(t, 100 + k)
<1> DEFINE n == t * (100 + k)
           m == t * k
<1>1. n = 100 * t + m /\ m \in Nat
  OBVIOUS
<1>2. <<t, 100 + k>> \in Shorts => k # 0 /\ n > 0
  BY ParametersAssumption
<1>3. k # 0 /\ n > 0 => 100 * t # n
  <2>1. m = 0 => t = 0 \/ k = 0
    OBVIOUS
  <2>2. t = 0 => n = 0
    OBVIOUS
  <2> HIDE DEF n, m
  <2> QED  BY <1>1, <2>1, <2>2
<1>4. 100 * t <= n
  <2> HIDE DEF n, m
  <2> QED  BY <1>1
<1>5. 100 + k \in Nat
  OBVIOUS
<1> QED  BY <1>2, <1>3, <1>4, <1>5, TruncatedIsExact

-----------------------------------------------------------------------------
LEMMA InitInv == Init => Inv
<1> SUFFICES ASSUME Init PROVE Inv
  OBVIOUS
<1>1. problem \in Problems /\ fastestPaths = <<>> /\ potentialPaths = {} /\ idx = 1 /\ pc = "start"
  BY DEF Init
<1>2. Range(fastestPaths) = {} /\ Len(fastestPaths) = 0 /\ DOMAIN fastestPaths = {}
  BY <1>1 DEF Range
<1>3. Control
  BY <1>1, <1>2, NetworkIsOk DEF Control
<1>4. Candidates
  BY <1>1, <1>2 DEF Candidates
<1> QED  BY <1>1, <1>2, <1>3, <1>4 DEF Inv, FirstIsFastest, IsInjective, DetourIsWorthIt

(* The problem does not change.                                            *)
LEMMA SameProblem ==
    ASSUME UNCHANGED problem
    PROVE  /\ network' = network /\ stationA' = stationA /\ stationB' = stationB
           /\ maxNPaths' = maxNPaths
           /\ maxSlowdownPc' = maxSlowdownPc /\ minQuietnessPc' = minQuietnessPc
           /\ \A p : IsCandidate(p)' = IsCandidate(p)
           /\ \A p : Passengers(p)' = Passengers(p)
<1>1. \A p : Passengers(p)' = Passengers(p)
  BY DEF Passengers
<1>2. /\ network' = network /\ stationA' = stationA /\ stationB' = stationB
      /\ maxNPaths' = maxNPaths
      /\ maxSlowdownPc' = maxSlowdownPc /\ minQuietnessPc' = minQuietnessPc
  BY DEF network, stationA, stationB, maxNPaths, maxSlowdownPc, minQuietnessPc
<1>3. \A p : IsCandidate(p)' = IsCandidate(p)
  BY <1>2 DEF IsCandidate
<1> QED  BY <1>1, <1>2, <1>3

LEMMA FindFastestKeepsInv == Inv /\ FindFastest => Inv'
<1> SUFFICES ASSUME Inv, FindFastest PROVE Inv'
  OBVIOUS
<1> DEFINE best == BestJourneys(network, Origin(stationA), stationB, {})
<1>1. /\ pc = "start" /\ stationA # stationB /\ fastestPaths = <<>> /\ potentialPaths = {}
      /\ UNCHANGED <<problem, potentialPaths, idx, answer>>
      /\ problem \in Problems /\ idx \in Nat /\ idx >= 1
  BY DEF FindFastest, Inv, Control
<1>2. NetworkOk(network) /\ EdgeOk(network) /\ IsFiniteSet(network) /\ maxNPaths \in Nat /\ maxNPaths >= 1
  BY <1>1, NetworkIsOk
<1>3. /\ network' = network /\ stationA' = stationA /\ stationB' = stationB
      /\ maxNPaths' = maxNPaths /\ \A p : IsCandidate(p)' = IsCandidate(p)
  BY <1>1, SameProblem
<1>4. CASE best = {}
  <2>1. pc' = "done" /\ fastestPaths' = <<>>
    BY <1>1, <1>4 DEF FindFastest
  <2>2. Range(fastestPaths') = {} /\ Len(fastestPaths') = 0 /\ DOMAIN fastestPaths' = {}
    BY <2>1 DEF Range
  <2>3. Control'
    BY <1>1, <1>2, <1>3, <2>1, <2>2 DEF Control
  <2>4. Candidates'
    BY <1>1, <1>3, <2>1, <2>2 DEF Candidates
  <2> QED  BY <1>1, <2>1, <2>2, <2>3, <2>4 DEF Inv, FirstIsFastest, IsInjective, DetourIsWorthIt
<1>5. CASE best # {}
  <2>1. PICK path \in best : fastestPaths' = <<path>>
    BY <1>5 DEF FindFastest
  <2>2. pc' = IF 1 < maxNPaths THEN "spur" ELSE "pick"
    BY <1>5 DEF FindFastest
  <2>3. path \in SimpleJourneys(network, Origin(stationA), stationB, {})
    BY <2>1 DEF BestJourneys
  <2>4. IsCandidate(path)
    BY <1>2, <2>3, OriginOk, SimpleJourneysAreWalks DEF IsCandidate
  <2>5. path \in Seq(Items(network, Origin(stationA))) /\ TravelTime(path) \in Nat
    BY <1>2, <2>4, OriginOk, WalkEnd DEF IsCandidate
  <2> DEFINE one == <<path>>
  <2>6. /\ one \in Seq(Seq(Items(network, Origin(stationA)))) /\ one # <<>> /\ Len(one) = 1
        /\ DOMAIN one = {1} /\ one[1] = path
    BY <2>5
  <2> HIDE DEF one
  <2>7. fastestPaths' = one
    BY <2>1 DEF one
  <2>8. Range(one) = {path}
    BY <2>6 DEF Range
  <2>9. Control'
    BY <1>1, <1>2, <1>3, <2>2, <2>6, <2>7 DEF Control
  <2>10. Candidates'
    BY <1>1, <1>3, <2>4, <2>6, <2>7, <2>8 DEF Candidates
  <2>11. FirstIsFastest'
    <3>1. ASSUME NEW p, IsCandidate(p) PROVE TravelTime(path) <= TravelTime(p)
      BY <1>1, <1>2, <2>1, <3>1, BestIsFastest DEF IsCandidate
    <3> QED  BY <1>3, <2>6, <2>7, <3>1 DEF FirstIsFastest
  <2>12. \A p \in Range(one) : TravelTime(p) <= MaxTravelTime'
    <3>1. maxSlowdownPc \in Nat /\ maxSlowdownPc' = maxSlowdownPc
      BY <1>1, NetworkIsOk, SameProblem
    <3>2. MaxTravelTime' = Truncated(TravelTime(path), 100 + maxSlowdownPc)
      BY <2>6, <2>7, <3>1 DEF MaxTravelTime
    <3> QED  BY <2>5, <2>8, <3>1, <3>2, LimitAdmitsFirst
  <2>13. IsInjective(one)
    BY <2>6 DEF IsInjective
  <2>14. pc' # "done"
    BY <2>2
  <2> QED  BY <2>7, <2>9, <2>10, <2>11, <2>12, <2>13, <2>14 DEF Inv, DetourIsWorthIt
<1> QED  BY <1>4, <1>5

LEMMA SameStationKeepsInv == Inv /\ SameStation => Inv'
<1> SUFFICES ASSUME Inv, SameStation PROVE Inv'
  OBVIOUS
<1>1. /\ pc' = "done" /\ pc = "start" /\ fastestPaths = <<>>
      /\ UNCHANGED <<problem, fastestPaths, potentialPaths, idx>>
  BY DEF SameStation, Inv, Control
<1>2. /\ network' = network /\ stationA' = stationA /\ stationB' = stationB
      /\ maxNPaths' = maxNPaths /\ \A p : IsCandidate(p)' = IsCandidate(p)
  BY <1>1, SameProblem
<1>3. Control'
  BY <1>1, <1>2 DEF Inv, Control
<1>4. Candidates'
  BY <1>1, <1>2 DEF Inv, Candidates
<1>5. Range(fastestPaths) = {}
  BY <1>1 DEF Range
<1> QED  BY <1>1, <1>3, <1>4, <1>5 DEF Inv, FirstIsFastest, DetourIsWorthIt

(* A spur path is whole with the root path, the change of routes at the    *)
(* spur node being counted in it.                                          *)
LEMMA SpurKeepsInv == Inv /\ Spur => Inv'
<1> SUFFICES ASSUME Inv, Spur PROVE Inv'
  OBVIOUS
<1> DEFINE last == Last(fastestPaths)
           best == BestJourneys(network, last[idx], stationB, RemovedStops)
           start == Origin(stationA)
<1>1. /\ pc = "spur" /\ idx < Len(last) /\ idx' = idx + 1
      /\ UNCHANGED <<problem, fastestPaths, answer>>
      /\ pc' \in {"spur", "select"}
      /\ \/ UNCHANGED potentialPaths
         \/ \E spurPath \in best : potentialPaths' = potentialPaths \cup {Joined(last, spurPath)}
  BY DEF Spur
<1>2. /\ problem \in Problems /\ idx \in Nat /\ idx >= 1 /\ fastestPaths # <<>>
      /\ fastestPaths \in Seq(Seq(Items(network, start)))
  BY <1>1 DEF Inv, Control, Candidates
<1>3. EdgeOk(network) /\ IsFiniteSet(network)
  BY <1>2, NetworkIsOk
<1>4. /\ network' = network /\ stationA' = stationA /\ stationB' = stationB
      /\ maxNPaths' = maxNPaths /\ \A p : IsCandidate(p)' = IsCandidate(p)
  BY <1>1, SameProblem
<1>5. last \in Range(fastestPaths)
  <2>1. Len(fastestPaths) \in 1 .. Len(fastestPaths) /\ DOMAIN fastestPaths = 1 .. Len(fastestPaths)
    BY <1>2
  <2> QED  BY <2>1 DEF Last, Range
<1>6. IsCandidate(last)
  BY <1>5 DEF Inv, Candidates
<1> HIDE DEF last
<1>7. ASSUME NEW spurPath \in best PROVE IsCandidate(Joined(last, spurPath))
  <2>1. Len(last) \in Nat
    BY <1>3, <1>6, OriginOk, WalkEnd DEF IsCandidate
  <2>2. idx \in 1 .. Len(last) - 1
    BY <1>1, <1>2, <2>1
  <2>3. IsWalk(network, start, stationB, {}, last) /\ StartOk(start)
    BY <1>6, OriginOk DEF IsCandidate
  <2>4. StartOk(last[idx])
    <3>1. last \in Seq(Items(network, start)) /\ idx \in 1 .. Len(last)
      BY <1>3, <2>1, <2>2, <2>3, WalkEnd
    <3>2. last[idx] \in Items(network, start)
      BY <3>1
    <3> QED  BY <2>3, <3>2 DEF Items, StartOk, At
  <2>5. spurPath \in SimpleJourneys(network, last[idx], stationB, RemovedStops)
    BY DEF BestJourneys
  <2>6. /\ IsWalk(network, last[idx], stationB, RemovedStops, spurPath)
        /\ Last(spurPath).stop.node = stationB
    BY <1>3, <2>4, <2>5, SimpleJourneysAreWalks
  <2> DEFINE root == SubSeq(last, 1, idx - 1)
             whole == Joined(last, spurPath)
             X == RemovedStops
  <2>7. /\ root = SubSeq(last, 1, idx - 1) /\ whole = root \o spurPath
        /\ IsWalk(network, last[idx], stationB, X, spurPath)
    BY <2>6 DEF Joined
  <2> HIDE DEF root, whole, X, best, start
  <2>8. IsWalk(network, start, stationB, {}, whole)
    BY <1>3, <2>2, <2>3, <2>7, JoinedIsWalk
  <2>9. Last(whole) = Last(spurPath)
    <3> DEFINE S == Items(network, start) \cup Items(network, last[idx])
    <3>1. last \in Seq(Items(network, start)) /\ spurPath \in Seq(Items(network, last[idx]))
          /\ spurPath # <<>>
      BY <1>3, <2>3, <2>4, <2>7, WalkEnd
    <3>2. idx - 1 \in 0 .. Len(last)
      BY <2>1, <2>2
    <3>3. root \in Seq(S) /\ spurPath \in Seq(S)
      BY <2>7, <3>1, <3>2
    <3> HIDE DEF S
    <3>4. /\ Len(root) \in Nat /\ Len(spurPath) \in Nat /\ Len(spurPath) >= 1
          /\ Len(whole) = Len(root) + Len(spurPath)
      BY <2>7, <3>1, <3>3
    <3>5. whole[Len(root) + Len(spurPath)] = spurPath[Len(spurPath)]
      BY <2>7, <3>3, <3>4
    <3> QED  BY <3>4, <3>5 DEF Last
  <2> QED  BY <2>6, <2>8, <2>9 DEF IsCandidate, start, whole
<1>8. Candidates'
  <2>1. \A path \in potentialPaths' : IsCandidate(path)
    BY <1>1, <1>7 DEF Inv, Candidates
  <2>2. \A path \in Range(fastestPaths) : IsCandidate(path)
    BY DEF Inv, Candidates
  <2> QED  BY <1>1, <1>2, <1>4, <2>1, <2>2 DEF Candidates
<1>9. Control'
  BY <1>1, <1>2, <1>4 DEF Inv, Control
<1>10. FirstIsFastest'
  BY <1>1, <1>4 DEF Inv, FirstIsFastest
<1>11. IsInjective(fastestPaths') /\ \A path \in Range(fastestPaths') : TravelTime(path) <= MaxTravelTime'
  BY <1>1, SameProblem DEF Inv, MaxTravelTime
<1>12. pc' # "done"
  BY <1>1
<1> QED  BY <1>8, <1>9, <1>10, <1>11, <1>12 DEF Inv, DetourIsWorthIt

LEMMA SelectKeepsInv == Inv /\ Select => Inv'
<1> SUFFICES ASSUME Inv, Select PROVE Inv'
  OBVIOUS
<1>1. /\ pc = "select" /\ idx' = 1 /\ UNCHANGED <<problem, answer>>
      /\ problem \in Problems /\ fastestPaths # <<>> /\ stationA # stationB
      /\ Len(fastestPaths) < maxNPaths
      /\ fastestPaths \in Seq(Seq(Items(network, Origin(stationA))))
  BY DEF Select, Inv, Control, Candidates
<1>2. /\ network' = network /\ stationA' = stationA /\ stationB' = stationB
      /\ maxNPaths' = maxNPaths /\ \A p : IsCandidate(p)' = IsCandidate(p)
  BY <1>1, SameProblem
<1>3. EdgeOk(network) /\ maxNPaths \in Nat
  BY <1>1, NetworkIsOk
<1>4. CASE NewPaths = {}
  <2>1. pc' = "pick" /\ UNCHANGED <<fastestPaths, potentialPaths>>
    BY <1>4 DEF Select
  <2>2. Control'
    BY <1>1, <1>2, <2>1 DEF Inv, Control
  <2>3. Candidates' /\ FirstIsFastest'
    BY <1>1, <1>2, <2>1 DEF Inv, Candidates, FirstIsFastest
  <2>4. MaxTravelTime' = MaxTravelTime
    BY <1>1, <2>1, SameProblem DEF MaxTravelTime
  <2> QED  BY <2>1, <2>2, <2>3, <2>4 DEF Inv, DetourIsWorthIt
<1>5. CASE NewPaths # {}
  <2>1. PICK path \in NewPaths :
            /\ fastestPaths' = Append(fastestPaths, path)
            /\ potentialPaths' = potentialPaths \ Range(fastestPaths')
            /\ pc' = IF Len(fastestPaths') < maxNPaths THEN "spur" ELSE "pick"
    BY <1>5 DEF Select
  <2>2. /\ path \in potentialPaths /\ path \notin Range(fastestPaths)
        /\ TravelTime(path) <= MaxTravelTime /\ IsCandidate(path)
    BY DEF NewPaths, Inv, Candidates
  <2>3. path \in Seq(Items(network, Origin(stationA)))
    BY <1>3, <2>2, OriginOk, WalkEnd DEF IsCandidate
  <2>4. /\ fastestPaths' \in Seq(Seq(Items(network, Origin(stationA)))) /\ fastestPaths' # <<>>
        /\ Len(fastestPaths') = Len(fastestPaths) + 1
        /\ fastestPaths'[1] = fastestPaths[1]
        /\ Range(fastestPaths') = Range(fastestPaths) \cup {path}
        /\ IsInjective(fastestPaths')
    <3> DEFINE S == Seq(Items(network, Origin(stationA)))
    <3>1. fastestPaths \in Seq(S) /\ path \in S /\ IsInjective(fastestPaths)
      BY <1>1, <2>3 DEF Inv
    <3> HIDE DEF S
    <3>2. /\ Append(fastestPaths, path) \in Seq(S) /\ Append(fastestPaths, path) # <<>>
          /\ Len(Append(fastestPaths, path)) = Len(fastestPaths) + 1
          /\ fastestPaths # <<>> => Append(fastestPaths, path)[1] = fastestPaths[1]
          /\ Range(Append(fastestPaths, path)) = Range(fastestPaths) \cup {path}
          /\ path \notin Range(fastestPaths) => IsInjective(Append(fastestPaths, path))
      BY <3>1, AppendFacts
    <3> QED  BY <1>1, <2>1, <2>2, <3>2 DEF S
  <2>5. Len(fastestPaths) \in Nat
    BY <1>1
  <2>6. idx' \in Nat /\ idx' >= 1 /\ pc' \in {"spur", "pick"}
    BY <1>1, <2>1
  <2>7. Len(fastestPaths') <= maxNPaths'
    BY <1>1, <1>2, <1>3, <2>4, <2>5
  <2>8. Control'
    BY <1>1, <1>2, <2>1, <2>4, <2>6, <2>7 DEF Control
  <2>9. Candidates'
    BY <1>2, <2>1, <2>2, <2>4 DEF Inv, Candidates
  <2>10. FirstIsFastest'
    BY <1>1, <1>2, <2>4 DEF Inv, FirstIsFastest
  <2>11. \A p \in Range(fastestPaths') : TravelTime(p) <= MaxTravelTime'
    <3>1. MaxTravelTime' = MaxTravelTime
      BY <1>1, <2>4, SameProblem DEF MaxTravelTime
    <3> QED  BY <2>2, <2>4, <3>1 DEF Inv
  <2> QED  BY <2>4, <2>6, <2>8, <2>9, <2>10, <2>11 DEF Inv, DetourIsWorthIt
<1> QED  BY <1>4, <1>5

(* The least crowded of the paths within the threshold, if it is less      *)
(* crowded than the first, keeps both promises.                            *)
LEMMA ChoiceIsWorthIt ==
    ASSUME Inv, PickQuietest,
           \A p \in Range(fastestPaths) : Passengers(p) \in 0 .. UnsignedMod - 1
    PROVE  LET first == Passengers(fastestPaths[1])
               allowed == first * (100 - minQuietnessPc)
               promised(p) == 100 * Passengers(p) <= allowed
               refused(p) ==
                    100 * Passengers(p) = allowed /\ <<first, 100 - minQuietnessPc>> \in Shorts
           IN  /\ answer' \in Range(fastestPaths)
               /\ answer' # fastestPaths[1] => promised(answer')
               /\ \A p \in Range(fastestPaths) :
                     promised(p) /\ ~refused(p) => Passengers(answer') <= Passengers(p)
<1> DEFINE n == Len(fastestPaths)
           c(i) == Passengers(fastestPaths[i])
           bound == c(1) * (100 - minQuietnessPc)
           short == <<c(1), 100 - minQuietnessPc>> \in Shorts
           within(i) == 100 * c(i) <= bound /\ ~(100 * c(i) = bound /\ short)
           crowding(i) == PathCrowding(fastestPaths[i])
           quiet == {i \in 2 .. n : crowding(i) <= MaxCrowding /\ crowding(i) < crowding(1)}
<1>1. /\ n \in Nat /\ n >= 1 /\ 1 \in 1 .. n /\ DOMAIN fastestPaths = 1 .. n
  <2>1. fastestPaths \in Seq(Seq(Items(network, Origin(stationA)))) /\ fastestPaths # <<>>
    BY DEF Inv, Control, Candidates, PickQuietest
  <2> QED  BY <2>1
<1>2. \A i \in 1 .. n : fastestPaths[i] \in Range(fastestPaths)
  BY <1>1 DEF Range
<1>3. \A p \in Range(fastestPaths) : \E i \in 1 .. n : p = fastestPaths[i]
  BY <1>1 DEF Range
<1>4. ASSUME NEW i \in 1 .. n PROVE c(i) \in Nat /\ crowding(i) = c(i)
  <2>1. Passengers(fastestPaths[i]) \in 0 .. UnsignedMod - 1
    BY <1>2
  <2>2. \A x \in 0 .. UnsignedMod - 1 : x \in Nat /\ x % UnsignedMod = x
    BY ParametersAssumption
  <2> QED  BY <2>1, <2>2 DEF PathCrowding
<1>5. ASSUME NEW i \in 1 .. n PROVE c(i) <= MaxCrowding <=> within(i)
  <2>1. c(i) \in Nat /\ c(1) \in Nat /\ crowding(1) = c(1)
    BY <1>1, <1>4
  <2>2. 100 - minQuietnessPc \in Nat
    BY NetworkIsOk DEF Inv, Control
  <2>3. MaxCrowding = Truncated(c(1), 100 - minQuietnessPc)
    BY <2>1 DEF MaxCrowding
  <2> HIDE DEF c
  <2> QED  BY <2>1, <2>2, <2>3, TruncatedIsExact
<1>6. \A i \in 2 .. n : i \in 1 .. n
  OBVIOUS
<1>7. \A i \in 1 .. n : i = 1 \/ i \in 2 .. n
  BY <1>1
<1>8. \/ quiet = {} /\ answer' = fastestPaths[1]
      \/ \E i \in quiet :
            /\ \A j \in quiet : crowding(i) < crowding(j) \/ (crowding(i) = crowding(j) /\ i <= j)
            /\ answer' = fastestPaths[i]
  BY DEF PickQuietest
<1>9. /\ \A i \in quiet : i \in 1 .. n /\ within(i) /\ c(i) < c(1)
      /\ \A i \in 1 .. n : within(i) => i = 1 \/ i \in quiet \/ ~(c(i) < c(1))
  <2>1. \A i \in 1 .. n : i = 1 \/ (i \in quiet <=> c(i) <= MaxCrowding /\ c(i) < c(1))
    BY <1>1, <1>4, <1>7
  <2>2. \A i \in quiet : i \in 1 .. n /\ c(i) <= MaxCrowding /\ c(i) < c(1)
    BY <1>1, <1>4, <1>6
  <2> HIDE DEF quiet, c, within
  <2> QED  BY <1>5, <2>1, <2>2
<1>10. \A i, j \in 1 .. n : crowding(i) = c(i) /\ c(i) \in Int /\ c(j) \in Int
  BY <1>4
<1>11. PICK i \in 1 .. n :
          /\ answer' = fastestPaths[i]
          /\ i = 1 \/ within(i)
          /\ \A j \in 1 .. n : within(j) => c(i) <= c(j)
  <2> HIDE DEF quiet, c, within, crowding
  <2>1. CASE quiet = {} /\ answer' = fastestPaths[1]
    <3>1. \A j \in 1 .. n : within(j) => c(1) <= c(j)
      BY <1>1, <1>9, <1>10, <2>1
    <3> QED  BY <1>1, <2>1, <3>1
  <2>2. ASSUME NEW i \in quiet, answer' = fastestPaths[i],
               \A j \in quiet : crowding(i) < crowding(j) \/ (crowding(i) = crowding(j) /\ i <= j)
        PROVE  /\ i \in 1 .. n /\ within(i)
               /\ \A j \in 1 .. n : within(j) => c(i) <= c(j)
    <3>1. i \in 1 .. n /\ within(i) /\ c(i) < c(1)
      BY <1>9
    <3>2. ASSUME NEW j \in 1 .. n, within(j) PROVE c(i) <= c(j)
      <4>1. CASE j \in quiet
        BY <1>10, <2>2, <3>1, <4>1
      <4>2. CASE j = 1 \/ ~(c(j) < c(1))
        BY <1>1, <1>10, <3>1, <4>2
      <4> QED  BY <1>9, <3>2, <4>1, <4>2
    <3> QED  BY <3>1, <3>2
  <2> QED  BY <1>8, <2>1, <2>2
<1> QED  BY <1>2, <1>3, <1>11

LEMMA PickQuietestKeepsInv == Inv /\ PickQuietest => Inv'
<1> SUFFICES ASSUME Inv, PickQuietest PROVE Inv'
  OBVIOUS
<1>1. /\ pc' = "done" /\ UNCHANGED <<problem, fastestPaths, potentialPaths, idx>>
      /\ fastestPaths # <<>>
  BY DEF PickQuietest, Inv, Control
<1>2. /\ network' = network /\ stationA' = stationA /\ stationB' = stationB
      /\ maxNPaths' = maxNPaths /\ \A p : IsCandidate(p)' = IsCandidate(p)
      /\ \A p : Passengers(p)' = Passengers(p)
      /\ maxSlowdownPc' = maxSlowdownPc /\ minQuietnessPc' = minQuietnessPc
  BY <1>1, SameProblem
<1>3. Control'
  BY <1>1, <1>2 DEF Inv, Control
<1>4. Candidates' /\ FirstIsFastest'
  BY <1>1, <1>2 DEF Inv, Candidates, FirstIsFastest
<1>5. DetourIsWorthIt'
  <2>1. SUFFICES ASSUME \A p \in Range(fastestPaths) : Passengers(p) \in 0 .. UnsignedMod - 1
                 PROVE  DetourIsWorthIt'
    BY <1>1, <1>2 DEF DetourIsWorthIt
  <2> QED  BY <1>1, <1>2, <2>1, ChoiceIsWorthIt DEF DetourIsWorthIt
<1> QED  BY <1>1, <1>2, <1>3, <1>4, <1>5 DEF Inv, MaxTravelTime

LEMMA StutterKeepsInv == Inv /\ UNCHANGED vars => Inv'
<1> SUFFICES ASSUME Inv, UNCHANGED vars PROVE Inv'
  OBVIOUS
<1>1. UNCHANGED <<problem, fastestPaths, potentialPaths, idx, answer, pc>>
  BY DEF vars
<1>2. /\ network' = network /\ stationA' = stationA /\ stationB' = stationB
      /\ maxNPaths' = maxNPaths /\ \A p : IsCandidate(p)' = IsCandidate(p)
      /\ \A p : Passengers(p)' = Passengers(p)
      /\ maxSlowdownPc' = maxSlowdownPc /\ minQuietnessPc' = minQuietnessPc
  BY <1>1, SameProblem
<1>3. Control' /\ Candidates' /\ FirstIsFastest'
  BY <1>1, <1>2 DEF Inv, Control, Candidates, FirstIsFastest
<1> QED  BY <1>1, <1>2, <1>3 DEF Inv, MaxTravelTime, DetourIsWorthIt

(* Between two spur searches of GetFastestTravelRoutes every path found or *)
(* waiting is a walk from A to B within what the spur index allows, and    *)
(* the first is a fastest one.                                             *)
THEOREM QuietInvariant == Spec => []Inv
<1>1. Inv /\ [Next]_vars => Inv'
  BY FindFastestKeepsInv, SameStationKeepsInv, SpurKeepsInv, SelectKeepsInv,
     PickQuietestKeepsInv, StutterKeepsInv DEF Next
<1> QED  BY InitInv, <1>1, PTL DEF Spec

-----------------------------------------------------------------------------
(* Every path found or waiting is a whole journey from A to B: root path   *)
(* and spur path of GetFastestTravelRoutes fit, the penalty for changing   *)
(* routes at the spur node included.                                       *)
THEOREM PathsStayJourneys == Spec => []PathsAreJourneys
<1>1. Inv => PathsAreJourneys
  <2> SUFFICES ASSUME Inv, NEW path \in Range(fastestPaths) \cup potentialPaths
               PROVE  /\ IsJourney(network, path) /\ path[1] = Origin(stationA)
                      /\ Last(path).stop.node = stationB
    BY DEF PathsAreJourneys
  <2>1. IsCandidate(path) /\ EdgeOk(network)
    BY NetworkIsOk DEF Inv, Candidates, Control
  <2>2. path # <<>>
    BY <2>1, OriginOk, WalkEnd DEF IsCandidate
  <2>3. /\ path[1] = Origin(stationA) /\ Last(path).stop.node = stationB
        /\ \A i \in 1 .. Len(path) - 1 :
              \E e \in Ways(network, path[i].stop, {}) : path[i + 1] = Follow(path[i], e)
    BY <2>1 DEF IsCandidate, IsWalk
  <2>4. IsJourney(network, path)
    BY <2>2, <2>3 DEF IsJourney, Ways
  <2> QED  BY <2>3, <2>4
<1> QED  BY <1>1, QuietInvariant, PTL

(* GetFastestTravelRoutes returns each path once, no more than maxNPaths,  *)
(* none faster than the first and none beyond the slowdown allowed.        *)
THEOREM PathsStayWithinLimit == Spec => []PathsWithinLimit
<1>1. Inv => PathsWithinLimit
  <2> SUFFICES ASSUME Inv, NEW path \in Range(fastestPaths)
               PROVE  /\ TravelTime(fastestPaths[1]) <= TravelTime(path)
                      /\ 100 * TravelTime(path) <=
                            TravelTime(fastestPaths[1]) * (100 + maxSlowdownPc)
    BY DEF PathsWithinLimit, Inv, Control
  <2>1. fastestPaths # <<>> /\ fastestPaths[1] \in Range(fastestPaths)
    <3>1. fastestPaths \in Seq(Seq(Items(network, Origin(stationA)))) /\ fastestPaths # <<>>
      BY DEF Range, Inv, Candidates
    <3> QED  BY <3>1 DEF Range
  <2>2. TravelTime(fastestPaths[1]) \in Nat /\ TravelTime(path) \in Nat
    <3>1. IsCandidate(fastestPaths[1]) /\ IsCandidate(path) /\ EdgeOk(network)
      BY <2>1, NetworkIsOk DEF Inv, Candidates, Control
    <3> QED  BY <3>1, OriginOk, WalkEnd DEF IsCandidate
  <2>3. 100 + maxSlowdownPc \in Nat
    <3>1. maxSlowdownPc \in Nat
      BY NetworkIsOk DEF Inv, Control
    <3> QED  BY <3>1
  <2>4. TravelTime(path) <= Truncated(TravelTime(fastestPaths[1]), 100 + maxSlowdownPc)
    BY DEF Inv, MaxTravelTime
  <2> QED  BY <2>1, <2>2, <2>3, <2>4, TruncatedIsExact DEF Inv, Candidates, FirstIsFastest
<1> QED  BY <1>1, QuietInvariant, PTL

(* GetQuietTravelRoute answers with the fastest path or with one that is   *)
(* quieter by the percentage asked for, and no other that is as much       *)
(* quieter is quieter still, whenever the sums of passengers fit an        *)
(* unsigned int; but one with exactly the crowding that is allowed may be  *)
(* refused, the limit being a truncated double.                            *)
THEOREM DetoursAreWorthIt == Spec => []DetourIsWorthIt
<1>1. Inv => DetourIsWorthIt
  BY DEF Inv
<1> QED  BY <1>1, QuietInvariant, PTL
-----------------------------------------------------------------------------
(* What GetFastestTravelRoutes asks of GetFastestTravelRoute.              *)
SearchesAreLegal ==
    /\ pc = "start" => SearchOk(network, Origin(stationA), stationB, {})
    /\ pc = "spur" =>
        /\ idx < Len(Last(fastestPaths))
        /\ Last(fastestPaths)[idx].stop.node # stationB
        /\ SearchOk(network, Last(fastestPaths)[idx], stationB, RemovedStops)

(* There is a spur node before the end of the last path found.             *)
LastIsLong == fastestPaths # <<>> => Last(fastestPaths) \in Range(fastestPaths) /\ Len(Last(fastestPaths)) > 1

SpursInside ==
    /\ pc = "start" => idx = 1
    /\ pc = "spur" => idx < Len(Last(fastestPaths))

LEMMA CandidatesAreLong == Inv => LastIsLong
<1> SUFFICES ASSUME Inv, fastestPaths # <<>>
             PROVE  Last(fastestPaths) \in Range(fastestPaths) /\ Len(Last(fastestPaths)) > 1
  BY DEF LastIsLong
<1>0. PICK last : last = Last(fastestPaths)
  OBVIOUS
<1>1. last \in Range(fastestPaths)
  <2>1. fastestPaths \in Seq(Seq(Items(network, Origin(stationA))))
    BY DEF Inv, Candidates
  <2>2. Len(fastestPaths) \in 1 .. Len(fastestPaths) /\ DOMAIN fastestPaths = 1 .. Len(fastestPaths)
    BY <2>1
  <2> QED  BY <1>0, <2>2 DEF Last, Range
<1>2. IsCandidate(last) /\ EdgeOk(network) /\ stationA # stationB
  BY <1>1, NetworkIsOk DEF Inv, Candidates, Control
<1>3. Len(last) \in Nat /\ Len(last) >= 1 /\ Last(last) = last[Len(last)]
  BY <1>2, OriginOk, WalkEnd DEF IsCandidate
<1>4. last[1].stop.node = stationA /\ last[Len(last)].stop.node = stationB
  BY <1>2, <1>3, OriginOk DEF IsCandidate, IsWalk
<1>5. Len(last) # 1
  BY <1>2, <1>4
<1>6. Len(last) > 1
  <2>1. \A n \in Nat : n >= 1 /\ n # 1 => n > 1
    OBVIOUS
  <2> QED  BY <1>3, <1>5, <2>1
<1> QED  BY <1>0, <1>1, <1>6

LEMMA SpursStayInside == Inv /\ SpursInside /\ LastIsLong' /\ [Next]_vars => SpursInside'
<1> SUFFICES ASSUME Inv, SpursInside, LastIsLong', [Next]_vars PROVE SpursInside'
  OBVIOUS
<1>1. CASE FindFastest
  <2>1. pc = "start" /\ idx' = idx /\ pc' # "start" /\ (pc' = "spur" => fastestPaths' # <<>>)
    BY <1>1 DEF FindFastest
  <2>2. pc' = "spur" => Len(Last(fastestPaths')) > 1
    BY <2>1 DEF LastIsLong
  <2> QED  BY <2>1, <2>2 DEF SpursInside
<1>2. CASE SameStation
  BY <1>2 DEF SameStation, SpursInside
<1>3. CASE Spur
  BY <1>3 DEF Spur, SpursInside
<1>4. CASE Select
  <2>1. /\ pc = "select" /\ idx' = 1 /\ pc' # "start"
        /\ UNCHANGED fastestPaths \/ \E path \in NewPaths : fastestPaths' = Append(fastestPaths, path)
    BY <1>4 DEF Select
  <2>2. fastestPaths # <<>> /\ fastestPaths \in Seq(Seq(Items(network, Origin(stationA))))
    BY <2>1 DEF Inv, Control, Candidates
  <2>3. fastestPaths' # <<>>
    <3>1. ASSUME NEW path PROVE Append(fastestPaths, path) # <<>>
      BY <2>2
    <3> QED  BY <2>1, <2>2, <3>1
  <2>4. Len(Last(fastestPaths')) > 1
    BY <2>3 DEF LastIsLong
  <2> QED  BY <2>1, <2>4 DEF SpursInside
<1>5. CASE PickQuietest
  BY <1>5 DEF PickQuietest, SpursInside
<1>6. CASE UNCHANGED vars
  BY <1>6 DEF vars, SpursInside
<1> QED  BY <1>1, <1>2, <1>3, <1>4, <1>5, <1>6 DEF Next

(* A stop of a path that is not its last one, and the one after it.        *)
LEMMA StopOfCandidate ==
    ASSUME Inv, NEW p, IsCandidate(p), NEW i \in 1 .. Len(p) - 1
    PROVE  /\ p[i].stop.node # stationB /\ SearchOk(network, p[i], stationB, {})
           /\ p[i + 1].stop \in {Stop(e.to, e) : e \in network}
<1> DEFINE start == Origin(stationA)
<1>1. /\ EdgeOk(network) /\ StartOk(start) /\ start = Origin(start.stop.node)
      /\ IsWalk(network, start, stationB, {}, p)
  BY NetworkIsOk, OriginOk DEF Inv, Control, IsCandidate
<1> HIDE DEF start
<1>2. /\ p[i].stop.node # stationB /\ p[i].dist \in Nat
      /\ p[i + 1].stop.edge \in network
      /\ p[i + 1].stop = Stop(p[i + 1].stop.edge.to, p[i + 1].stop.edge)
  BY <1>1, WalkSteps DEF IsStep
<1>3. p[i] \in Items(network, start)
  <2>1. p \in Seq(Items(network, start)) /\ Len(p) \in Nat
    BY <1>1, WalkEnd
  <2>2. i \in 1 .. Len(p)
    BY <2>1
  <2> QED  BY <2>1, <2>2
<1>4. CASE p[i] = start
  BY <1>1, <1>2, <1>4 DEF SearchOk
<1>5. CASE p[i] # start
  <2>1. PICK e \in network, d \in Nat : p[i] = At(Stop(e.to, e), d)
    BY <1>3, <1>5 DEF Items
  <2>2. e.to # stationB /\ p[i].dist = d
    BY <1>2, <2>1 DEF At, Stop
  <2> QED  BY <1>2, <2>1, <2>2 DEF SearchOk
<1> QED  BY <1>2, <1>4, <1>5

(* GetFastestTravelRoutes asks GetFastestTravelRoute only what the proofs  *)
(* of FastestRoute are about (SearchesAssumption): it goes on from the     *)
(* origin or from a stop on a path before station B, with the distance so  *)
(* far, and excludes stops that edges lead to.  By FastestIsBest, then,    *)
(* each of its searches ends with one of the results taken here.           *)
THEOREM SearchesStayLegal == Spec => []SearchesAreLegal
<1>1. Init => SpursInside
  BY DEF Init, SpursInside
<1>2. Inv /\ SpursInside => SearchesAreLegal
  <2> SUFFICES ASSUME Inv, SpursInside PROVE SearchesAreLegal
    OBVIOUS
  <2>1. SearchOk(network, Origin(stationA), stationB, {})
    BY DEF SearchOk, Origin, At, Stop
  <2>2. ASSUME pc = "spur"
        PROVE  /\ idx < Len(Last(fastestPaths)) /\ Last(fastestPaths)[idx].stop.node # stationB
               /\ SearchOk(network, Last(fastestPaths)[idx], stationB, RemovedStops)
    <3> DEFINE last == Last(fastestPaths)
    <3>1. idx < Len(last) /\ idx \in Nat /\ idx >= 1 /\ fastestPaths # <<>>
      BY <2>2 DEF SpursInside, Inv, Control
    <3>2. last \in Range(fastestPaths)
      BY <3>1, CandidatesAreLong DEF LastIsLong
    <3>3. ASSUME NEW p \in Range(fastestPaths), idx < Len(p)
          PROVE  IsCandidate(p) /\ idx \in 1 .. Len(p) - 1
      <4>1. IsCandidate(p) /\ EdgeOk(network)
        BY NetworkIsOk DEF Inv, Candidates, Control
      <4>2. Len(p) \in Nat
        BY <4>1, OriginOk, WalkEnd DEF IsCandidate
      <4> QED  BY <3>1, <3>3, <4>1, <4>2
    <3> HIDE DEF last
    <3>4. last[idx].stop.node # stationB /\ SearchOk(network, last[idx], stationB, {})
      BY <3>1, <3>2, <3>3, StopOfCandidate
    <3>5. RemovedStops \subseteq {Stop(e.to, e) : e \in network}
      <4>1. ASSUME NEW p \in Range(fastestPaths), idx < Len(p)
            PROVE  p[idx + 1].stop \in {Stop(e.to, e) : e \in network}
        BY <3>3, <4>1, StopOfCandidate
      <4> QED  BY <4>1 DEF RemovedStops
    <3>6. SearchOk(network, last[idx], stationB, RemovedStops)
      BY <3>4, <3>5 DEF SearchOk
    <3> QED  BY <3>1, <3>4, <3>6 DEF last
  <2> QED  BY <2>1, <2>2 DEF SearchesAreLegal
<1>3. Spec => []Inv /\ []LastIsLong
  BY QuietInvariant, CandidatesAreLong, PTL
<1> QED  BY <1>1, <1>2, <1>3, SpursStayInside, PTL DEF Spec
=============================================================================
