---------------------------- MODULE JourneyProofs ----------------------------
(***************************************************************************)
(* Lemmas about the operators of Journeys: induction over naturals, what   *)
(* the enumeration SimpleJourneys contains, and what it costs a journey to *)
(* come back to a station.                                                 *)
(***************************************************************************)
EXTENDS Journeys, WellFoundedInduction, FiniteSetTheorems,
        SequenceTheorems, TLAPS

(* Induction over the naturals, for a set of them.                         *)
LEMMA SetInduction ==
    ASSUME NEW S \in SUBSET Nat, 0 \in S, \A n \in S : n + 1 \in S
    PROVE  S = Nat
<1> DEFINE T == Nat \ S
           R == OpToRel(<, Nat)
<1>1. IsWellFoundedOn(R, Nat)
  BY NatLessThanWellFounded
<1>2. SUFFICES ASSUME T # {} PROVE FALSE
  OBVIOUS
<1>3. \A x, y \in Nat : x < y => <<x, y>> \in R
  BY DEF OpToRel
<1> HIDE DEF R
<1>4. PICK x \in T : \A y \in T : ~(<<y, x>> \in R)
  BY <1>1, <1>2, WFMin
<1>5. x # 0 /\ x - 1 \in Nat
  BY <1>4
<1>6. x - 1 \in S
  <2>1. <<x - 1, x>> \in R
    BY <1>3, <1>4, <1>5
  <2> QED  BY <1>4, <1>5, <2>1
<1>7. (x - 1) + 1 \in S
  BY <1>6
<1> QED  BY <1>4, <1>5, <1>7

(* The same on an interval.                                                *)
LEMMA IntervalInduction ==
    ASSUME NEW a \in Int, NEW b \in Int, NEW S \in SUBSET (a .. b),
           a <= b => a \in S,
           \A n \in S : n < b => n + 1 \in S
    PROVE  S = a .. b
<1> DEFINE T == {n \in Nat : a + n \in a .. b => a + n \in S}
<1>1. 0 \in T
  OBVIOUS
<1>2. ASSUME NEW n \in T PROVE n + 1 \in T
  <2>1. SUFFICES ASSUME a + (n + 1) \in a .. b PROVE a + (n + 1) \in S
    OBVIOUS
  <2>2. a + n \in S /\ a + n < b
    BY <2>1
  <2>3. (a + n) + 1 \in S
    BY <2>2
  <2>4. (a + n) + 1 = a + (n + 1)
    OBVIOUS
  <2> QED  BY <2>3, <2>4
<1>3. T = Nat
  BY <1>1, <1>2, SetInduction
<1>4. ASSUME NEW n \in a .. b PROVE n \in S
  <2>1. n - a \in Nat /\ a + (n - a) = n
    OBVIOUS
  <2>2. n - a \in T
    BY <1>3, <2>1
  <2> QED  BY <2>1, <2>2
<1> QED  BY <1>4

LEMMA SingletonSequence ==
    ASSUME NEW S, NEW s \in Seq(S), Len(s) = 1
    PROVE  s = <<s[1]>>
OBVIOUS

(* A ride takes the time of its edge and at most the penalty for a change  *)
(* more.                                                                   *)
LEMMA RideFacts ==
    ASSUME NEW stop, NEW e, e.time \in Nat
    PROVE  /\ Ride(stop, e) \in Nat /\ Ride(stop, e) >= e.time
           /\ Ride(stop, e) <= e.time + RouteChangePenalty
BY DEF Ride, RouteChangePenalty

-----------------------------------------------------------------------------
(* The equation that defines the paths of each length.                     *)
LEMMA ByLengthEquation ==
    ASSUME NEW E, NEW start, NEW station, NEW excludedStops,
           Cardinality(StationsOf(E)) \in Nat
    PROVE  ByLength(E, start, station, excludedStops) =
            [n \in Lengths(E) |->
                IF n = 1
                THEN {<<start>>}
                ELSE UNION {Longer(E, p, station, excludedStops) :
                        p \in ByLength(E, start, station, excludedStops)[n - 1]}]
<1> DEFINE more(paths) == UNION {Longer(E, p, station, excludedStops) : p \in paths}
           IsByLength(f, k) == f = [n \in 1 .. k |-> IF n = 1 THEN {<<start>>} ELSE more(f[n - 1])]
           T == {k \in Nat : \E f : IsByLength(f, k)}
<1> HIDE DEF more
<1>1. 0 \in T
  <2>1. IsByLength([n \in 1 .. 0 |-> {}], 0)
    OBVIOUS
  <2> QED  BY <2>1
<1>2. ASSUME NEW k \in T PROVE k + 1 \in T
  <2>1. PICK f : IsByLength(f, k)
    OBVIOUS
  <2> DEFINE g == [n \in 1 .. k + 1 |->
                    IF n <= k THEN f[n] ELSE IF n = 1 THEN {<<start>>} ELSE more(f[k])]
  <2>2. /\ g = [n \in 1 .. k + 1 |-> g[n]]
        /\ \A n \in 1 .. k : g[n] = f[n]
        /\ g[k + 1] = IF k + 1 = 1 THEN {<<start>>} ELSE more(f[k])
    OBVIOUS
  <2> HIDE DEF g
  <2>3. ASSUME NEW n \in 1 .. k + 1
        PROVE  g[n] = IF n = 1 THEN {<<start>>} ELSE more(g[n - 1])
    <3>1. CASE n = k + 1
      <4>1. n = 1 \/ g[n - 1] = f[k]
        <5>1. n - 1 = k /\ (n = 1 \/ k \in 1 .. k)
          BY <3>1
        <5> QED  BY <2>2, <5>1
      <4> QED  BY <2>2, <3>1, <4>1
    <3>2. CASE n \in 1 .. k
      <4>1. n = 1 \/ g[n - 1] = f[n - 1]
        <5>1. n = 1 \/ n - 1 \in 1 .. k
          BY <3>2
        <5> QED  BY <2>2, <5>1
      <4>2. g[n] = f[n] /\ f[n] = IF n = 1 THEN {<<start>>} ELSE more(f[n - 1])
        BY <2>1, <2>2, <3>2
      <4> QED  BY <4>1, <4>2
    <3> QED  BY <3>1, <3>2
  <2>4. IsByLength(g, k + 1)
    BY <2>2, <2>3
  <2>5. k + 1 \in Nat
    OBVIOUS
  <2> HIDE DEF IsByLength
  <2> QED  BY <2>4, <2>5
<1>3. T = Nat
  BY <1>1, <1>2, SetInduction
<1>4. \E f : IsByLength(f, Cardinality(StationsOf(E)) + 1)
  <2>1. Cardinality(StationsOf(E)) + 1 \in Nat
    OBVIOUS
  <2>2. Cardinality(StationsOf(E)) + 1 \in T
    <3> HIDE DEF T
    <3> QED  BY <1>3, <2>1
  <2> QED  BY <2>2
<1> DEFINE F == ByLength(E, start, station, excludedStops)
<1>5. F = CHOOSE f : IsByLength(f, Cardinality(StationsOf(E)) + 1)
  BY DEF ByLength, Lengths, more
<1>6. IsByLength(F, Cardinality(StationsOf(E)) + 1)
  BY <1>4, <1>5
<1> QED  BY <1>6 DEF Lengths, more

LEMMA LengthOne ==
    ASSUME NEW E, NEW start, NEW station, NEW excludedStops,
           Cardinality(StationsOf(E)) \in Nat
    PROVE  /\ 1 \in Lengths(E)
           /\ ByLength(E, start, station, excludedStops)[1] = {<<start>>}
<1>1. 1 \in Lengths(E)
  BY DEF Lengths
<1> QED  BY <1>1, ByLengthEquation

LEMMA LengthMore ==
    ASSUME NEW E, NEW start, NEW station, NEW excludedStops,
           Cardinality(StationsOf(E)) \in Nat,
           NEW n \in Lengths(E), n + 1 \in Lengths(E)
    PROVE  ByLength(E, start, station, excludedStops)[n + 1] =
            UNION {Longer(E, p, station, excludedStops) :
                        p \in ByLength(E, start, station, excludedStops)[n]}
<1>1. n + 1 # 1 /\ (n + 1) - 1 = n
  BY DEF Lengths
<1> HIDE DEF Lengths
<1> QED  BY <1>1, ByLengthEquation

-----------------------------------------------------------------------------
(* A walk follows ways from its start and stops at the station.            *)
Items(E, start) == {At(Stop(e.to, e), d) : e \in E, d \in Nat} \cup {start}

IsWalk(E, start, station, excludedStops, p) ==
    /\ p \in Seq(Items(E, start))
    /\ Len(p) >= 1
    /\ p[1] = start
    /\ \A i \in 1 .. Len(p) - 1 :
        /\ p[i].stop.node # station
        /\ \E e \in Ways(E, p[i].stop, excludedStops) : p[i + 1] = Follow(p[i], e)

NoRepeat(p) == \A i, k \in 1 .. Len(p) : i < k => p[i].stop.node # p[k].stop.node

StartOk(start) == start = At(start.stop, start.dist) /\ start.dist \in Nat

LEMMA RideNat ==
    ASSUME NEW s, NEW e, e.time \in Nat
    PROVE  Ride(s, e) \in Nat
BY DEF Ride, RouteChangePenalty

LEMMA ItemFacts ==
    ASSUME NEW E, EdgeOk(E), NEW start, StartOk(start),
           NEW x \in Items(E, start), NEW e \in E
    PROVE  /\ x.dist \in Nat
           /\ x = At(x.stop, x.dist)
           /\ Ride(x.stop, e) \in Nat
           /\ Follow(x, e) \in Items(E, start)
           /\ Follow(x, e).stop = Stop(e.to, e)
           /\ Follow(x, e).stop.node = e.to
           /\ Follow(x, e).stop.edge = e
           /\ Follow(x, e).dist = x.dist + Ride(x.stop, e)
<1>1. x.dist \in Nat /\ x = At(x.stop, x.dist)
  BY DEF Items, StartOk, At
<1>2. Ride(x.stop, e) \in Nat
  BY RideNat DEF EdgeOk
<1>3. x.dist + Ride(x.stop, e) \in Nat
  BY <1>1, <1>2
<1>4. Follow(x, e) \in Items(E, start)
  BY <1>3 DEF Follow, Items
<1> QED  BY <1>1, <1>2, <1>4 DEF Follow, At, Stop

(* A walk with one more step, and a walk without its last step.            *)
LEMMA WalkAppend ==
    ASSUME NEW E, EdgeOk(E), NEW start, StartOk(start), NEW station, NEW excludedStops,
           NEW p, IsWalk(E, start, station, excludedStops, p),
           Last(p).stop.node # station,
           NEW e \in Ways(E, Last(p).stop, excludedStops)
    PROVE  /\ IsWalk(E, start, station, excludedStops, Append(p, Follow(Last(p), e)))
           /\ Len(Append(p, Follow(Last(p), e))) = Len(p) + 1
<1> DEFINE q == Append(p, Follow(Last(p), e))
<1>1. p \in Seq(Items(E, start)) /\ Len(p) \in Nat /\ Len(p) >= 1 /\ Last(p) = p[Len(p)]
  BY DEF IsWalk, Last
<1>2. Last(p) \in Items(E, start) /\ e \in E
  BY <1>1 DEF Ways
<1>3. Follow(Last(p), e) \in Items(E, start)
  BY <1>2, ItemFacts
<1>4. /\ q \in Seq(Items(E, start)) /\ Len(q) = Len(p) + 1
      /\ \A i \in 1 .. Len(p) : q[i] = p[i]
      /\ q[Len(p) + 1] = Follow(Last(p), e)
  BY <1>1, <1>3
<1> HIDE DEF q
<1>5. q[1] = start
  BY <1>1, <1>4 DEF IsWalk
<1>6. ASSUME NEW i \in 1 .. Len(q) - 1
      PROVE  /\ q[i].stop.node # station
             /\ \E w \in Ways(E, q[i].stop, excludedStops) : q[i + 1] = Follow(q[i], w)
  <2>1. CASE i = Len(p)
    BY <1>1, <1>4, <2>1
  <2>2. CASE i \in 1 .. Len(p) - 1
    <3>1. q[i] = p[i] /\ q[i + 1] = p[i + 1]
      BY <1>1, <1>4, <2>2
    <3> QED  BY <2>2, <3>1 DEF IsWalk
  <2> QED  BY <1>1, <1>4, <2>1, <2>2
<1>7. IsWalk(E, start, station, excludedStops, q)
  BY <1>1, <1>4, <1>5, <1>6 DEF IsWalk
<1> QED  BY <1>4, <1>7 DEF q

LEMMA WalkPrefix ==
    ASSUME NEW E, NEW start, NEW station, NEW excludedStops,
           NEW p, IsWalk(E, start, station, excludedStops, p),
           NEW n \in 1 .. Len(p)
    PROVE  /\ IsWalk(E, start, station, excludedStops, SubSeq(p, 1, n))
           /\ Len(SubSeq(p, 1, n)) = n
           /\ \A i \in 1 .. n : SubSeq(p, 1, n)[i] = p[i]
           /\ Last(SubSeq(p, 1, n)) = p[n]
           /\ n < Len(p) => SubSeq(p, 1, n + 1) = Append(SubSeq(p, 1, n), p[n + 1])
<1> DEFINE q == SubSeq(p, 1, n)
<1>1. p \in Seq(Items(E, start)) /\ Len(p) \in Nat /\ Len(p) >= 1
  BY DEF IsWalk
<1>2. /\ q \in Seq(Items(E, start)) /\ Len(q) = n
      /\ \A i \in 1 .. n : q[i] = p[i]
  BY <1>1
<1>3. n < Len(p) => SubSeq(p, 1, n + 1) = Append(SubSeq(p, 1, n), p[n + 1])
  BY <1>1
<1> HIDE DEF q
<1>4. \A i \in 1 .. n - 1 : i \in 1 .. Len(p) - 1 /\ q[i] = p[i] /\ q[i + 1] = p[i + 1]
  BY <1>1, <1>2
<1>5. q[1] = p[1]
  BY <1>2
<1>6. IsWalk(E, start, station, excludedStops, q)
  <2>1. ASSUME NEW i \in 1 .. n - 1
        PROVE  /\ q[i].stop.node # station
               /\ \E e \in Ways(E, q[i].stop, excludedStops) : q[i + 1] = Follow(q[i], e)
    BY <1>4, <2>1 DEF IsWalk
  <2>2. Len(q) - 1 = n - 1 /\ Len(q) >= 1
    BY <1>2
  <2> QED  BY <1>2, <1>5, <2>1, <2>2 DEF IsWalk
<1>7. Last(q) = p[n]
  BY <1>2 DEF Last
<1> QED  BY <1>2, <1>3, <1>6, <1>7 DEF q

LEMMA WalkOne ==
    ASSUME NEW E, NEW start, NEW station, NEW excludedStops
    PROVE  IsWalk(E, start, station, excludedStops, <<start>>)
BY DEF IsWalk, Items

-----------------------------------------------------------------------------
(* What is enumerated are walks, each under its length.                    *)
LEMMA MembersAreWalks ==
    ASSUME NEW E, EdgeOk(E), NEW start, StartOk(start), NEW station, NEW excludedStops,
           Cardinality(StationsOf(E)) \in Nat
    PROVE  \A n \in Lengths(E) : \A p \in ByLength(E, start, station, excludedStops)[n] :
                IsWalk(E, start, station, excludedStops, p) /\ Len(p) = n
<1> DEFINE B == ByLength(E, start, station, excludedStops)
           k == Cardinality(StationsOf(E)) + 1
           Walks(n) == \A p \in B[n] : IsWalk(E, start, station, excludedStops, p) /\ Len(p) = n
           T == {n \in 1 .. k : Walks(n)}
<1>1. Walks(1)
  BY LengthOne, WalkOne
<1>2. ASSUME NEW n \in T, n < k PROVE Walks(n + 1)
  <2>1. n \in Lengths(E) /\ n + 1 \in Lengths(E)
    BY <1>2 DEF Lengths
  <2>2. B[n + 1] = UNION {Longer(E, p, station, excludedStops) : p \in B[n]}
    BY <2>1, LengthMore
  <2>3. SUFFICES ASSUME NEW p \in B[n], NEW q \in Longer(E, p, station, excludedStops)
                 PROVE  IsWalk(E, start, station, excludedStops, q) /\ Len(q) = n + 1
    BY <2>2
  <2>4. IsWalk(E, start, station, excludedStops, p) /\ Len(p) = n
    OBVIOUS
  <2>5. /\ Last(p).stop.node # station
        /\ \E e \in Ways(E, Last(p).stop, excludedStops) : q = Append(p, Follow(Last(p), e))
    BY DEF Longer
  <2> QED  BY <2>4, <2>5, WalkAppend
<1>3. T = 1 .. k
  <2>1. k \in Nat /\ T \in SUBSET (1 .. k) /\ 1 \in T
    BY <1>1
  <2>2. \A n \in T : n < k => n + 1 \in T
    BY <1>2
  <2> HIDE DEF T, k
  <2> QED  BY <2>1, <2>2, IntervalInduction
<1> QED  BY <1>3 DEF Lengths

(* The walks without a repetition are enumerated.                          *)
LEMMA WalksAreMembers ==
    ASSUME NEW E, EdgeOk(E), NEW start, StartOk(start), NEW station, NEW excludedStops,
           Cardinality(StationsOf(E)) \in Nat,
           NEW p, IsWalk(E, start, station, excludedStops, p), NoRepeat(p),
           Len(p) \in Lengths(E)
    PROVE  p \in ByLength(E, start, station, excludedStops)[Len(p)]
<1> DEFINE B == ByLength(E, start, station, excludedStops)
           k == Len(p)
           T == {n \in 1 .. k : SubSeq(p, 1, n) \in B[n]}
<1>1. p \in Seq(Items(E, start)) /\ k \in Nat /\ k >= 1
  BY DEF IsWalk
<1>2. 1 \in T
  <2>0. p[1] = start
    BY DEF IsWalk
  <2>1. SubSeq(p, 1, 1) = <<start>>
    <3>1. /\ SubSeq(p, 1, 1) \in Seq(Items(E, start)) /\ Len(SubSeq(p, 1, 1)) = 1
          /\ SubSeq(p, 1, 1)[1] = start
      BY <1>1, <2>0
    <3> QED  BY <3>1, SingletonSequence
  <2>2. SubSeq(p, 1, 1) \in B[1]
    BY <2>1, LengthOne
  <2> HIDE DEF B
  <2> QED  BY <1>1, <2>2
<1>3. ASSUME NEW n \in T, n < k PROVE n + 1 \in T
  <2> DEFINE q == SubSeq(p, 1, n)
  <2>0. n \in 1 .. k /\ q \in B[n]
    OBVIOUS
  <2> HIDE DEF T
  <2>1. n \in Lengths(E) /\ n + 1 \in Lengths(E) /\ n \in 1 .. k - 1
    BY <1>1, <1>3, <2>0 DEF Lengths
  <2>2. /\ Len(q) = n /\ Last(q) = p[n] /\ SubSeq(p, 1, n + 1) = Append(q, p[n + 1])
        /\ \A i \in 1 .. n : q[i] = p[i]
        /\ q \in Seq(Items(E, start))
    <3>1. /\ Len(q) = n /\ Last(q) = p[n] /\ (n < Len(p) => SubSeq(p, 1, n + 1) = Append(q, p[n + 1]))
          /\ \A i \in 1 .. n : q[i] = p[i]
          /\ IsWalk(E, start, station, excludedStops, q)
      BY <2>0, WalkPrefix
    <3> QED  BY <1>3, <3>1 DEF IsWalk
  <2> HIDE DEF q
  <2>3. PICK e \in Ways(E, p[n].stop, excludedStops) : p[n + 1] = Follow(p[n], e)
    BY <2>1 DEF IsWalk
  <2>4. p[n].stop.node # station
    BY <2>1 DEF IsWalk
  <2>5. p[n] \in Items(E, start) /\ e \in E
    BY <1>1, <2>1 DEF Ways
  <2>6. p[n + 1].stop.node = e.to
    BY <2>3, <2>5, ItemFacts
  <2>7. e.to \notin Visited(q)
    <3>1. ASSUME NEW i \in 1 .. n PROVE q[i].stop.node # e.to
      <4>1. i \in 1 .. Len(p) /\ n + 1 \in 1 .. Len(p) /\ i < n + 1
        BY <1>1, <2>1
      <4> QED  BY <2>2, <2>6, <4>1 DEF NoRepeat
    <3>2. DOMAIN q = 1 .. n
      BY <2>2
    <3> QED  BY <3>1, <3>2 DEF Visited
  <2>8. Append(q, p[n + 1]) \in Longer(E, q, station, excludedStops)
    BY <2>2, <2>3, <2>4, <2>7 DEF Longer
  <2>9. B[n + 1] = UNION {Longer(E, r, station, excludedStops) : r \in B[n]}
    BY <2>1, LengthMore
  <2> HIDE DEF B
  <2>10. SubSeq(p, 1, n + 1) \in B[n + 1]
    BY <2>0, <2>2, <2>8, <2>9
  <2> QED  BY <2>1, <2>10 DEF T
<1>4. T = 1 .. k
  <2>1. T \in SUBSET (1 .. k)
    OBVIOUS
  <2> HIDE DEF T, k
  <2> QED  BY <1>1, <1>2, <1>3, <2>1, IntervalInduction
<1>5. SubSeq(p, 1, k) = p
  BY <1>1
<1>6. k \in T
  BY <1>1, <1>4
<1> QED  BY <1>5, <1>6

-----------------------------------------------------------------------------
(* One step of a walk.                                                     *)
IsStep(E, station, excludedStops, p, i) ==
    LET e == p[i + 1].stop.edge
    IN  /\ e \in E /\ e \in Ways(E, p[i].stop, excludedStops)
        /\ e.from = p[i].stop.node /\ e.to = p[i + 1].stop.node
        /\ p[i + 1].stop = Stop(e.to, e)
        /\ p[i + 1] = Follow(p[i], e)
        /\ p[i + 1].dist = p[i].dist + Ride(p[i].stop, e)
        /\ Ride(p[i].stop, e) \in Nat /\ e.time \in Nat
        /\ p[i].dist \in Nat /\ p[i + 1].dist \in Nat /\ p[i].dist <= p[i + 1].dist
        /\ p[i].stop.node # station

LEMMA WalkSteps ==
    ASSUME NEW E, EdgeOk(E), NEW start, StartOk(start), NEW station, NEW excludedStops,
           NEW p, IsWalk(E, start, station, excludedStops, p)
    PROVE  /\ \A i \in 1 .. Len(p) - 1 : IsStep(E, station, excludedStops, p, i)
           /\ Len(p) \in Nat /\ Len(p) >= 1
<1>0. Len(p) \in Nat /\ Len(p) >= 1
  BY DEF IsWalk
<1> SUFFICES ASSUME NEW i \in 1 .. Len(p) - 1
             PROVE  IsStep(E, station, excludedStops, p, i)
  BY <1>0
<1>1. p \in Seq(Items(E, start)) /\ i \in 1 .. Len(p) /\ i + 1 \in 1 .. Len(p)
  BY DEF IsWalk
<1>2. PICK e \in Ways(E, p[i].stop, excludedStops) : p[i + 1] = Follow(p[i], e)
  BY DEF IsWalk
<1>3. p[i].stop.node # station
  BY DEF IsWalk
<1>4. e \in E /\ e.from = p[i].stop.node
  BY DEF Ways
<1>5. p[i] \in Items(E, start) /\ p[i + 1] \in Items(E, start)
  BY <1>1
<1>6. /\ p[i + 1].stop = Stop(e.to, e) /\ p[i + 1].stop.node = e.to /\ p[i + 1].stop.edge = e
      /\ p[i + 1].dist = p[i].dist + Ride(p[i].stop, e) /\ Ride(p[i].stop, e) \in Nat
      /\ p[i].dist \in Nat /\ p[i + 1].dist \in Nat
  BY <1>2, <1>4, <1>5, ItemFacts
<1>7. e.time \in Nat
  BY <1>4 DEF EdgeOk
<1>8. p[i].dist <= p[i + 1].dist
  BY <1>6
<1> QED  BY <1>2, <1>3, <1>4, <1>6, <1>7, <1>8 DEF IsStep

(* Later on a walk is no nearer; and without a change of routes in between *)
(* it is further down the route.                                           *)
-----------------------------------------------------------------------------
LEMMA StationsFinite ==
    ASSUME NEW E, IsFiniteSet(E)
    PROVE  IsFiniteSet(StationsOf(E)) /\ Cardinality(StationsOf(E)) \in Nat
<1> DEFINE A == {e.from : e \in E}
           B == {e.to : e \in E}
<1>1. [e \in E |-> e.from] \in Surjection(E, A)
  BY DEF Surjection
<1>2. [e \in E |-> e.to] \in Surjection(E, B)
  BY DEF Surjection
<1>3. IsFiniteSet(A) /\ IsFiniteSet(B)
  BY <1>1, <1>2, FS_Surjection
<1>4. IsFiniteSet(A \cup B)
  BY <1>3, FS_Union
<1> QED  BY <1>4, FS_CardinalityType DEF StationsOf

(* A walk without a repetition is no longer than there are stations.       *)
LEMMA WalkIsShort ==
    ASSUME NEW E, EdgeOk(E), IsFiniteSet(E), NEW start, StartOk(start),
           NEW station, NEW excludedStops,
           NEW p, IsWalk(E, start, station, excludedStops, p), NoRepeat(p)
    PROVE  Len(p) \in Lengths(E)
<1> DEFINE f == [i \in 1 .. Len(p) |-> p[i].stop.node]
<1>1. p \in Seq(Items(E, start)) /\ Len(p) \in Nat /\ Len(p) >= 1
  BY DEF IsWalk
<1>8. CASE Len(p) = 1
  BY <1>8, StationsFinite DEF Lengths
<1>9. SUFFICES ASSUME Len(p) # 1 PROVE Len(p) \in Lengths(E)
  BY <1>8
<1>2. ASSUME NEW i \in 1 .. Len(p) PROVE p[i].stop.node \in StationsOf(E)
  <2>1. CASE i = Len(p)
    <3>1. PICK k \in 1 .. Len(p) - 1 : k + 1 = i
      BY <1>1, <1>9, <2>1
    <3>2. IsStep(E, station, excludedStops, p, k)
      BY WalkSteps
    <3>3. p[k + 1].stop.edge \in E /\ p[k + 1].stop.edge.to = p[k + 1].stop.node
      BY <3>2 DEF IsStep
    <3> QED  BY <3>1, <3>3 DEF StationsOf
  <2>2. CASE i # Len(p)
    <3>1. i \in 1 .. Len(p) - 1
      BY <1>1, <2>2
    <3>2. p[i + 1].stop.edge \in E /\ p[i + 1].stop.edge.from = p[i].stop.node
      BY <3>1, WalkSteps DEF IsStep
    <3> QED  BY <3>2 DEF StationsOf
  <2> QED  BY <2>1, <2>2
<1>3. f \in [1 .. Len(p) -> StationsOf(E)]
  BY <1>2
<1>4. ASSUME NEW i \in 1 .. Len(p), NEW k \in 1 .. Len(p), f[i] = f[k] PROVE i = k
  BY <1>1, <1>4 DEF NoRepeat
<1>5. f \in Injection(1 .. Len(p), StationsOf(E))
  BY <1>3, <1>4 DEF Injection, IsInjective
<1>6. Cardinality(1 .. Len(p)) <= Cardinality(StationsOf(E))
  BY <1>5, StationsFinite, FS_Injection
<1>7. Cardinality(1 .. Len(p)) = Len(p)
  BY <1>1, FS_Interval
<1> QED  BY <1>1, <1>6, <1>7, StationsFinite DEF Lengths

(* The two together: what SimpleJourneys contains.                         *)
LEMMA SimpleJourneysAreWalks ==
    ASSUME NEW E, EdgeOk(E), IsFiniteSet(E), NEW start, StartOk(start),
           NEW station, NEW excludedStops,
           NEW p \in SimpleJourneys(E, start, station, excludedStops)
    PROVE  IsWalk(E, start, station, excludedStops, p) /\ Last(p).stop.node = station
<1>1. Cardinality(StationsOf(E)) \in Nat
  BY StationsFinite
<1>2. /\ Last(p).stop.node = station
      /\ \E n \in Lengths(E) : p \in ByLength(E, start, station, excludedStops)[n]
  BY DEF SimpleJourneys
<1> QED  BY <1>1, <1>2, MembersAreWalks

LEMMA WalksAreSimpleJourneys ==
    ASSUME NEW E, EdgeOk(E), IsFiniteSet(E), NEW start, StartOk(start),
           NEW station, NEW excludedStops,
           NEW p, IsWalk(E, start, station, excludedStops, p), NoRepeat(p),
           Last(p).stop.node = station
    PROVE  p \in SimpleJourneys(E, start, station, excludedStops)
<1>1. Cardinality(StationsOf(E)) \in Nat
  BY StationsFinite
<1>2. Len(p) \in Lengths(E)
  BY WalkIsShort
<1>3. p \in ByLength(E, start, station, excludedStops)[Len(p)]
  BY <1>1, <1>2, WalksAreMembers
<1> QED  BY <1>2, <1>3 DEF SimpleJourneys

LEMMA WalkGoesOn ==
    ASSUME NEW E, NetworkOk(E), NEW start, StartOk(start), NEW station, NEW excludedStops,
           NEW p, IsWalk(E, start, station, excludedStops, p),
           NEW i \in 1 .. Len(p), NEW k \in 1 .. Len(p), i < k
    PROVE  /\ p[i].dist \in Nat /\ p[k].dist \in Nat /\ p[i].dist <= p[k].dist
           /\ p[i].stop.node = p[k].stop.node => p[i].dist + RouteChangePenalty <= p[k].dist
<1>0. /\ NoEdge \notin E /\ Len(p) \in Nat
      /\ \A j \in 1 .. Len(p) - 1 : IsStep(E, station, excludedStops, p, j)
  BY WalkSteps DEF NetworkOk
<1> DEFINE first == p[i + 1].stop.edge
<1>1. i \in 1 .. Len(p) - 1
  BY <1>0
<1>2. first \in E /\ first.from = p[i].stop.node
  BY <1>0, <1>1 DEF IsStep
<1>3. PICK place \in [StationsOf(E) -> 0 .. Cardinality(StationsOf(E))] :
        \A f \in E : f.route = first.route => place[f.from] < place[f.to]
  BY <1>2 DEF NetworkOk, RoutesAreLines
<1>4. \A s \in StationsOf(E) : place[s] \in Int
  BY <1>3
<1>5. \A f \in E : f.from \in StationsOf(E) /\ f.to \in StationsOf(E)
  BY DEF StationsOf
<1> DEFINE Onward(n) ==
              LET e == p[n].stop.edge
              IN  /\ p[i].dist \in Nat /\ p[n].dist \in Nat
                  /\ p[i].dist <= p[n].dist
                  /\ \/ p[i].dist + 5 <= p[n].dist
                     \/ /\ e \in E /\ e.to = p[n].stop.node
                        /\ e.route = first.route
                        /\ place[first.from] < place[e.to]
<1>6. Onward(i + 1)
  <2>1. /\ p[i].dist \in Nat /\ p[i + 1].dist \in Nat /\ p[i].dist <= p[i + 1].dist
        /\ first.to = p[i + 1].stop.node
    BY <1>0, <1>1 DEF IsStep
  <2>2. place[first.from] < place[first.to]
    BY <1>2, <1>3
  <2> QED  BY <1>2, <2>1, <2>2
<1> HIDE DEF first
<1>7. ASSUME NEW n \in i + 1 .. Len(p), n < Len(p), Onward(n) PROVE Onward(n + 1)
  <2> DEFINE e == p[n].stop.edge
             f == p[n + 1].stop.edge
  <2>1. n \in 1 .. Len(p) - 1
    BY <1>0, <1>7
  <2>2. /\ f \in E /\ f.from = p[n].stop.node /\ f.to = p[n + 1].stop.node
        /\ p[n + 1].dist = p[n].dist + Ride(p[n].stop, f)
        /\ Ride(p[n].stop, f) \in Nat /\ p[n + 1].dist \in Nat /\ f.time \in Nat
    BY <1>0, <2>1 DEF IsStep
  <2>3. p[i].dist \in Nat /\ p[n].dist \in Nat /\ p[i].dist <= p[n].dist
    BY <1>7
  <2>4. CASE p[i].dist + 5 <= p[n].dist
    <3> HIDE DEF f
    <3>0. \A x, y, t \in Nat : x + 5 <= y => x + 5 <= y + t /\ x <= y + t
      OBVIOUS
    <3>1. p[i].dist + 5 <= p[n + 1].dist /\ p[i].dist <= p[n + 1].dist
      BY <2>2, <2>3, <2>4, <3>0
    <3> QED  BY <2>2, <2>3, <3>1
  <2>5. CASE e \in E /\ e.to = p[n].stop.node /\ e.route = first.route
             /\ place[first.from] < place[e.to]
    <3>1. CASE f.route = first.route
      <4>1. place[f.from] < place[f.to] /\ f.from = e.to
        BY <1>3, <2>2, <2>5, <3>1
      <4>2. place[first.from] < place[f.to]
        <5>1. place[first.from] \in Int /\ place[f.from] \in Int /\ place[f.to] \in Int
          BY <1>2, <1>4, <1>5, <2>2
        <5> QED  BY <2>5, <4>1, <5>1
      <4>3. p[i].dist <= p[n + 1].dist
        BY <2>2, <2>3
      <4> QED  BY <2>2, <2>3, <3>1, <4>2, <4>3
    <3>2. CASE f.route # first.route
      <4>1. e # NoEdge /\ e.route # f.route
        BY <1>0, <2>5, <3>2
      <4>2. Ride(p[n].stop, f) = f.time + 5
        BY <4>1 DEF Ride, RouteChangePenalty
      <4>3. p[n + 1].dist = p[n].dist + (f.time + 5)
        BY <2>2, <4>2
      <4> HIDE DEF f
      <4>4. p[i].dist + 5 <= p[n + 1].dist /\ p[i].dist <= p[n + 1].dist
        <5>1. \A x, y, t \in Nat : x <= y => x + 5 <= y + (t + 5) /\ x <= y + (t + 5)
          OBVIOUS
        <5>2. p[i].dist + 5 <= p[n].dist + (f.time + 5) /\ p[i].dist <= p[n].dist + (f.time + 5)
          BY <2>2, <2>3, <5>1
        <5> QED  BY <4>3, <5>2
      <4> QED  BY <2>2, <2>3, <4>4
    <3> QED  BY <3>1, <3>2
  <2> QED  BY <1>7, <2>4, <2>5
<1>8. Onward(k)
  <2> HIDE DEF Onward
  <2> DEFINE T == {n \in i + 1 .. Len(p) : Onward(n)}
  <2>1. /\ i + 1 \in Int /\ Len(p) \in Int /\ T \in SUBSET (i + 1 .. Len(p))
        /\ k \in i + 1 .. Len(p) /\ i + 1 \in T
    BY <1>0, <1>1, <1>6
  <2>2. \A n \in T : n < Len(p) => n + 1 \in T
    BY <1>0, <1>1, <1>7
  <2> HIDE DEF T
  <2>3. T = i + 1 .. Len(p)
    BY <2>1, <2>2, IntervalInduction
  <2> QED  BY <2>1, <2>3 DEF T
<1>9. ASSUME p[i].stop.node = p[k].stop.node PROVE p[i].dist + RouteChangePenalty <= p[k].dist
  <2>1. CASE p[i].dist + 5 <= p[k].dist
    BY <2>1 DEF RouteChangePenalty
  <2>2. CASE place[first.from] < place[p[k].stop.node]
    <3>1. place[first.from] \in Int
      BY <1>2, <1>4, <1>5
    <3> QED  BY <1>2, <1>9, <2>2, <3>1
  <2> QED  BY <1>8, <2>1, <2>2
<1> QED  BY <1>8, <1>9

LEMMA LeastNatural ==
    ASSUME NEW S \in SUBSET Nat, S # {}
    PROVE  \E n \in S : \A m \in S : n <= m
<1> DEFINE R == OpToRel(<, Nat)
<1>1. IsWellFoundedOn(R, Nat)
  BY NatLessThanWellFounded
<1>2. \A x, y \in Nat : x < y => <<x, y>> \in R
  BY DEF OpToRel
<1> HIDE DEF R
<1>3. PICK n \in S : \A m \in S : ~(<<m, n>> \in R)
  BY <1>1, WFMin
<1>4. ASSUME NEW m \in S PROVE n <= m
  <2>1. m \in Nat /\ n \in Nat /\ ~(m < n)
    BY <1>2, <1>3
  <2> QED  BY <2>1
<1> QED  BY <1>4

(* A walk that comes back to a station can do without the loop: what comes *)
(* after it is reached no later.                                           *)
LEMMA LoopIsCut ==
    ASSUME NEW E, NetworkOk(E), NEW start, StartOk(start), NEW station, NEW excludedStops,
           NEW q, IsWalk(E, start, station, excludedStops, q),
           NEW i \in 1 .. Len(q) - 1, NEW k \in 1 .. Len(q) - 1, i < k,
           q[i].stop.node = q[k].stop.node
    PROVE  \E r : /\ IsWalk(E, start, station, excludedStops, r)
                  /\ Len(r) < Len(q)
                  /\ Last(r).stop = Last(q).stop /\ Last(r).dist <= Last(q).dist
<1> DEFINE n == Len(q)
           gap == k - i
           e == q[k + 1].stop.edge
           base == q[i].dist + Ride(q[i].stop, e)
           delta == q[k + 1].dist - base
           r == [j \in 1 .. n - gap |->
                    IF j <= i THEN q[j]
                    ELSE At(q[j + gap].stop, q[j + gap].dist - delta)]
<1>0. EdgeOk(E)
  BY DEF NetworkOk
<1>1. /\ n \in Nat /\ q \in Seq(Items(E, start)) /\ q[1] = start /\ Last(q) = q[n]
      /\ \A j \in 1 .. n - 1 : IsStep(E, station, excludedStops, q, j)
  <2>1. n \in Nat /\ \A j \in 1 .. n - 1 : IsStep(E, station, excludedStops, q, j)
    BY <1>0, WalkSteps
  <2>2. q \in Seq(Items(E, start)) /\ q[1] = start
    BY DEF IsWalk
  <2> QED  BY <2>1, <2>2 DEF Last
<1>2. /\ gap \in Nat /\ gap >= 1 /\ i \in Nat /\ i >= 1 /\ k + 1 \in 1 .. n
      /\ i \in 1 .. n /\ k \in 1 .. n /\ i + gap = k /\ i + 1 + gap = k + 1
      /\ n - gap \in Nat /\ n - gap >= i + 1 /\ n - gap < n
  BY <1>1
<1>3. /\ e \in Ways(E, q[i].stop, excludedStops) /\ e \in E
      /\ q[k + 1].stop = Stop(e.to, e)
      /\ q[k + 1].dist = q[k].dist + Ride(q[k].stop, e)
      /\ q[k + 1].dist \in Nat /\ e.time \in Nat
  BY <1>1, <1>2 DEF IsStep, Ways
<1>4. q[i].dist \in Nat /\ q[k].dist \in Nat /\ q[i].dist + 5 <= q[k].dist
  BY <1>2, WalkGoesOn DEF RouteChangePenalty
<1>5. delta \in Nat /\ base \in Nat /\ q[k + 1].dist - delta = base
  <2>1. /\ Ride(q[i].stop, e) \in Nat /\ Ride(q[i].stop, e) <= e.time + 5
        /\ Ride(q[k].stop, e) \in Nat /\ Ride(q[k].stop, e) >= e.time
    <3>1. e.time \in Nat
      BY <1>3
    <3> HIDE DEF e
    <3> QED  BY <3>1, RideFacts DEF RouteChangePenalty
  <2>2. q[k + 1].dist = q[k].dist + Ride(q[k].stop, e) /\ e.time \in Nat
    BY <1>3
  <2> HIDE DEF e
  <2> DEFINE x == q[i].dist
             y == q[k].dist
             u == Ride(q[i].stop, e)
             v == Ride(q[k].stop, e)
             t == e.time
  <2>3. x \in Nat /\ y \in Nat /\ u \in Nat /\ v \in Nat /\ t \in Nat
        /\ x + 5 <= y /\ u <= t + 5 /\ t <= v
    BY <1>4, <2>1, <2>2
  <2>4. q[k + 1].dist = y + v /\ base = x + u /\ delta = q[k + 1].dist - base
    BY <2>2
  <2> HIDE DEF x, y, u, v, t, base, delta
  <2>5. (y + v) - (x + u) \in Nat /\ x + u \in Nat /\ (y + v) - ((y + v) - (x + u)) = x + u
    BY <2>3
  <2> QED  BY <2>4, <2>5
<1>6. ASSUME NEW j \in k + 1 .. n
      PROVE  /\ q[j].dist \in Nat /\ q[j].dist - delta \in Nat
             /\ At(q[j].stop, q[j].dist - delta) \in Items(E, start)
  <2>1. j \in 1 .. n /\ j - 1 \in 1 .. n - 1 /\ (j - 1) + 1 = j
    BY <1>1, <1>2
  <2>2. q[j].stop.edge \in E /\ q[j].stop = Stop(q[j].stop.edge.to, q[j].stop.edge)
    BY <1>1, <2>1 DEF IsStep
  <2>3. q[j].dist \in Nat /\ q[k + 1].dist <= q[j].dist
    <3>1. CASE j = k + 1
      BY <1>3, <3>1
    <3>2. CASE k + 1 < j
      BY <1>2, <2>1, <3>2, WalkGoesOn
    <3> QED  BY <1>1, <1>2, <3>1, <3>2
  <2> HIDE DEF delta, base
  <2>4. q[j].dist - delta \in Nat
    BY <1>3, <1>5, <2>3
  <2> QED  BY <2>2, <2>3, <2>4 DEF Items
<1> HIDE DEF gap, base, delta
<1>7. /\ \A j \in 1 .. i : r[j] = q[j]
      /\ \A j \in i + 1 .. n - gap :
            /\ r[j] = At(q[j + gap].stop, q[j + gap].dist - delta)
            /\ j + gap \in k + 1 .. n
  BY <1>1, <1>2
<1>8. r \in Seq(Items(E, start)) /\ Len(r) = n - gap
  <2>1. ASSUME NEW j \in 1 .. n - gap PROVE r[j] \in Items(E, start)
    <3>1. CASE j \in 1 .. i
      <4>1. j \in 1 .. n
        BY <1>1, <1>2, <3>1
      <4> QED  BY <1>1, <1>7, <3>1, <4>1
    <3>2. CASE j \in i + 1 .. n - gap
      <4> HIDE DEF r
      <4> QED  BY <1>6, <1>7, <3>2
    <3> QED  BY <1>2, <3>1, <3>2
  <2>2. r \in [1 .. n - gap -> Items(E, start)]
    <3>1. r = [j \in 1 .. n - gap |-> r[j]]
      OBVIOUS
    <3> HIDE DEF r
    <3> QED  BY <2>1, <3>1
  <2> HIDE DEF r, n
  <2> QED  BY <1>2, <2>2
<1> HIDE DEF r
<1>9. ASSUME NEW j \in 1 .. (n - gap) - 1
      PROVE  /\ r[j].stop.node # station
             /\ \E f \in Ways(E, r[j].stop, excludedStops) : r[j + 1] = Follow(r[j], f)
  <2>1. CASE j \in 1 .. i - 1
    <3>1. j \in 1 .. i /\ j + 1 \in 1 .. i /\ j \in 1 .. n - 1
      BY <1>1, <1>2, <2>1
    <3>2. r[j] = q[j] /\ r[j + 1] = q[j + 1]
      BY <1>7, <3>1
    <3> QED  BY <1>1, <3>1, <3>2 DEF IsStep
  <2>2. CASE j = i
    <3>1. r[i] = q[i] /\ r[i + 1] = At(q[k + 1].stop, q[k + 1].dist - delta)
      <4>1. i \in 1 .. i /\ i + 1 \in i + 1 .. n - gap /\ (i + 1) + gap = k + 1
        BY <1>2
      <4> QED  BY <1>7, <4>1
    <3>2. r[i + 1] = Follow(r[i], e)
      BY <1>3, <1>5, <3>1 DEF Follow, base
    <3>3. q[i].stop.node # station
      BY <1>1 DEF IsStep
    <3> QED  BY <1>3, <2>2, <3>1, <3>2, <3>3
  <2>3. CASE j \in i + 1 .. (n - gap) - 1
    <3> DEFINE m == j + gap
               f == q[m + 1].stop.edge
    <3>1. m \in k + 1 .. n /\ m \in 1 .. n - 1 /\ j + 1 \in i + 1 .. n - gap /\ (j + 1) + gap = m + 1
      BY <1>1, <1>2, <2>3
    <3>2. r[j] = At(q[m].stop, q[m].dist - delta)
      <4>1. j \in i + 1 .. n - gap
        BY <1>1, <1>2, <2>3
      <4> QED  BY <1>7, <4>1
    <3>3. r[j + 1] = At(q[m + 1].stop, q[m + 1].dist - delta)
      BY <1>7, <3>1
    <3>4. /\ f \in Ways(E, q[m].stop, excludedStops) /\ q[m + 1].stop = Stop(f.to, f)
          /\ q[m + 1].dist = q[m].dist + Ride(q[m].stop, f)
          /\ Ride(q[m].stop, f) \in Nat /\ q[m].dist \in Nat /\ q[m].stop.node # station
      BY <1>1, <3>1 DEF IsStep
    <3> HIDE DEF f, m
    <3>5. q[m + 1].dist - delta = (q[m].dist - delta) + Ride(q[m].stop, f)
      BY <1>5, <3>4
    <3>6. r[j + 1] = Follow(r[j], f) /\ r[j].stop = q[m].stop
      BY <3>2, <3>3, <3>4, <3>5 DEF Follow, At
    <3> QED  BY <3>4, <3>6
  <2> QED  BY <1>2, <2>1, <2>2, <2>3
<1>10. r[1] = start
  BY <1>1, <1>2, <1>7
<1>11. IsWalk(E, start, station, excludedStops, r)
  <2>1. Len(r) - 1 = (n - gap) - 1 /\ Len(r) >= 1
    BY <1>2, <1>8
  <2>2. r \in Seq(Items(E, start))
    BY <1>8
  <2>3. ASSUME NEW j \in 1 .. Len(r) - 1
        PROVE  /\ r[j].stop.node # station
               /\ \E f \in Ways(E, r[j].stop, excludedStops) : r[j + 1] = Follow(r[j], f)
    BY <1>9, <2>1, <2>3
  <2> QED  BY <1>10, <2>1, <2>2, <2>3 DEF IsWalk
<1>12. Last(r).stop = Last(q).stop /\ Last(r).dist <= Last(q).dist
  <2>1. n - gap \in i + 1 .. n - gap /\ (n - gap) + gap = n /\ n \in k + 1 .. n
    BY <1>1, <1>2
  <2>2. Last(r) = At(q[n].stop, q[n].dist - delta)
    BY <1>7, <1>8, <2>1 DEF Last
  <2>3. q[n].dist \in Nat /\ q[n].dist - delta <= q[n].dist
    BY <1>5, <1>6, <2>1
  <2> QED  BY <1>1, <2>2, <2>3 DEF At
<1> QED  BY <1>2, <1>8, <1>11, <1>12

(* So for every walk there is a journey without a repetition that is at    *)
(* least as fast.                                                          *)
LEMMA SimpleIsNoSlower ==
    ASSUME NEW E, NetworkOk(E), NEW start, StartOk(start),
           NEW station, NEW excludedStops,
           NEW q, IsWalk(E, start, station, excludedStops, q), Last(q).stop.node = station
    PROVE  \E p \in SimpleJourneys(E, start, station, excludedStops) : Last(p).dist <= Last(q).dist
<1> DEFINE Fast(r) == /\ IsWalk(E, start, station, excludedStops, r)
                      /\ Last(r).stop.node = station /\ Last(r).dist <= Last(q).dist
           S == {n \in Nat : \E r : Fast(r) /\ Len(r) = n}
<1>0. EdgeOk(E) /\ IsFiniteSet(E)
  BY DEF NetworkOk
<1>1. ASSUME NEW r, IsWalk(E, start, station, excludedStops, r)
      PROVE  Len(r) \in Nat /\ Len(r) >= 1 /\ Last(r).dist \in Nat
  <2>1. /\ r \in Seq(Items(E, start)) /\ Len(r) >= 1 /\ Len(r) \in Nat
        /\ Last(r) = r[Len(r)]
    BY <1>1 DEF IsWalk, Last
  <2>2. Last(r) \in Items(E, start)
    BY <2>1
  <2> QED  BY <2>1, <2>2 DEF Items, StartOk, At
<1>2. Fast(q) /\ Len(q) \in S
  BY <1>1
<1>3. PICK n \in S : \A m \in S : n <= m
  <2>1. S \in SUBSET Nat /\ S # {}
    BY <1>2
  <2> HIDE DEF S
  <2> QED  BY <2>1, LeastNatural
<1>4. PICK r : Fast(r) /\ Len(r) = n
  OBVIOUS
<1>5. NoRepeat(r)
  <2> SUFFICES ASSUME NEW i \in 1 .. Len(r), NEW k \in 1 .. Len(r), i < k,
                      r[i].stop.node = r[k].stop.node
               PROVE  FALSE
    BY DEF NoRepeat
  <2>1. Len(r) \in Nat /\ i \in 1 .. Len(r) - 1 /\ k \in 1 .. Len(r)
    BY <1>1, <1>4
  <2>2. r[i].stop.node # station
    BY <1>4, <2>1 DEF IsWalk
  <2>3. k \in 1 .. Len(r) - 1
    BY <1>4, <2>1, <2>2 DEF Last
  <2>4. PICK t : /\ IsWalk(E, start, station, excludedStops, t)
                 /\ Len(t) < Len(r)
                 /\ Last(t).stop = Last(r).stop /\ Last(t).dist <= Last(r).dist
    BY <1>4, <2>1, <2>3, LoopIsCut
  <2>5. Fast(t) /\ Len(t) \in Nat
    BY <1>1, <1>4, <2>4
  <2>6. Len(t) \in S
    BY <2>5
  <2>7. Len(r) <= Len(t)
    BY <1>3, <1>4, <2>6
  <2> QED  BY <2>1, <2>4, <2>5, <2>7
<1>6. r \in SimpleJourneys(E, start, station, excludedStops)
  BY <1>0, <1>4, <1>5, WalksAreSimpleJourneys
<1> QED  BY <1>4, <1>6

-----------------------------------------------------------------------------
(* A function that collects the items on the walk back from each element.  *)
IsWalkBack(f, D, Ends, prev, item) ==
    f = [s \in D |-> IF s \in Ends THEN <<item[s]>> ELSE Append(f[prev[s]], item[s])]

(* A walk back along prev ends, and so the function that collects it       *)
(* exists, where prev leads from a rank to a lower one.                    *)
LEMMA WalkBackExists ==
    ASSUME NEW D, NEW k \in Nat, NEW rank \in [D -> 0 .. k], NEW prev, NEW item,
           NEW Ends \in SUBSET D,
           \A s \in D \ Ends : prev[s] \in D /\ rank[prev[s]] < rank[s]
    PROVE  \E f : IsWalkBack(f, D, Ends, prev, item)
<1> DEFINE Near(n) == {s \in D : rank[s] <= n}
           IsBack(f, S) == f = [s \in S |-> IF s \in Ends THEN <<item[s]>>
                                                       ELSE Append(f[prev[s]], item[s])]
           T == {n \in 0 .. k : \E f : IsBack(f, Near(n))}
<1>1. \A s \in D : rank[s] \in 0 .. k
  OBVIOUS
<1>2. 0 \in T
  <2> DEFINE f == [s \in Near(0) |-> <<item[s]>>]
  <2>1. Near(0) \subseteq Ends
    BY <1>1
  <2>2. IsBack(f, Near(0))
    BY <2>1
  <2> HIDE DEF f, IsBack
  <2> QED  BY <2>2
<1>3. ASSUME NEW n \in T, n < k PROVE n + 1 \in T
  <2>1. PICK f : IsBack(f, Near(n))
    OBVIOUS
  <2>2. n \in 0 .. k /\ n + 1 \in 0 .. k
    BY <1>3
  <2> DEFINE g == [s \in Near(n + 1) |->
                    IF rank[s] <= n THEN f[s]
                    ELSE IF s \in Ends THEN <<item[s]>> ELSE Append(f[prev[s]], item[s])]
  <2>3. ASSUME NEW s \in Near(n + 1)
        PROVE  g[s] = IF s \in Ends THEN <<item[s]>> ELSE Append(g[prev[s]], item[s])
    <3>1. s \in Near(n) => f[s] = IF s \in Ends THEN <<item[s]>> ELSE Append(f[prev[s]], item[s])
      BY <2>1
    <3>2. s \notin Ends => prev[s] \in Near(n) /\ prev[s] \in Near(n + 1)
      BY <1>1, <2>2
    <3>3. s \notin Ends => g[prev[s]] = f[prev[s]]
      BY <3>2
    <3>4. g[s] = IF s \in Ends THEN <<item[s]>> ELSE Append(f[prev[s]], item[s])
      BY <3>1
    <3> HIDE DEF g
    <3> QED  BY <3>3, <3>4
  <2>4. g = [s \in Near(n + 1) |-> g[s]]
    OBVIOUS
  <2> HIDE DEF g
  <2>5. IsBack(g, Near(n + 1))
    BY <2>3, <2>4
  <2> HIDE DEF IsBack, Near
  <2> QED  BY <2>2, <2>5
<1>4. T = 0 .. k
  <2>1. T \in SUBSET (0 .. k)
    OBVIOUS
  <2> HIDE DEF T
  <2> QED  BY <1>2, <1>3, <2>1, IntervalInduction
<1>5. PICK f : IsBack(f, Near(k))
  <2> HIDE DEF IsBack, Near
  <2>1. k \in 0 .. k
    OBVIOUS
  <2>2. \A n \in T : \E f : IsBack(f, Near(n))
    OBVIOUS
  <2> HIDE DEF T
  <2> QED  BY <1>4, <2>1, <2>2
<1>6. Near(k) = D
  BY <1>1
<1> QED  BY <1>5, <1>6 DEF IsWalkBack

-----------------------------------------------------------------------------
(* The sum over a sequence, one element at a time.                         *)
IsTotal(f, steps, n) ==
    f = [s \in SUBSET (1 .. n) |->
            IF s = {} THEN 0 ELSE f[s \ {Max(s)}] + steps[Max(s)].time]

LEMMA MaxIsLast ==
    ASSUME NEW n \in Int, NEW s, n \in s, \A y \in s : y \in Int /\ y <= n
    PROVE  Max(s) = n
<1>1. n \in s /\ \A y \in s : n >= y
  OBVIOUS
<1>2. Max(s) \in s /\ \A y \in s : Max(s) >= y
  BY <1>1 DEF Max
<1>3. Max(s) \in Int /\ Max(s) <= n /\ Max(s) >= n
  BY <1>1, <1>2
<1> QED  BY <1>3

LEMMA TotalExists ==
    ASSUME NEW steps, NEW n \in Nat
    PROVE  \E f : IsTotal(f, steps, n)
<1> DEFINE T == {k \in Nat : \E f : IsTotal(f, steps, k)}
<1>1. 0 \in T
  <2> DEFINE f == [s \in SUBSET (1 .. 0) |-> 0]
  <2>1. IsTotal(f, steps, 0)
    BY DEF IsTotal
  <2> HIDE DEF f
  <2> QED  BY <2>1
<1>2. ASSUME NEW k \in T PROVE k + 1 \in T
  <2>1. k \in Nat /\ \E f : IsTotal(f, steps, k)
    OBVIOUS
  <2>2. PICK f : IsTotal(f, steps, k)
    BY <2>1
  <2> HIDE DEF T
  <2> DEFINE g == [s \in SUBSET (1 .. k + 1) |->
                    IF s \in SUBSET (1 .. k) THEN f[s]
                    ELSE f[s \ {k + 1}] + steps[k + 1].time]
  <2>3. ASSUME NEW s \in SUBSET (1 .. k + 1)
        PROVE  g[s] = IF s = {} THEN 0 ELSE g[s \ {Max(s)}] + steps[Max(s)].time
    <3>1. CASE s \in SUBSET (1 .. k)
      <4>1. f[s] = IF s = {} THEN 0 ELSE f[s \ {Max(s)}] + steps[Max(s)].time
        BY <2>2, <3>1 DEF IsTotal
      <4>2. g[s] = f[s] /\ g[s \ {Max(s)}] = f[s \ {Max(s)}]
        BY <3>1
      <4> HIDE DEF g
      <4> QED  BY <4>1, <4>2
    <3>2. CASE s \notin SUBSET (1 .. k)
      <4>1. k + 1 \in s /\ s \ {k + 1} \in SUBSET (1 .. k)
        BY <2>1, <3>2
      <4>2. Max(s) = k + 1
        <5>1. k + 1 \in Int /\ \A y \in s : y \in Int /\ y <= k + 1
          BY <2>1
        <5> HIDE DEF g
        <5> QED  BY <4>1, <5>1, MaxIsLast
      <4>3. g[s] = f[s \ {k + 1}] + steps[k + 1].time /\ g[s \ {k + 1}] = f[s \ {k + 1}]
        BY <3>2, <4>1
      <4> HIDE DEF g
      <4> QED  BY <4>1, <4>2, <4>3
    <3> QED  BY <3>1, <3>2
  <2>4. g = [s \in SUBSET (1 .. k + 1) |-> g[s]]
    OBVIOUS
  <2> HIDE DEF g
  <2>5. IsTotal(g, steps, k + 1)
    BY <2>3, <2>4 DEF IsTotal
  <2> QED  BY <2>1, <2>5 DEF T
<1>3. T = Nat
  <2>1. T \in SUBSET Nat
    OBVIOUS
  <2> HIDE DEF T
  <2> QED  BY <1>1, <1>2, <2>1, SetInduction
<1> QED  BY <1>3

LEMMA TotalTimeFacts ==
    ASSUME NEW S, NEW steps \in Seq(S), \A x \in S : x.time \in Nat
    PROVE  \E sum \in [0 .. Len(steps) -> Nat] :
            /\ sum[0] = 0
            /\ \A j \in 1 .. Len(steps) : sum[j] = sum[j - 1] + steps[j].time
            /\ TotalTime(steps) = sum[Len(steps)]
<1> DEFINE n == Len(steps)
           f == CHOOSE f : IsTotal(f, steps, n)
           sum == [j \in 0 .. n |-> f[1 .. j]]
<1>1. n \in Nat /\ DOMAIN steps = 1 .. n
  OBVIOUS
<1>2. IsTotal(f, steps, n)
  BY <1>1, TotalExists
<1>3. TotalTime(steps) = f[1 .. n]
  <2>1. TotalTime(steps) = (CHOOSE g : g = [s \in SUBSET DOMAIN steps |->
            IF s = {} THEN 0 ELSE g[s \ {Max(s)}] + steps[Max(s)].time])[DOMAIN steps]
    BY DEF TotalTime, FoldLeft, MapThenFoldSet
  <2> QED  BY <1>1, <2>1 DEF IsTotal
<1> HIDE DEF f
<1>4. sum[0] = 0
  BY <1>1, <1>2 DEF IsTotal
<1>5. ASSUME NEW j \in 1 .. n PROVE sum[j] = sum[j - 1] + steps[j].time
  <2>0. j \in Int /\ 1 <= j /\ j <= n
    BY <1>1
  <2>1. Max(1 .. j) = j
    <3>1. j \in 1 .. j /\ \A y \in 1 .. j : y \in Int /\ y <= j
      BY <2>0
    <3> QED  BY <2>0, <3>1, MaxIsLast
  <2>2. (1 .. j) \ {j} = 1 .. j - 1 /\ 1 .. j \in SUBSET (1 .. n) /\ 1 .. j # {}
    <3>1. ASSUME NEW y \in (1 .. j) \ {j} PROVE y \in 1 .. j - 1
      BY <2>0
    <3>2. ASSUME NEW y \in 1 .. j - 1 PROVE y \in (1 .. j) \ {j}
      BY <2>0
    <3>3. (1 .. j) \ {j} = 1 .. j - 1
      BY <3>1, <3>2
    <3>4. 1 .. j \in SUBSET (1 .. n)
      BY <1>1, <2>0
    <3>5. j \in 1 .. j
      BY <2>0
    <3> QED  BY <3>3, <3>4, <3>5
  <2>3. f[1 .. j] = f[1 .. j - 1] + steps[j].time
    BY <1>2, <2>1, <2>2 DEF IsTotal
  <2> QED  BY <1>1, <2>3
<1>6. \A j \in 1 .. n : steps[j].time \in Nat
  OBVIOUS
<1> HIDE DEF sum
<1>7. \A j \in 0 .. n : sum[j] \in Nat
  <2> DEFINE T == {j \in 0 .. n : sum[j] \in Nat}
  <2>1. 0 \in T /\ T \in SUBSET (0 .. n) /\ 0 \in Int /\ n \in Int
    BY <1>1, <1>4
  <2>2. ASSUME NEW j \in T, j < n PROVE j + 1 \in T
    <3>1. j + 1 \in 1 .. n /\ (j + 1) - 1 = j /\ sum[j] \in Nat
      BY <1>1, <2>2
    <3>2. sum[j + 1] = sum[j] + steps[j + 1].time
      BY <1>5, <3>1
    <3> QED  BY <1>6, <3>1, <3>2
  <2> HIDE DEF T
  <2>3. T = 0 .. n
    BY <2>1, <2>2, IntervalInduction
  <2> QED  BY <2>3 DEF T
<1>8. sum \in [0 .. n -> Nat] /\ sum[n] = f[1 .. n]
  BY <1>1, <1>7 DEF sum
<1> QED  BY <1>3, <1>4, <1>5, <1>8

(* The distance at the end of a walk from a station is the time of its     *)
(* steps and the penalty for its changes of route.                         *)
LEMMA WalkAddsUp ==
    ASSUME NEW E, NetworkOk(E), NEW A, NEW station, NEW excludedStops,
           NEW p, IsWalk(E, Origin(A), station, excludedStops, p), Len(p) >= 2
    PROVE  LET steps == [i \in 1 .. Len(p) - 1 |-> p[i + 1].stop.edge]
           IN  /\ Len(steps) = Len(p) - 1
               /\ steps[1].from = A
               /\ steps[Len(p) - 1].to = Last(p).stop.node
               /\ Last(p).dist = TotalTime(steps) + RouteChangePenalty * Cardinality(Changes(steps))
<1> DEFINE m == Len(p) - 1
           steps == [i \in 1 .. m |-> p[i + 1].stop.edge]
           Before(j) == {i \in 1 .. j - 1 : steps[i].route # steps[i + 1].route}
<1>0. /\ EdgeOk(E) /\ NoEdge \notin E /\ StartOk(Origin(A))
      /\ Origin(A).stop.edge = NoEdge /\ Origin(A).stop.node = A /\ Origin(A).dist = 0
  BY DEF NetworkOk, StartOk, Origin, At, Stop
<1>1. /\ Len(p) \in Nat /\ m \in Nat /\ m >= 1 /\ m + 1 = Len(p) /\ Last(p) = p[m + 1]
      /\ p[1] = Origin(A)
      /\ \A i \in 1 .. m : IsStep(E, station, excludedStops, p, i)
  <2>1. /\ Len(p) \in Nat /\ \A i \in 1 .. Len(p) - 1 : IsStep(E, station, excludedStops, p, i)
    BY <1>0, WalkSteps
  <2>2. p[1] = Origin(A)
    BY DEF IsWalk
  <2>3. m \in Nat /\ m >= 1 /\ m + 1 = Len(p)
    BY <2>1
  <2> QED  BY <2>1, <2>2, <2>3 DEF Last
<1>2. ASSUME NEW i \in 1 .. m
      PROVE  /\ steps[i] = p[i + 1].stop.edge /\ steps[i] \in E /\ steps[i].time \in Nat
             /\ steps[i].from = p[i].stop.node /\ steps[i].to = p[i + 1].stop.node
             /\ p[i + 1].dist = p[i].dist + Ride(p[i].stop, steps[i])
             /\ Ride(p[i].stop, steps[i]) \in Nat /\ p[i].dist \in Nat
  BY <1>1 DEF IsStep
<1>3. steps \in Seq(E) /\ Len(steps) = m
  <2>1. steps = [i \in 1 .. m |-> steps[i]] /\ \A i \in 1 .. m : steps[i] \in E
    BY <1>2
  <2>2. steps \in [1 .. m -> E]
    BY <2>1
  <2> HIDE DEF steps, m
  <2> QED  BY <1>1, <2>2
<1>4. PICK sum \in [0 .. m -> Nat] :
        /\ sum[0] = 0
        /\ \A j \in 1 .. m : sum[j] = sum[j - 1] + steps[j].time
        /\ TotalTime(steps) = sum[m]
  <2>1. \A x \in E : x.time \in Nat
    BY <1>0 DEF EdgeOk
  <2> HIDE DEF steps
  <2> QED  BY <1>3, <2>1, TotalTimeFacts
<1>5. \A j \in 0 .. m : sum[j] \in Nat
  OBVIOUS
<1> HIDE DEF steps
<1> DEFINE Adds(j) == /\ IsFiniteSet(Before(j)) /\ Cardinality(Before(j)) \in Nat
                      /\ p[j + 1].dist = sum[j] + 5 * Cardinality(Before(j))
           T == {j \in 1 .. m : Adds(j)}
<1>6. Adds(1)
  <2>1. Before(1) = {}
    OBVIOUS
  <2>2. IsFiniteSet(Before(1)) /\ Cardinality(Before(1)) = 0
    BY <2>1, FS_EmptySet
  <2>3. 1 \in 1 .. m
    BY <1>1
  <2>4. p[1].dist = 0 /\ Ride(p[1].stop, steps[1]) = steps[1].time
    BY <1>0, <1>1 DEF Ride
  <2>5. p[1 + 1].dist = steps[1].time
    BY <1>2, <2>3, <2>4
  <2>6. sum[1] = sum[1 - 1] + steps[1].time /\ 1 - 1 = 0
    BY <1>4, <2>3
  <2>7. sum[1] = steps[1].time
    BY <1>2, <1>4, <2>3, <2>6
  <2> HIDE DEF Before
  <2> QED  BY <1>2, <2>2, <2>3, <2>5, <2>7
<1>7. ASSUME NEW j \in 1 .. m, j < m, Adds(j) PROVE Adds(j + 1)
  <2>1. j + 1 \in 1 .. m /\ (j + 1) - 1 = j /\ j \in 0 .. m /\ j + 1 \in 0 .. m
    BY <1>1, <1>7
  <2>2. sum[j + 1] = sum[j] + steps[j + 1].time
    BY <1>4, <2>1
  <2>3. /\ p[(j + 1) + 1].dist = p[j + 1].dist + Ride(p[j + 1].stop, steps[j + 1])
        /\ p[j + 1].stop.edge = steps[j] /\ steps[j] # NoEdge
    BY <1>0, <1>2, <2>1
  <2>4. sum[j] \in Nat /\ steps[j + 1].time \in Nat
    BY <1>2, <1>5, <2>1
  <2>5. CASE steps[j].route # steps[j + 1].route
    <3>1. Before(j + 1) = Before(j) \cup {j} /\ j \notin Before(j)
      BY <1>1, <2>1, <2>5
    <3> HIDE DEF Before
    <3>2. IsFiniteSet(Before(j + 1)) /\ Cardinality(Before(j + 1)) = Cardinality(Before(j)) + 1
      BY <1>7, <3>1, FS_AddElement
    <3>3. Ride(p[j + 1].stop, steps[j + 1]) = steps[j + 1].time + 5
      BY <2>3, <2>5 DEF Ride, RouteChangePenalty
    <3> HIDE DEF Before
    <3>4. p[(j + 1) + 1].dist = sum[j + 1] + 5 * Cardinality(Before(j + 1))
      BY <1>7, <2>2, <2>3, <2>4, <3>2, <3>3
    <3>5. Cardinality(Before(j + 1)) \in Nat
      BY <1>7, <3>2
    <3> QED  BY <3>2, <3>4, <3>5
  <2>6. CASE steps[j].route = steps[j + 1].route
    <3>1. Before(j + 1) = Before(j)
      BY <1>1, <2>1, <2>6
    <3>2. Ride(p[j + 1].stop, steps[j + 1]) = steps[j + 1].time
      BY <2>3, <2>6 DEF Ride
    <3> HIDE DEF Before
    <3>3. p[(j + 1) + 1].dist = sum[j + 1] + 5 * Cardinality(Before(j + 1))
      BY <1>7, <2>2, <2>3, <2>4, <3>1, <3>2
    <3> QED  BY <1>7, <3>1, <3>3
  <2> QED  BY <2>5, <2>6
<1>8. Adds(m)
  <2> HIDE DEF Adds
  <2>1. T \in SUBSET (1 .. m) /\ 1 \in T /\ 1 \in Int /\ m \in Int /\ m \in 1 .. m
    BY <1>1, <1>6
  <2>2. \A j \in T : j < m => j + 1 \in T
    BY <1>1, <1>7
  <2> HIDE DEF T
  <2>3. T = 1 .. m
    BY <2>1, <2>2, IntervalInduction
  <2> QED  BY <2>1, <2>3 DEF T
<1>9. Before(m) = Changes(steps)
  BY <1>3 DEF Changes
<1>10. steps[1].from = A /\ steps[m].to = Last(p).stop.node
  BY <1>0, <1>1, <1>2
<1> QED  BY <1>1, <1>3, <1>4, <1>8, <1>9, <1>10 DEF steps, RouteChangePenalty
=============================================================================
