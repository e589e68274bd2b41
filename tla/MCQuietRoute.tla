----------------------------- MODULE MCQuietRoute -----------------------------
(* The questions asked in the runs of QuietRoute: three or four routes     *)
(* over four stations, with several travel times and passenger counts.     *)
EXTENDS QuietRoute

CONSTANTS a, b, c, d

Between == {{x, y} : x, y \in {a, b, c, d}}

Times ==
    {[p \in Between |->
        CASE p = {a, b} -> 6 [] p = {a, c} -> ac [] p = {c, b} -> cb
          [] p = {c, d} -> cd [] OTHER -> 1] : ac \in {0, 4}, cb, cd \in {0, 1, 4}}

Courses == {<<b, c, a>>, <<d, c, b>>, <<a, d, c, b>>, <<a, d, b>>, <<d, c>>}

Ask(E, counts, slowdowns, quietnesses) ==
    [network : E, passengerCount : counts, stationA : {a}, stationB : {a, b, d},
     maxSlowdownPc : slowdowns, minQuietnessPc : quietnesses, maxNPaths : {3, 20}]

SomeNetworks ==
    {NetworkOf([r \in 1 .. 4 |-> <<<<a, b>>, <<a, c, b>>, two[1], two[2]>>[r]], t) :
        two \in Courses \X Courses, t \in Times}

Counts == {[s \in {a, b, c, d} |-> CASE s = c -> n [] s = d -> m [] OTHER -> 3] :
            n, m \in {0, 2}}

(* Three ways from a to b that take 45, 62 and 63 minutes: 63 is 40 % more *)
(* than 45, and 1 passenger is 80 % less than 5, as 2 is than 10.          *)
ThreeWays ==
    Ask({NetworkOf([r \in 1 .. 3 |-> <<<<a, c, b>>, <<a, d, b>>, <<a, b>>>>[r]],
                    [p \in Between |->
                        CASE p = {a, c} -> 20 [] p = {c, b} -> 25 [] p = {a, b} -> 63
                          [] OTHER -> 31])},
        {[s \in {a, b, c, d} |-> CASE s = c -> n [] s = d -> m [] OTHER -> 0] :
            n \in {5, 6, 10}, m \in 1 .. 3},
        {0, 40}, {0, 80})

MCProblems == Ask(SomeNetworks, Counts, {100}, {25}) \cup ThreeWays

(* The products of these numbers that are short of a whole number in IEEE  *)
(* 754 double precision: 45 * (1 + 0.4) < 63 and 5 * (1 - 0.8) < 1.        *)
MCShorts == {<<45, 140>>, <<85, 140>>, <<90, 140>>, <<5, 20>>, <<10, 20>>, <<15, 20>>}
NoShorts == {}

(* Two ways from a to b with a link from one to the other: the path that   *)
(* takes the link is lost.                                                 *)
LinkedWays ==
    Ask({NetworkOf([r \in 1 .. 3 |-> <<<<a, c, b>>, <<a, d, b>>, <<d, c>>>>[r]],
                    [p \in Between |-> IF p = {c, d} THEN 1 ELSE 10])},
        {[s \in {a, b, c, d} |-> 0]}, {100}, {0})

(* Two ways from a to b, the longer one by a station that more passengers  *)
(* have left than entered.                                                 *)
TwoWays ==
    Ask({NetworkOf([r \in 1 .. 2 |-> <<<<a, c, b>>, <<a, d, c, b>>>>[r]],
                    [p \in Between |-> 1])},
        {[s \in {a, b, c, d} |-> IF s = d THEN -3 ELSE 0]}, {100}, {0})
=============================================================================
