---------------------------- MODULE FuzzyRudder ----------------------------
(* The three sketches that steer with a fuzzy controller, and the eFLL       *)
(* library under it: fuzzify(), the rules, truncate(), build(), avaliate().  *)
(* Directions and turns are whole degrees, rudder commands twelfths of one,  *)
(* degrees of membership fractions of Unit. mydirection is "the difference   *)
(* between desired heading and current heading" that the sketches still set  *)
(* by hand, so it takes any value here.                                      *)
EXTENDS Integers, Sequences, SequencesExt, FiniteSetsExt

CONSTANTS
  Directions,  \* bound: values of mydirection
  Turns        \* bound: values of myturn, which the gyroscope gives

Unit == 240    \* 1.0 as a degree of membership
EPS == 3       \* 1.0E-3 in the units of denom

VARIABLES
  sketch,      \* the program on the board
  input,       \* [direction, turn] of the last loop()
  strength,    \* pertinence of each output set
  fired,       \* the rules that fired
  rudder       \* outputone

vars == <<sketch, input, strength, fired, rudder>>

-----------------------------------------------------------------------------
(* The sketches' sets <<a, b, c, d>> and rules                              *)

Triangles == "fuzzyrudderwnonsingleton"
Singletons == {"fuzzyrudderinputthree", "fuzzyruddercontrol"}
Sketches == Singletons \union {Triangles}

DirectionSets ==
  IF sketch = Triangles
    THEN [strongleft |-> <<-180, -90, -90, -30>>, left |-> <<-90, -30, -30, 0>>,
          middle |-> <<-30, -15, 15, 30>>,
          right |-> <<0, 30, 30, 90>>, strongright |-> <<30, 90, 90, 180>>]
    ELSE [strongleft |-> <<-180, -100, -100, -45>>, left |-> <<-90, -45, -45, 0>>,
          middle |-> <<-45, -15, 15, 45>>,
          right |-> <<0, 45, 45, 90>>, strongright |-> <<45, 100, 100, 180>>]

FastTurn ==
  CASE sketch = "fuzzyrudderinputthree" -> 180
    [] sketch = "fuzzyruddercontrol" -> 1000
    [] OTHER -> 50

TurnSets ==
  [leftturn |-> <<-FastTurn, -FastTurn, -20, 0>>, neutralturn |-> <<-20, 0, 0, 20>>,
   rightturn |-> <<0, 20, FastTurn, FastTurn>>]

RudderSets ==
  IF sketch = Triangles
    THEN [strongleftrud |-> <<-180, -90, -90, -45>>, leftrud |-> <<-90, -45, -45, 0>>,
          neutralrud |-> <<-45, 0, 0, 45>>,
          rightrud |-> <<0, 45, 45, 90>>, strongrightrud |-> <<45, 90, 90, 180>>]
    ELSE [strongleftrud |-> <<-1800, -1800, -1800, -1800>>,
          leftrud |-> <<-600, -600, -600, -600>>, neutralrud |-> <<0, 0, 0, 0>>,
          rightrud |-> <<600, 600, 600, 600>>,
          strongrightrud |-> <<1800, 1800, 1800, 1800>>]

\* order() has sorted them by their point a.
RudderOrder == <<"strongleftrud", "leftrud", "neutralrud", "rightrud", "strongrightrud">>

\* if the direction is [1] and the turn is [2] then the rudder is [3]. The
\* antecedent of rule 12 is never joined (mode 0, it evaluates to 0): setup()
\* joins (right, rightturn) into the antecedent of rule 14 instead.
NotJoined == <<"none", "none", "neutralrud">>

Rules ==
  <<<<"left", "leftturn", "neutralrud">>, <<"left", "neutralturn", "leftrud">>,
    <<"left", "rightturn", "strongleftrud">>, <<"strongleft", "leftturn", "leftrud">>,
    <<"strongleft", "neutralturn", "strongleftrud">>,
    <<"strongleft", "rightturn", "strongleftrud">>,
    <<"middle", "neutralturn", "neutralrud">>, <<"middle", "leftturn", "rightrud">>,
    <<"middle", "rightturn", "leftrud">>, <<"right", "leftturn", "strongrightrud">>,
    <<"right", "neutralturn", "rightrud">>, NotJoined,
    <<"strongright", "neutralturn", "strongrightrud">>,
    <<"right", "rightturn", "rightrud">>,
    <<"strongright", "leftturn", "strongrightrud">>>>

-----------------------------------------------------------------------------
(* fuzzify                                                                  *)

calculatePertinence(set, x) ==
  LET a == set[1] b == set[2] c == set[3] d == set[4]
  IN CASE x < a -> IF a = b /\ b # c /\ c # d THEN Unit ELSE 0
       [] x >= a /\ x < b -> Unit - (Unit * (b - x)) \div (b - a)
       [] x >= b /\ x <= c -> Unit
       [] x > c /\ x <= d -> Unit - (Unit * (x - c)) \div (d - c)
       [] OTHER -> IF c = d /\ c # b /\ b # a THEN Unit ELSE 0

Antecedent(rule, in) ==
  IF rule = NotJoined THEN 0
  ELSE Min({calculatePertinence(DirectionSets[rule[1]], in.direction),
            calculatePertinence(TurnSets[rule[2]], in.turn)})

\* A plausible bug: the degrees of the last loop() are not reset.
EvaluateWithoutReset(in, before) ==
  [s \in DOMAIN before |->
     Max({strength[s]} \union {Antecedent(Rules[i], in) : i \in {j \in 1..15 : Rules[j][3] = s}})]

\* setPertinence() keeps the largest degree since reset().
Evaluate(in, before) ==
  [s \in DOMAIN before |->
     Max({before[s]} \union {Antecedent(Rules[i], in) : i \in {j \in 1..15 : Rules[j][3] = s}})]

reset == [s \in DOMAIN RudderSets |-> 0]

-----------------------------------------------------------------------------
(* truncate, build and avaliate: points <<x, degree>>                       *)

PointsOf(set, p) == <<<<set[1], 0>>, <<set[2], p>>, <<set[3], p>>, <<set[4], 0>>>>

\* checkPoint() leaves out a point that is there already, of any set.
AddPoint(points, q) == IF Contains(points, q) THEN points ELSE Append(points, q)

Truncated(str) ==
  FoldLeft(LAMBDA points, s :
             IF str[s] = 0 THEN points
             ELSE FoldLeft(AddPoint, points, PointsOf(RudderSets[s], str[s])),
           <<>>, RudderOrder)

Abs(n) == IF n < 0 THEN -n ELSE n

\* Where rebuild() sees two segments cross, <<>> if nowhere. It drops the
\* signs, so crossings before the start of a segment count as well.
Crossing(a1, a2, b1, b2) ==
  LET denom == Abs((b2[2] - b1[2]) * (a2[1] - a1[1]) - (b2[1] - b1[1]) * (a2[2] - a1[2]))
      numera == Abs((b2[1] - b1[1]) * (a1[2] - b1[2]) - (b2[2] - b1[2]) * (a1[1] - b1[1]))
      numerb == Abs((a2[1] - a1[1]) * (a1[2] - b1[2]) - (a2[2] - a1[2]) * (a1[1] - b1[1]))
  IN IF denom < EPS \/ numera > denom \/ numerb > denom THEN <<>>
     ELSE <<a1[1] + (numera * (a2[1] - a1[1])) \div denom,
            a1[2] + (numera * (a2[2] - a1[2])) \div denom>>

\* From point i back to the last one that is left of its predecessor.
TurnsBack(points, i) ==
  Max({1} \union {t \in 2..i : points[t][1] < points[t - 1][1]})

\* The segment at t against each earlier one, the nearest first; where they
\* cross, the points between are replaced by the crossing.
Crossed(points, t) ==
  {s \in 3..t : Crossing(points[t], points[t + 1], points[s - 1], points[s - 2]) # <<>>}

RECURSIVE Build(_, _)
Build(points, i) ==
  IF i > Len(points) THEN points
  ELSE LET t == TurnsBack(points, i)
       IN IF t = 1 \/ Crossed(points, t) = {} THEN Build(points, i + 1)
          ELSE LET s == Max(Crossed(points, t))
                   q == Crossing(points[t], points[t + 1], points[s - 1], points[s - 2])
               IN Build(SubSeq(points, 1, s - 2) \o <<q>>
                          \o SubSeq(points, t + 1, Len(points)), 2)

\* Area and middle of the segment between two points.
Area(p, q) ==
  CASE p[1] = q[1] -> p[2]
    [] p[1] # q[1] /\ (p[2] = 0 \/ q[2] = 0) -> ((q[1] - p[1]) * Max({p[2], q[2]})) \div 2
    [] OTHER -> ((p[2] + q[2]) * (q[1] - p[1])) \div 2

Middle(p, q) == IF p[1] = q[1] THEN p[1] ELSE (q[1] - p[1]) \div 2 + p[1]

avaliate(points) ==
  LET segments == 1..(Len(points) - 1)
      area == [k \in segments |-> Area(points[k], points[k + 1])]
      numerator == MapThenSumSet(LAMBDA k : Middle(points[k], points[k + 1]) * area[k], segments)
      denominator == MapThenSumSet(LAMBDA k : area[k], segments)
  IN IF denominator = 0 THEN 0 ELSE numerator \div denominator

-----------------------------------------------------------------------------
Init ==
  /\ sketch \in Sketches
  /\ input = [direction |-> IF sketch = "fuzzyrudderinputthree" THEN 0 ELSE 30, turn |-> 0]
  /\ strength = reset /\ fired = {} /\ rudder = 0

loop ==
  \E x \in Directions, y \in Turns :
    LET in == [direction |-> x, turn |-> y]
        str == Evaluate(in, reset)
    IN /\ input' = in
       /\ strength' = str
       /\ fired' = {i \in 1..15 : Antecedent(Rules[i], in) > 0}
       /\ rudder' = avaliate(Build(Truncated(str), 1))
       /\ UNCHANGED sketch

Next == loop

Spec == Init /\ [][Next]_vars

-----------------------------------------------------------------------------
(* Properties *)

\* Whatever an earlier loop() has left in the sets: a boat that has to turn
\* right and does not do so yet gets no left rudder, and the controller with
\* triangles gives right rudder; and the mirror image.
RudderTowardsCourse ==
  [][LET x == input'.direction y == input'.turn
         needed == IF sketch = Triangles THEN 1 ELSE 0
     IN /\ (x >= 15 /\ x < 180 /\ y <= 0) => rudder' >= needed
        /\ (x <= -15 /\ x > -180 /\ y >= 0) => rudder' <= -needed]_vars

\* Where every rule that fires asks for the same rudder set the command lies in
\* that set: the library "supports triangular membership functions,
\* trapezoidal and singleton" (README.md:51).
LoneSetDecides ==
  [][\A s \in DOMAIN RudderSets :
       (\A i \in fired' : Rules[i][3] = s) /\ fired' # {} =>
         rudder' >= RudderSets[s][1] /\ rudder' <= RudderSets[s][4]]_vars
=============================================================================
