------------------------------- MODULE Charts -------------------------------
(***************************************************************************)
(* The drawing of the dashboard: frontend/src/components/charts, geometry  *)
(* of the columns, the line and the two axes, and components/BarList.      *)
(* A chart that is wrong here does not look ugly: it lies.                 *)
(*                                                                         *)
(* Points are one band apart.  Heights count upwards, in the unit of their *)
(* axis; a slope is a rise over one band.  Values of an axis are integers  *)
(* in a small unit, ten or more of it, and doubled where a step of 2.5     *)
(* needs it.                                                               *)
(***************************************************************************)
EXTENDS Integers, Sequences, FiniteSets, SequencesExt

(* A fraction with a positive denominator.                                 *)
Over(n, d) == IF d < 0 THEN <<0 - n, 0 - d>> ELSE <<n, d>>

(* n/d lies between the integers a and b.                                  *)
Between(f, a, b) ==
  \/ a * f[2] <= f[1] /\ f[1] <= b * f[2]
  \/ b * f[2] <= f[1] /\ f[1] <= a * f[2]

Slope(points, i) == points[i + 1] - points[i]

(* Bug for checking: the mean of the neighbouring slopes, as a tension     *)
(* curve takes it.                                                         *)
TangentBug(points, i) ==
  IF i = 1 THEN <<Slope(points, 1), 1>>
  ELSE IF i = Len(points) THEN <<Slope(points, i - 1), 1>>
  ELSE <<Slope(points, i - 1) + Slope(points, i), 2>>

(* The tangent at a point: flat where the slopes change sign, and a        *)
(* harmonic mean of them, weighted by the widths, elsewhere.               *)
Tangent(points, i) ==
  IF i = 1 THEN <<Slope(points, 1), 1>>
  ELSE IF i = Len(points) THEN <<Slope(points, i - 1), 1>>
  ELSE LET before == Slope(points, i - 1)
           after == Slope(points, i)
       IN IF before * after <= 0 THEN <<0, 1>>
          ELSE Over(6 * before * after, 3 * after + 3 * before)

(* The control points of the curve from one point to the next, a third of  *)
(* a band from each.                                                       *)
FromLeft(points, i) ==
  LET t == Tangent(points, i) IN <<points[i] * 3 * t[2] + t[1], 3 * t[2]>>
FromRight(points, i) ==
  LET t == Tangent(points, i + 1) IN <<points[i + 1] * 3 * t[2] - t[1], 3 * t[2]>>

(* The line: with two points it is straight, with one there is none.       *)
Curve(points) ==
  IF Len(points) < 3 THEN <<>>
  ELSE [i \in 1..(Len(points) - 1) |-> <<FromLeft(points, i), FromRight(points, i)>>]

(* The curve never leaves the values it joins: no work is drawn below zero *)
(* and no peak that was not reached: geometry.ts, 42-48.                   *)
CurveStaysBetween(points) ==
  \A i \in DOMAIN Curve(points) : \A k \in {1, 2} :
    Between(Curve(points)[i][k], points[i], points[i + 1])

-----------------------------------------------------------------------------
(* The two axes, with the same number of lines.                            *)

Powers == {1, 10, 100, 1000, 10000, 100000}
Magnitude(max, intervals) ==
  CHOOSE p \in Powers : p * intervals <= max /\ 10 * p * intervals > max

(* Twice the step: 1, 2, 2.5, 5 or 10 of the magnitude, the first that     *)
(* reaches.                                                                *)
Ladder == <<2, 4, 5, 10, 20>>
Step(max, intervals) ==
  LET p == Magnitude(max, intervals)
      reaching == {k \in DOMAIN Ladder : Ladder[k] * p * intervals >= 2 * max}
  IN Ladder[CHOOSE k \in reaching : \A j \in reaching : k <= j] * p

(* Twice the top of an axis; an empty one counts its lines.                *)
Top(max, intervals) == IF max <= 0 THEN 2 * intervals ELSE Step(max, intervals) * intervals

(* How much of the two axes is left empty, over a common denominator.      *)
Waste(a, b, intervals) ==
  LET one(max) == IF max > 0 THEN max ELSE 1
      share(max, other) == IF max > 0 THEN Top(max, intervals) * one(other)
                           ELSE 2 * one(other)
  IN share(a, b) + share(b, a)

(* The first of 4, 5 and 3 that wastes least.                              *)
Intervals == <<4, 5, 3>>
AlignedScales(a, b) ==
  LET best == {k \in 1..3 : \A j \in 1..3 :
                 Waste(a, b, Intervals[k]) <= Waste(a, b, Intervals[j])}
      n == Intervals[CHOOSE k \in best : \A j \in best : k <= j]
  IN [lines |-> n, a |-> Top(a, n), b |-> Top(b, n)]

(* Both axes reach their greatest value and leave less than half empty, so *)
(* no column is cut and none is squeezed: geometry.ts, 164-176.            *)
ScalesHold(a, b) ==
  LET s == AlignedScales(a, b) IN
  /\ s.a >= 2 * a /\ s.b >= 2 * b
  /\ (a > 0 => s.a < 4 * a) /\ (b > 0 => s.b < 4 * b)

(* A column with rounded corners that is not taller than its value: the    *)
(* curve of a corner starts above the base.                                *)
Radius(width, height) ==
  LET least == IF width \div 2 < height THEN width \div 2 ELSE height
  IN IF least > 4 THEN 4 ELSE least

-----------------------------------------------------------------------------
(* Rankings: sequences of items with a key and a value.                    *)

(* The greatest first; equal ones stay in their order.                     *)
Ranked(items) ==
  LET placed == [i \in DOMAIN items |-> [item |-> items[i], place |-> i]]
      sorted == SortSeq(placed, LAMBDA p, q :
                  \/ p.item.value > q.item.value
                  \/ p.item.value = q.item.value /\ p.place < q.place)
  IN [i \in DOMAIN items |-> sorted[i].item]

ValueSum(items) == FoldSeq(LAMBDA item, sum : item.value + sum, 0, items)

(* The bars: the first of the ranking; the rest is folded into "Outros",   *)
(* which cannot be chosen.                                                 *)
Bars(items, maxItems) ==
  LET ranked == Ranked(items)
      visible == SubSeq(ranked, 1, IF Len(items) < maxItems THEN Len(items) ELSE maxItems)
      overflow == SubSeq(ranked, Len(visible) + 1, Len(items))
  IN [visible |-> visible, folded |-> overflow, others |-> ValueSum(overflow)]

(* The arcs of the ring, in turns of the total: a slice that is not there  *)
(* has none, and each begins where the one before ends.                    *)
Arcs(slices) ==
  LET present == SelectSeq(slices, LAMBDA s : s.value > 0)
  IN [i \in DOMAIN present |->
        [key |-> present[i].key, offset |-> ValueSum(SubSeq(present, 1, i - 1)),
         length |-> present[i].value]]

(* A ranking drops no value, bar or arc, and folds none that is greater    *)
(* than one it shows: DonutChart.tsx, 64-78,                               *)
(* BarList/index.tsx, 59-77.                                               *)
RankingWhole(items, maxItems) ==
  LET bars == Bars(items, maxItems)
      arcs == Arcs(items)
  IN /\ ValueSum(bars.visible) + bars.others = ValueSum(items)
     /\ \A i \in DOMAIN bars.visible, j \in DOMAIN bars.folded :
          bars.visible[i].value >= bars.folded[j].value
     /\ arcs # <<>> => Last(arcs).offset + Last(arcs).length = ValueSum(items)
=============================================================================
