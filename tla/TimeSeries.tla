----------------------------- MODULE TimeSeries -----------------------------
(***************************************************************************)
(* TimeSeriesBuffer: the samples the GUI draws from, and above them a      *)
(* pyramid of levels, each bucket of which stands for Branch buckets of    *)
(* the level below (level 1: for Branch samples).                          *)
(*                                                                         *)
(* A sample's value is its identity; a bucket, whose extrema are those of  *)
(* its samples, is the set of them with the sum of their times.            *)
(***************************************************************************)
EXTENDS DeltaTs

CONSTANTS
  Branch,    \* kBranch
  Levels     \* kMaxLevels

ASSUME TimeSeriesAssumption == {Branch, Levels} \subseteq Nat \ {0}

NoBucket   == [ids |-> {}, sum |-> 0, count |-> 0]
EmptyLevel == [data |-> << >>, pending |-> NoBucket]
EmptySeries == [ts |-> Blank, vals |-> << >>, levels |-> [k \in 1 .. Levels |-> EmptyLevel]]

\* A bucket at level k with n entries of the level below holds n of them.
Added(level, s) ==
  LET p == [ids |-> level.pending.ids \union s.ids, sum |-> level.pending.sum + s.sum,
            count |-> level.pending.count + 1]
  IN IF p.count >= Branch
     THEN [data |-> Append(level.data, p), pending |-> NoBucket]
     ELSE [level EXCEPT !.pending = p]

\* A full bucket moves to the data of its level and on to the next level.
FeedLevel(levels, s) ==
  LET fed[k \in 0 .. Levels] ==   \* what levels 1 .. k have become, what goes on to k + 1
        IF k = 0 THEN [levels |-> levels, up |-> {s}]
        ELSE LET r == fed[k - 1]
                 l == IF r.up = {} THEN levels[k] ELSE Added(levels[k], CHOOSE x \in r.up : TRUE)
             IN [levels |-> [r.levels EXCEPT ![k] = l],
                 up |-> IF Len(l.data) > Len(levels[k].data) THEN {l.data[Len(l.data)]} ELSE {}]
  IN fed[Levels].levels

Leaf(v, t) == [ids |-> {v}, sum |-> t, count |-> 1]

Push(s, v, t) ==
  [ts |-> PushBack(s.ts, t), vals |-> Append(s.vals, v), levels |-> FeedLevel(s.levels, Leaf(v, t))]

PushAll(s, vals, times) ==
  LET pushed[i \in 0 .. Len(vals)] ==
        IF i = 0 THEN s ELSE Push(pushed[i - 1], vals[i], times[i])
  IN pushed[Len(vals)]

\* Without its first n samples; the buckets in front whose mean time is
\* before the new front, the means growing, go too.
DropFront(s, n) ==
  LET ts == Popped(s.ts, n)
      Kept(k, b) == Size(ts) # 0 /\ b.sum >= At(ts, 1) * Branch ^ k
  IN IF n = 0 THEN s
     ELSE [ts |-> ts, vals |-> SubSeq(s.vals, n + 1, Len(s.vals)),
           levels |-> [k \in 1 .. Levels |->
             [s.levels[k] EXCEPT !.data = SelectSeq(@, LAMBDA b : Kept(k, b))]]]

\* The pyramid over the given samples, fed into the given levels.
Rebuilt(levels, ts, vals) ==
  LET built[i \in 0 .. Len(vals)] ==
        IF i = 0 THEN levels ELSE FeedLevel(built[i - 1], Leaf(vals[i], At(ts, i)))
  IN built[Len(vals)]

\* Broken variant: the buckets that are being filled are not emptied.
KeepsPending(levels) == [k \in 1 .. Levels |-> [levels[k] EXCEPT !.data = << >>]]

Cleared(levels) == [k \in 1 .. Levels |-> EmptyLevel]

\* Without the samples of the closed interval.
DiscardTimeRange(s, tMin, tMax) ==
  LET first == LowerBound(s.ts, tMin)
      last  == UpperBound(s.ts, tMax)
      ts    == EraseRange(s.ts, first, last)
      vals  == Without(s.vals, first, last)
  IN IF first >= last THEN s
     ELSE [ts |-> ts, vals |-> vals, levels |-> Rebuilt(Cleared(s.levels), ts, vals)]

Exact(s) == [s EXCEPT !.ts = PreserveExact(@)]
=============================================================================
