-------------------------------- MODULE Trends -------------------------------
(***************************************************************************)
(* The trend arithmetic of history.py: least squares, the forecast of a    *)
(* full file system, and the averaging of samples into buckets.  A row is  *)
(* <<time, value>>; NoValue is the None of a host that was down.  Real     *)
(* quotients are kept as fractions, so floating point is left out.         *)
(***************************************************************************)
EXTENDS Lists, FiniteSets, FiniteSetsExt

CONSTANTS NoValue,
          MinSpan,               \* the shortest span that gives a forecast
          FlatDays               \* days to move a full size that count as flat

ASSUME TrendsAssumption == NoValue \notin Int /\ MinSpan \in Nat /\ FlatDays \in Nat

\* the rows whose value is not None
Known(rows) == Selected(Len(rows), {i \in DOMAIN rows : rows[i][2] # NoValue}, rows)
Xs(rows) == [i \in DOMAIN rows |-> rows[i][1]]
Ys(rows) == [i \in DOMAIN rows |-> rows[i][2]]
Products(f, g) == [i \in DOMAIN f |-> f[i] * g[i]]

\* linreg: the slope as a fraction [num, den], den = 0 where there is none
linreg(rows) ==
  LET n == Len(rows)  x == Xs(rows)  y == Ys(rows)
  IN  IF n < 2 THEN [num |-> 0, den |-> 0]
      ELSE [num |-> n * Total(Products(x, y)) - Total(x) * Total(y),
            den |-> n * Total(Products(x, x)) - Total(x) * Total(x)]

NoForecast == [trend |-> "none", slope |-> [num |-> 0, den |-> 0], left |-> 0]

\* forecast_capacity, in units of a day: days_to_full is left / slope
forecast_capacity(rows, size, used_now) ==
  LET pts == Known(rows)
      x == {pts[i][1] : i \in DOMAIN pts}
      slope == linreg(pts)
      used == IF used_now # NoValue THEN used_now ELSE pts[Len(pts)][2]
      flat == (IF slope.num < 0 THEN -slope.num ELSE slope.num) * FlatDays < size * slope.den
  IN  IF Len(pts) < 4 \/ size = 0 THEN NoForecast
      ELSE IF Max(x) - Min(x) < MinSpan \/ slope.den = 0 THEN NoForecast
      ELSE [trend |-> IF flat THEN "flat" ELSE IF slope.num <= 0 THEN "shrinking" ELSE "growing",
            slope |-> slope,
            left |-> IF used > size THEN 0 ELSE size - used]

-----------------------------------------------------------------------------
\* Mutant: the latest sample gets a bucket of its own.
Bucket_Last(ts, t0, t1, buckets) == ((ts - t0) * buckets) \div (t1 - t0)
\* downsample: the bucket of a time, the latest in the last one
Bucket(ts, t0, t1, buckets) ==
  LET b == ((ts - t0) * buckets) \div (t1 - t0) IN IF b > buckets - 1 THEN buckets - 1 ELSE b

\* the values of the rows in S that are not None
Average(rows, S) ==
  [sum   |-> Total([i \in DOMAIN rows |-> IF i \in S /\ rows[i][2] # NoValue THEN rows[i][2] ELSE 0]),
   count |-> Cardinality({i \in S : rows[i][2] # NoValue})]

\* the first and the last of the sorted rows are the earliest and the latest; acc[b]
\* is the set of the rows appended to it, and its keys are walked in their order
downsample(rows, buckets) ==
  LET times == {rows[i][1] : i \in DOMAIN rows}
      t0 == Min(times)  t1 == Max(times)
      acc(b) == {i \in DOMAIN rows : Bucket(rows[i][1], t0, t1, buckets) = b}
      point(b) == [at |-> t0 + (b * (t1 - t0)) \div buckets, avg |-> Average(rows, acc(b))]
  IN  IF rows = <<>> \/ buckets < 1 THEN <<>>
      ELSE IF t1 = t0 THEN <<[at |-> t0, avg |-> Average(rows, DOMAIN rows)]>>
      ELSE Selected(buckets + 1, {b \in 1 .. buckets + 1 : acc(b - 1) # {}},
                    [b \in 1 .. buckets + 1 |-> point(b - 1)])

-----------------------------------------------------------------------------
(* References *)

\* the sum of dx dy over all pairs of points
PairProducts(x, y) ==
  Total([j \in DOMAIN x |-> Total([i \in 1 .. j - 1 |-> (x[j] - x[i]) * (y[j] - y[i])])])
\* the slope from all pairs of points
SlopeByPairs(rows) == [num |-> PairProducts(Xs(rows), Ys(rows)),
                       den |-> PairProducts(Xs(rows), Xs(rows))]

(* Averaging neither loses nor invents a sample: at most `buckets` points, *)
(* in the order of time, whose sums and counts add up to those of the      *)
(* rows, each at a time inside the window.                                 *)
Conserved(rows, buckets, points) ==
  LET known == Known(rows)
      times == {rows[i][1] : i \in DOMAIN rows}
  IN  /\ Len(points) <= buckets
      /\ Total([i \in DOMAIN points |-> points[i].avg.sum]) = Total(Ys(known))
      /\ Total([i \in DOMAIN points |-> points[i].avg.count]) = Len(known)
      /\ \A i \in DOMAIN points : points[i].at \in Min(times) .. Max(times)
      /\ \A i, j \in DOMAIN points : i < j => points[i].at <= points[j].at

(* A forecast's slope is the least-squares one, computed here from all     *)
(* pairs of points; usage that never falls is not reported as shrinking,   *)
(* usage that never rises not as growing, and a full disk has no days left *)
(* rather than a negative number of them.                                  *)
SoundForecast(rows, forecast) ==
  LET pts == Known(rows)
      rise(i, j) == (pts[j][1] - pts[i][1]) * (pts[j][2] - pts[i][2])
      slope == SlopeByPairs(pts)
  IN  forecast.trend # "none" =>
        /\ forecast.slope.den > 0
        /\ forecast.slope.num * slope.den = slope.num * forecast.slope.den
        /\ (\A i, j \in DOMAIN pts : i < j => rise(i, j) >= 0) => forecast.trend # "shrinking"
        /\ (\A i, j \in DOMAIN pts : i < j => rise(i, j) <= 0) => forecast.trend # "growing"
        /\ forecast.left >= 0
=============================================================================
