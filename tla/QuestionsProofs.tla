--------------------------- MODULE QuestionsProofs ---------------------------
(***************************************************************************)
(* Theorems about the pure functions: the averages and forecasts of        *)
(* history.py for every list of samples, and the overview of every fleet.  *)
(* The loops of the code are recursive functions over the rows; what they  *)
(* hold after so many turns is shown by induction on the turns.            *)
(***************************************************************************)
EXTENDS Questions, FiniteSetTheorems, WellFoundedInduction, TLAPS

-----------------------------------------------------------------------------
(* Loops *)

\* Induction over the turns of a loop, as a statement about the set of the turns
\* after which something holds.
LEMMA TurnInduction ==
    ASSUME NEW n \in Nat, NEW T, 0 \in T, \A m \in 0 .. n - 1 : m \in T => m + 1 \in T
    PROVE  \A m \in 0 .. n : m \in T
  <1> DEFINE Bad == 0 .. n \ T
             Less == {ss \in Nat \X Nat : ss[1] < ss[2]}
  <1>1. SUFFICES ASSUME Bad # {} PROVE FALSE
    OBVIOUS
  <1>2. IsWellFoundedOn(Less, Nat)
    BY NatLessThanWellFounded DEF OpToRel
  <1>3. Bad \subseteq Nat
    OBVIOUS
  <1>4. PICK x \in Bad : \A y \in Bad : ~ (<<y, x>> \in Less)
    BY <1>1, <1>2, <1>3, WFMin
  <1>5. x \in Nat /\ x # 0 /\ x - 1 \in 0 .. n - 1 /\ x \notin T /\ (x - 1) + 1 = x
    BY <1>3, <1>4
  <1>6. <<x - 1, x>> \in Less
    BY <1>5
  <1>7. x - 1 \in T
    BY <1>4, <1>5, <1>6
  <1> QED
    BY <1>5, <1>7

\* g holds the states of a loop of n turns from base, whose turn i maps the state by step[i].
Run(g, n, V, base, step) ==
  /\ g \in [0 .. n -> V]
  /\ g[0] = base
  /\ \A i \in 1 .. n : g[i] = step[i][g[i - 1]]

\* Such a loop runs: the states after each of its turns exist.
LEMMA LoopRuns ==
    ASSUME NEW n \in Nat, NEW V, NEW base \in V, NEW step \in [1 .. n -> [V -> V]]
    PROVE  \E g : Run(g, n, V, base, step)
  <1> DEFINE T == {m \in 0 .. n : \E g : Run(g, m, V, base, step)}
  <1>1. 0 \in T
    <2> DEFINE g == [i \in 0 .. 0 |-> base]
    <2>1. g \in [0 .. 0 -> V] /\ g[0] = base /\ 1 .. 0 = {} /\ 0 \in 0 .. n
      OBVIOUS
    <2>2. Run(g, 0, V, base, step)
      BY <2>1 DEF Run
    <2> HIDE DEF g
    <2> QED
      BY <2>1, <2>2
  <1>2. ASSUME NEW m \in 0 .. n - 1, m \in T PROVE m + 1 \in T
    <2>1. PICK g : Run(g, m, V, base, step)
      BY <1>2
    <2> DEFINE f == [i \in 0 .. m + 1 |-> IF i = m + 1 THEN step[m + 1][g[m]] ELSE g[i]]
    <2>2. m \in Nat /\ m + 1 \in 1 .. n /\ m + 1 \in 0 .. n
      OBVIOUS
    <2>3. step[m + 1][g[m]] \in V
      <3>1. step[m + 1] \in [V -> V] /\ g[m] \in V
        BY <2>1, <2>2 DEF Run
      <3> QED
        BY <3>1
    <2>4. f \in [0 .. m + 1 -> V]
      BY <2>1, <2>2, <2>3 DEF Run
    <2>5. f[0] = base
      BY <2>1, <2>2 DEF Run
    <2>6. \A i \in 1 .. m + 1 : f[i] = step[i][f[i - 1]]
      BY <2>1, <2>2 DEF Run
    <2> HIDE DEF f
    <2>7. Run(f, m + 1, V, base, step)
      BY <2>4, <2>5, <2>6 DEF Run
    <2> QED
      BY <2>2, <2>7
  <1> HIDE DEF T
  <1>3. \A m \in 0 .. n : m \in T
    BY <1>1, <1>2, TurnInduction
  <1>4. n \in T
    BY <1>3
  <1> QED
    BY <1>4 DEF T

-----------------------------------------------------------------------------
(* Sums *)

\* The running sums of f; Total is the last of them.
Sums(f) == CHOOSE s : s = [i \in 0 .. Len(f) |-> IF i = 0 THEN 0 ELSE s[i - 1] + f[i]]

LEMMA TotalIsLast == \A f : Total(f) = Sums(f)[Len(f)]
  BY DEF Total, Sums

\* A function on 1 .. n is a list of length n.
LEMMA Listing ==
    ASSUME NEW n \in Nat, NEW V, NEW f \in [1 .. n -> V]
    PROVE  f \in Seq(V) /\ Len(f) = n
  OBVIOUS

\* Each running sum adds the next number to the one before.
LEMMA SumsStep ==
    ASSUME NEW n \in Nat, NEW f \in [1 .. n -> Int]
    PROVE  /\ Sums(f)[0] = 0 /\ Total(f) = Sums(f)[n] /\ Total(f) \in Int
           /\ \A i \in 1 .. n : Sums(f)[i] = Sums(f)[i - 1] + f[i]
           /\ \A i \in 0 .. n : Sums(f)[i] \in Int
  <1> DEFINE step == [i \in 1 .. n |-> [v \in Int |-> v + f[i]]]
             s == Sums(f)
  <1>0. Len(f) = n
    BY Listing
  <1>1. 0 \in Int /\ \A i \in 1 .. n : f[i] \in Int
    OBVIOUS
  <1>2. step \in [1 .. n -> [Int -> Int]]
    BY <1>1
  <1>3. PICK g : Run(g, n, Int, 0, step)
    <2> HIDE DEF step
    <2> QED
      BY <1>1, <1>2, LoopRuns, Zenon
  <1>4. ASSUME NEW i \in 1 .. n PROVE g[i] = g[i - 1] + f[i]
    <2>1. i - 1 \in 0 .. n /\ g[i - 1] \in Int /\ g[i] = step[i][g[i - 1]]
      <3> HIDE DEF step
      <3> QED
        BY <1>3 DEF Run
    <2>2. step[i] = [v \in Int |-> v + f[i]]
      OBVIOUS
    <2>3. step[i][g[i - 1]] = g[i - 1] + f[i]
      BY <2>1, <2>2
    <2> HIDE DEF step
    <2> QED
      BY <2>1, <2>3
  <1> HIDE DEF step
  <1>5. g = [i \in 0 .. n |-> IF i = 0 THEN 0 ELSE g[i - 1] + f[i]]
    BY <1>3, <1>4 DEF Run
  <1>6. s = [i \in 0 .. n |-> IF i = 0 THEN 0 ELSE s[i - 1] + f[i]]
    BY <1>0, <1>5 DEF Sums
  <1>7. s[n] = Total(f)
    BY <1>0, TotalIsLast
  <1> HIDE DEF s
  <1>8. s[0] = 0 /\ \A i \in 1 .. n : s[i] = s[i - 1] + f[i]
    BY <1>6
  <1>9. \A i \in 0 .. n : s[i] \in Int
    <2> DEFINE T == {m \in 0 .. n : s[m] \in Int}
    <2>1. 0 \in T
      BY <1>8
    <2>2. ASSUME NEW m \in 0 .. n - 1, m \in T PROVE m + 1 \in T
      <3>1. m + 1 \in 1 .. n /\ m + 1 \in 0 .. n /\ (m + 1) - 1 = m /\ f[m + 1] \in Int
        BY <1>1
      <3>2. s[m + 1] = s[m] + f[m + 1]
        BY <1>8, <3>1
      <3> QED
        BY <2>2, <3>1, <3>2
    <2> HIDE DEF T
    <2>3. \A m \in 0 .. n : m \in T
      BY <2>1, <2>2, TurnInduction
    <2> QED
      BY <2>3 DEF T
  <1> QED
    BY <1>7, <1>8, <1>9 DEF s

\* A sum of sums is the sum of the termwise sums.
LEMMA TotalAdd ==
    ASSUME NEW n \in Nat, NEW f \in [1 .. n -> Int], NEW g \in [1 .. n -> Int],
           NEW h \in [1 .. n -> Int], \A i \in 1 .. n : h[i] = f[i] + g[i]
    PROVE  Total(h) = Total(f) + Total(g)
  <1> DEFINE a == Sums(f)
             b == Sums(g)
             c == Sums(h)
             T == {m \in 0 .. n : c[m] = a[m] + b[m]}
  <1>1. /\ a[0] = 0 /\ Total(f) = a[n]
        /\ \A i \in 1 .. n : a[i] = a[i - 1] + f[i]
        /\ \A i \in 0 .. n : a[i] \in Int
    BY SumsStep
  <1>2. /\ b[0] = 0 /\ Total(g) = b[n]
        /\ \A i \in 1 .. n : b[i] = b[i - 1] + g[i]
        /\ \A i \in 0 .. n : b[i] \in Int
    BY SumsStep
  <1>3. /\ c[0] = 0 /\ Total(h) = c[n]
        /\ \A i \in 1 .. n : c[i] = c[i - 1] + h[i]
        /\ \A i \in 0 .. n : c[i] \in Int
    BY SumsStep
  <1> HIDE DEF a, b, c
  <1>4. 0 \in T
    BY <1>1, <1>2, <1>3
  <1>5. ASSUME NEW m \in 0 .. n - 1, m \in T PROVE m + 1 \in T
    BY <1>1, <1>2, <1>3, <1>5, SMTT(30)
  <1> HIDE DEF T
  <1>6. \A m \in 0 .. n : m \in T
    BY <1>4, <1>5, TurnInduction
  <1> QED
    BY <1>1, <1>2, <1>3, <1>6 DEF T

\* Termwise smaller numbers have the smaller sum.
LEMMA TotalMonotone ==
    ASSUME NEW n \in Nat, NEW f \in [1 .. n -> Int], NEW g \in [1 .. n -> Int],
           \A i \in 1 .. n : f[i] <= g[i]
    PROVE  Total(f) <= Total(g)
  <1> DEFINE a == Sums(f)
             b == Sums(g)
             T == {m \in 0 .. n : a[m] <= b[m]}
  <1>1. /\ a[0] = 0 /\ Total(f) = a[n]
        /\ \A i \in 1 .. n : a[i] = a[i - 1] + f[i]
        /\ \A i \in 0 .. n : a[i] \in Int
    BY SumsStep
  <1>2. /\ b[0] = 0 /\ Total(g) = b[n]
        /\ \A i \in 1 .. n : b[i] = b[i - 1] + g[i]
        /\ \A i \in 0 .. n : b[i] \in Int
    BY SumsStep
  <1> HIDE DEF a, b
  <1>3. 0 \in T
    BY <1>1, <1>2
  <1>4. ASSUME NEW m \in 0 .. n - 1, m \in T PROVE m + 1 \in T
    BY <1>1, <1>2, <1>4
  <1> HIDE DEF T
  <1>5. \A m \in 0 .. n : m \in T
    BY <1>3, <1>4, TurnInduction
  <1> QED
    BY <1>1, <1>2, <1>5 DEF T

\* A sum with at most one term that is not 0 is that term.
LEMMA TotalSingle ==
    ASSUME NEW n \in Nat, NEW f \in [1 .. n -> Int], NEW k \in 1 .. n,
           \A i \in 1 .. n : i # k => f[i] = 0
    PROVE  Total(f) = f[k]
  <1> DEFINE a == Sums(f)
             T == {m \in 0 .. n : a[m] = IF m < k THEN 0 ELSE f[k]}
  <1>1. /\ a[0] = 0 /\ Total(f) = a[n]
        /\ \A i \in 1 .. n : a[i] = a[i - 1] + f[i]
        /\ \A i \in 0 .. n : a[i] \in Int
    BY SumsStep
  <1> HIDE DEF a
  <1>2. 0 \in T
    BY <1>1
  <1>3. ASSUME NEW m \in 0 .. n - 1, m \in T PROVE m + 1 \in T
    BY <1>1, <1>3
  <1> HIDE DEF T
  <1>4. \A m \in 0 .. n : m \in T
    BY <1>2, <1>3, TurnInduction
  <1> QED
    BY <1>1, <1>4 DEF T

\* n equal terms.
LEMMA TotalConstant ==
    ASSUME NEW n \in Nat, NEW f \in [1 .. n -> Int], NEW c \in Int,
           \A i \in 1 .. n : f[i] = c
    PROVE  Total(f) = n * c
  <1> DEFINE a == Sums(f)
             T == {m \in 0 .. n : a[m] = m * c}
  <1>1. /\ a[0] = 0 /\ Total(f) = a[n]
        /\ \A i \in 1 .. n : a[i] = a[i - 1] + f[i]
        /\ \A i \in 0 .. n : a[i] \in Int
    BY SumsStep
  <1> HIDE DEF a
  <1>2. 0 \in T
    BY <1>1
  <1>3. ASSUME NEW m \in 0 .. n - 1, m \in T PROVE m + 1 \in T
    <2>1. m + 1 \in 1 .. n /\ m + 1 \in 0 .. n /\ (m + 1) - 1 = m
      OBVIOUS
    <2>2. a[m + 1] = a[m] + c /\ a[m] = m * c
      BY <1>1, <1>3, <2>1
    <2>3. m * c + c = (m + 1) * c
      OBVIOUS
    <2> QED
      BY <2>1, <2>2, <2>3
  <1> HIDE DEF T
  <1>4. \A m \in 0 .. n : m \in T
    BY <1>2, <1>3, TurnInduction
  <1> QED
    BY <1>1, <1>4 DEF T

\* The running sum after m turns is the sum of the first m numbers.
LEMMA TotalPrefix ==
    ASSUME NEW n \in Nat, NEW f \in [1 .. n -> Int], NEW k \in 0 .. n
    PROVE  Total([i \in 1 .. k |-> f[i]]) = Sums(f)[k]
  <1> DEFINE g == [i \in 1 .. k |-> f[i]]
             a == Sums(f)
             b == Sums(g)
             T == {m \in 0 .. k : b[m] = a[m]}
  <1>1. /\ a[0] = 0
        /\ \A i \in 1 .. n : a[i] = a[i - 1] + f[i]
        /\ \A i \in 0 .. n : a[i] \in Int
    BY SumsStep
  <1>2. k \in Nat /\ g \in [1 .. k -> Int] /\ \A i \in 1 .. k : g[i] = f[i]
    OBVIOUS
  <1> HIDE DEF g
  <1>3. /\ b[0] = 0 /\ Total(g) = b[k]
        /\ \A i \in 1 .. k : b[i] = b[i - 1] + g[i]
    BY <1>2, SumsStep
  <1> HIDE DEF a, b
  <1>4. 0 \in T
    BY <1>1, <1>2, <1>3
  <1>5. ASSUME NEW m \in 0 .. k - 1, m \in T PROVE m + 1 \in T
    BY <1>1, <1>2, <1>3, <1>5
  <1> HIDE DEF T
  <1>6. \A m \in 0 .. k : m \in T
    BY <1>2, <1>4, <1>5, TurnInduction
  <1>7. b[k] = a[k]
    BY <1>2, <1>6 DEF T
  <1> QED
    BY <1>3, <1>7 DEF g, a

\* A table adds up to the same by its rows and by its columns.
LEMMA TotalSwap ==
    ASSUME NEW m \in Nat, NEW n \in Nat, NEW h \in [1 .. m -> [1 .. n -> Int]]
    PROVE  Total([b \in 1 .. m |-> Total(h[b])])
             = Total([i \in 1 .. n |-> Total([b \in 1 .. m |-> h[b][i]])])
  <1> DEFINE col(i) == [b \in 1 .. m |-> h[b][i]]
             byRow == [b \in 1 .. m |-> Total(h[b])]
             after(k) == [i \in 1 .. n |-> Sums(col(i))[k]]
             T == {k \in 0 .. m : Sums(byRow)[k] = Total(after(k))}
  <1>1. \A b \in 1 .. m : h[b] \in [1 .. n -> Int]
    OBVIOUS
  <1>2. \A b \in 1 .. m : Total(h[b]) \in Int
    BY <1>1, SumsStep
  <1>3. byRow \in [1 .. m -> Int] /\ \A b \in 1 .. m : byRow[b] = Total(h[b])
    BY <1>2
  <1>4. \A i \in 1 .. n : col(i) \in [1 .. m -> Int] /\ \A b \in 1 .. m : col(i)[b] = h[b][i]
    BY <1>1
  <1> HIDE DEF col, byRow
  <1>5. ASSUME NEW i \in 1 .. n
        PROVE  /\ Sums(col(i))[0] = 0 /\ Total(col(i)) = Sums(col(i))[m]
               /\ \A b \in 1 .. m : Sums(col(i))[b] = Sums(col(i))[b - 1] + h[b][i]
               /\ \A b \in 0 .. m : Sums(col(i))[b] \in Int
    <2>1. col(i) \in [1 .. m -> Int] /\ \A b \in 1 .. m : col(i)[b] = h[b][i]
      BY <1>4
    <2>2. /\ Sums(col(i))[0] = 0 /\ Total(col(i)) = Sums(col(i))[m]
          /\ \A b \in 1 .. m : Sums(col(i))[b] = Sums(col(i))[b - 1] + col(i)[b]
          /\ \A b \in 0 .. m : Sums(col(i))[b] \in Int
      BY <2>1, SumsStep
    <2> QED
      BY <2>1, <2>2
  <1>6. /\ Sums(byRow)[0] = 0 /\ Total(byRow) = Sums(byRow)[m]
        /\ \A b \in 1 .. m : Sums(byRow)[b] = Sums(byRow)[b - 1] + byRow[b]
    BY <1>3, SumsStep
  <1>7. \A k \in 0 .. m : after(k) \in [1 .. n -> Int]
                          /\ \A i \in 1 .. n : after(k)[i] = Sums(col(i))[k]
    BY <1>5
  <1> HIDE DEF after
  <1>8. 0 \in T
    <2>1. 0 \in 0 .. m /\ 0 \in Int /\ n * 0 = 0
      OBVIOUS
    <2>2. after(0) \in [1 .. n -> Int] /\ \A i \in 1 .. n : after(0)[i] = 0
      BY <1>5, <1>7, <2>1
    <2>3. Total(after(0)) = 0
      BY <2>1, <2>2, TotalConstant
    <2> QED
      BY <1>6, <2>1, <2>3
  <1>9. ASSUME NEW k \in 0 .. m - 1, k \in T PROVE k + 1 \in T
    <2>1. k \in 0 .. m /\ k + 1 \in 0 .. m /\ k + 1 \in 1 .. m /\ (k + 1) - 1 = k
      OBVIOUS
    <2>2. after(k) \in [1 .. n -> Int] /\ after(k + 1) \in [1 .. n -> Int]
      BY <1>7, <2>1
    <2>3. h[k + 1] \in [1 .. n -> Int]
      BY <1>1, <2>1
    <2>4. ASSUME NEW i \in 1 .. n PROVE after(k + 1)[i] = after(k)[i] + h[k + 1][i]
      <3>1. Sums(col(i))[k + 1] = Sums(col(i))[k] + h[k + 1][i]
        BY <1>5, <2>1
      <3> QED
        BY <1>7, <2>1, <3>1
    <2>5. Total(after(k + 1)) = Total(after(k)) + Total(h[k + 1])
      BY <2>2, <2>3, <2>4, TotalAdd
    <2>6. Sums(byRow)[k + 1] = Sums(byRow)[k] + Total(h[k + 1])
      BY <1>3, <1>6, <2>1
    <2> QED
      BY <1>9, <2>1, <2>5, <2>6
  <1> HIDE DEF T
  <1>10. \A k \in 0 .. m : k \in T
    BY <1>8, <1>9, TurnInduction
  <1>11. Total(byRow) = Total(after(m))
    BY <1>6, <1>10 DEF T
  <1>12. after(m) = [i \in 1 .. n |-> Total(col(i))]
    BY <1>5 DEF after
  <1> QED
    BY <1>11, <1>12 DEF byRow, col

-----------------------------------------------------------------------------
(* Least squares *)

\* Of a point (X, Y), the products of its differences to the first k points.
Around(X, Y, x, y, k) == Total([i \in 1 .. k |-> (X - x[i]) * (Y - y[i])])

LEMMA InnerProducts ==
    ASSUME NEW n \in Nat, NEW x \in [1 .. n -> Int], NEW y \in [1 .. n -> Int],
           NEW X \in Int, NEW Y \in Int, NEW k \in 0 .. n
    PROVE  Around(X, Y, x, y, k)
             = k * (X * Y) - X * Sums(y)[k] - Y * Sums(x)[k] + Sums(Products(x, y))[k]
  <1> DEFINE z == Products(x, y)
             h == [i \in 1 .. n |-> (X - x[i]) * (Y - y[i])]
             a == Sums(x)
             b == Sums(y)
             c == Sums(z)
             d == Sums(h)
             T == {m \in 0 .. n : d[m] = m * (X * Y) - X * b[m] - Y * a[m] + c[m]}
  <1>1. z \in [1 .. n -> Int] /\ \A i \in 1 .. n : z[i] = x[i] * y[i]
    BY DEF Products
  <1>2. h \in [1 .. n -> Int] /\ \A i \in 1 .. n : h[i] = (X - x[i]) * (Y - y[i])
    OBVIOUS
  <1>3. [i \in 1 .. k |-> (X - x[i]) * (Y - y[i])] = [i \in 1 .. k |-> h[i]]
    OBVIOUS
  <1> HIDE DEF z, h
  <1>4. a[0] = 0 /\ (\A i \in 1 .. n : a[i] = a[i - 1] + x[i]) /\ \A i \in 0 .. n : a[i] \in Int
    BY SumsStep
  <1>5. b[0] = 0 /\ (\A i \in 1 .. n : b[i] = b[i - 1] + y[i]) /\ \A i \in 0 .. n : b[i] \in Int
    BY SumsStep
  <1>6. c[0] = 0 /\ (\A i \in 1 .. n : c[i] = c[i - 1] + z[i]) /\ \A i \in 0 .. n : c[i] \in Int
    BY <1>1, SumsStep
  <1>7. d[0] = 0 /\ (\A i \in 1 .. n : d[i] = d[i - 1] + h[i]) /\ \A i \in 0 .. n : d[i] \in Int
    BY <1>2, SumsStep
  <1>8. Total([i \in 1 .. k |-> h[i]]) = d[k]
    BY <1>2, TotalPrefix
  <1> HIDE DEF a, b, c, d
  <1>9. 0 \in T
    BY <1>4, <1>5, <1>6, <1>7
  <1>10. ASSUME NEW m \in 0 .. n - 1, m \in T PROVE m + 1 \in T
    <2>1. m + 1 \in 1 .. n /\ m + 1 \in 0 .. n /\ m \in 0 .. n /\ (m + 1) - 1 = m /\ m \in Int
      OBVIOUS
    <2> DEFINE p == x[m + 1]
               q == y[m + 1]
               u == a[m]
               v == b[m]
               w == c[m]
    <2>2. p \in Int /\ q \in Int /\ u \in Int /\ v \in Int /\ w \in Int
      BY <1>4, <1>5, <1>6, <2>1
    <2>3. a[m + 1] = u + p /\ b[m + 1] = v + q /\ c[m + 1] = w + p * q
      BY <1>1, <1>4, <1>5, <1>6, <2>1
    <2>4. d[m + 1] = m * (X * Y) - X * v - Y * u + w + (X - p) * (Y - q)
      BY <1>2, <1>7, <1>10, <2>1
    <2> HIDE DEF p, q, u, v, w
    <2>5. m * (X * Y) - X * v - Y * u + w + (X - p) * (Y - q)
            = (m + 1) * (X * Y) - X * (v + q) - Y * (u + p) + (w + p * q)
      BY <2>1, <2>2
    <2> QED
      BY <2>1, <2>3, <2>4, <2>5
  <1> HIDE DEF T
  <1>11. \A m \in 0 .. n : m \in T
    BY <1>9, <1>10, TurnInduction
  <1>12. d[k] = k * (X * Y) - X * b[k] - Y * a[k] + c[k]
    BY <1>11 DEF T
  <1> QED
    BY <1>3, <1>8, <1>12 DEF a, b, c, z, Around

(* The sums linreg computes are, up to the factor n that cancels in the    *)
(* slope, the sums over all pairs of points: for every list of points.     *)
LEMMA LeastSquares ==
    ASSUME NEW n \in Nat, NEW x \in [1 .. n -> Int], NEW y \in [1 .. n -> Int]
    PROVE  n * Total(Products(x, y)) - Total(x) * Total(y) = PairProducts(x, y)
  <1> DEFINE z == Products(x, y)
             inner(j) == Around(x[j], y[j], x, y, j - 1)
             h == [j \in 1 .. n |-> inner(j)]
             a == Sums(x)
             b == Sums(y)
             c == Sums(z)
             d == Sums(h)
             T == {m \in 0 .. n : d[m] = m * c[m] - a[m] * b[m]}
  <1>1. z \in [1 .. n -> Int] /\ \A i \in 1 .. n : z[i] = x[i] * y[i]
    BY DEF Products
  <1>2. a[0] = 0 /\ Total(x) = a[n] /\ (\A i \in 1 .. n : a[i] = a[i - 1] + x[i]) /\ \A i \in 0 .. n : a[i] \in Int
    BY SumsStep
  <1>3. b[0] = 0 /\ Total(y) = b[n] /\ (\A i \in 1 .. n : b[i] = b[i - 1] + y[i]) /\ \A i \in 0 .. n : b[i] \in Int
    BY SumsStep
  <1>4. c[0] = 0 /\ Total(z) = c[n] /\ (\A i \in 1 .. n : c[i] = c[i - 1] + z[i]) /\ \A i \in 0 .. n : c[i] \in Int
    BY <1>1, SumsStep
  <1>5. ASSUME NEW j \in 1 .. n
        PROVE  inner(j) = (j - 1) * (x[j] * y[j]) - x[j] * b[j - 1] - y[j] * a[j - 1] + c[j - 1]
    <2>1. x[j] \in Int /\ y[j] \in Int /\ j - 1 \in 0 .. n
      OBVIOUS
    <2> HIDE DEF a, b, c, z
    <2> QED
      BY <2>1, InnerProducts, ZenonT(30) DEF a, b, c, z
  <1> HIDE DEF inner, z, a, b, c
  <1>6. \A j \in 1 .. n : inner(j) \in Int
    <2> SUFFICES ASSUME NEW j \in 1 .. n PROVE inner(j) \in Int
      OBVIOUS
    <2>1. x[j] \in Int /\ y[j] \in Int /\ j - 1 \in 0 .. n /\ j - 1 \in Int
      OBVIOUS
    <2> DEFINE k == j - 1
               p == x[j]
               q == y[j]
               u == a[k]
               v == b[k]
               w == c[k]
    <2>2. k \in Int /\ p \in Int /\ q \in Int /\ u \in Int /\ v \in Int /\ w \in Int
      BY <1>2, <1>3, <1>4, <2>1
    <2>3. inner(j) = k * (p * q) - p * v - q * u + w
      BY <1>5
    <2> HIDE DEF k, p, q, u, v, w
    <2> QED
      BY <2>2, <2>3
  <1>7. h \in [1 .. n -> Int] /\ \A j \in 1 .. n : h[j] = inner(j)
    BY <1>6
  <1>8. h = [j \in DOMAIN x |-> inner(j)]
    OBVIOUS
  <1> HIDE DEF h
  <1>9. d[0] = 0 /\ Total(h) = d[n] /\ (\A i \in 1 .. n : d[i] = d[i - 1] + h[i]) /\ \A i \in 0 .. n : d[i] \in Int
    BY <1>7, SumsStep
  <1> HIDE DEF d
  <1>10. 0 \in T
    BY <1>2, <1>3, <1>4, <1>9
  <1>11. ASSUME NEW m \in 0 .. n - 1, m \in T PROVE m + 1 \in T
    <2>1. m + 1 \in 1 .. n /\ m + 1 \in 0 .. n /\ m \in 0 .. n /\ (m + 1) - 1 = m /\ m \in Int
      OBVIOUS
    <2> DEFINE p == x[m + 1]
               q == y[m + 1]
               u == a[m]
               v == b[m]
               w == c[m]
    <2>2. p \in Int /\ q \in Int /\ u \in Int /\ v \in Int /\ w \in Int
      BY <1>2, <1>3, <1>4, <2>1
    <2>3. a[m + 1] = u + p /\ b[m + 1] = v + q /\ c[m + 1] = w + p * q
      BY <1>1, <1>2, <1>3, <1>4, <2>1
    <2>4. inner(m + 1) = m * (p * q) - p * v - q * u + w
      BY <1>5, <2>1
    <2>5. d[m + 1] = (m * w - u * v) + (m * (p * q) - p * v - q * u + w)
      BY <1>7, <1>9, <1>11, <2>1, <2>4
    <2> HIDE DEF p, q, u, v, w
    <2>6. (m * w - u * v) + (m * (p * q) - p * v - q * u + w)
            = (m + 1) * (w + p * q) - (u + p) * (v + q)
      BY <2>1, <2>2
    <2> QED
      BY <2>1, <2>3, <2>5, <2>6
  <1> HIDE DEF T
  <1>12. \A m \in 0 .. n : m \in T
    BY <1>10, <1>11, TurnInduction
  <1>13. d[n] = n * c[n] - a[n] * b[n]
    BY <1>12 DEF T
  <1>14. PairProducts(x, y) = Total(h)
    BY <1>8 DEF PairProducts, inner, Around
  <1> QED
    BY <1>2, <1>3, <1>4, <1>9, <1>13, <1>14 DEF z

-----------------------------------------------------------------------------
(* Comprehensions *)

\* One turn: the item is appended or the list left alone.
Turn(v, i, keep, item) == IF i \in keep THEN Append(v, item[i]) ELSE v

\* The list after each turn; Selected is the last of them.
Selections(n, keep, item) ==
  CHOOSE out : out = [i \in 0 .. n |-> IF i = 0 THEN <<>> ELSE Turn(out[i - 1], i, keep, item)]

\* A comprehension is its turns.
LEMMA SelectedStep ==
    ASSUME NEW n \in Nat, NEW V, NEW keep \in SUBSET (1 .. n), NEW item \in [1 .. n -> V]
    PROVE  LET s == Selections(n, keep, item) IN
           /\ s[0] = <<>> /\ Selected(n, keep, item) = s[n]
           /\ \A i \in 1 .. n : s[i] = Turn(s[i - 1], i, keep, item)
           /\ \A i \in 0 .. n : s[i] \in Seq(V)
  <1> DEFINE step == [i \in 1 .. n |-> [v \in Seq(V) |-> Turn(v, i, keep, item)]]
             s == Selections(n, keep, item)
  <1>1. <<>> \in Seq(V) /\ \A i \in 1 .. n, v \in Seq(V) : Turn(v, i, keep, item) \in Seq(V)
    BY DEF Turn
  <1>2. step \in [1 .. n -> [Seq(V) -> Seq(V)]]
    BY <1>1
  <1>3. PICK g : Run(g, n, Seq(V), <<>>, step)
    <2> HIDE DEF step
    <2> QED
      BY <1>1, <1>2, LoopRuns, Zenon
  <1>4. ASSUME NEW i \in 1 .. n PROVE g[i] = Turn(g[i - 1], i, keep, item)
    <2>1. i - 1 \in 0 .. n /\ g[i - 1] \in Seq(V) /\ g[i] = step[i][g[i - 1]]
      <3> HIDE DEF step
      <3> QED
        BY <1>3, SMTT(30) DEF Run
    <2>2. step[i] = [v \in Seq(V) |-> Turn(v, i, keep, item)]
      OBVIOUS
    <2> HIDE DEF step
    <2> QED
      BY <2>1, <2>2
  <1> HIDE DEF step
  <1>5. g = [i \in 0 .. n |-> IF i = 0 THEN <<>> ELSE Turn(g[i - 1], i, keep, item)]
    BY <1>3, <1>4 DEF Run
  <1>6. s = [i \in 0 .. n |-> IF i = 0 THEN <<>> ELSE Turn(s[i - 1], i, keep, item)]
    BY <1>5 DEF Selections
  <1>7. Selected(n, keep, item) = s[n]
    BY DEF Selected, Selections, Turn
  <1> HIDE DEF s
  <1>8. s[0] = <<>> /\ \A i \in 1 .. n : s[i] = Turn(s[i - 1], i, keep, item)
    BY <1>6
  <1>9. \A i \in 0 .. n : s[i] \in Seq(V)
    <2> DEFINE T == {m \in 0 .. n : s[m] \in Seq(V)}
    <2>1. 0 \in T
      <3>1. 0 \in 0 .. n /\ s[0] \in Seq(V)
        BY <1>1, <1>8
      <3> QED
        BY <3>1
    <2>2. ASSUME NEW m \in 0 .. n - 1, m \in T PROVE m + 1 \in T
      <3>1. m + 1 \in 1 .. n /\ m + 1 \in 0 .. n /\ (m + 1) - 1 = m
        OBVIOUS
      <3>2. s[m + 1] = Turn(s[m], m + 1, keep, item)
        BY <1>8, <3>1
      <3> QED
        BY <1>1, <2>2, <3>1, <3>2
    <2> HIDE DEF T
    <2>3. \A m \in 0 .. n : m \in T
      BY <2>1, <2>2, TurnInduction
    <2> QED
      BY <2>3 DEF T
  <1> QED
    BY <1>7, <1>8, <1>9 DEF s

\* p names the turns that gave the items of s, the first m turns done, in their order.
Origin(p, s, m, keep, item) ==
  /\ p \in [1 .. Len(s) -> 1 .. m]
  /\ \A k \in 1 .. Len(s) : p[k] \in keep /\ s[k] = item[p[k]]
  /\ \A j, k \in 1 .. Len(s) : j < k => p[j] < p[k]

\* The items of a comprehension come from the turns that keep theirs, in their order.
LEMMA SelectedOrigin ==
    ASSUME NEW n \in Nat, NEW V, NEW keep \in SUBSET (1 .. n), NEW item \in [1 .. n -> V]
    PROVE  /\ Selected(n, keep, item) \in Seq(V)
           /\ \E p : Origin(p, Selected(n, keep, item), n, keep, item)
  <1> DEFINE s == Selections(n, keep, item)
             T == {m \in 0 .. n : \E p : Origin(p, s[m], m, keep, item)}
  <1>1. /\ s[0] = <<>> /\ Selected(n, keep, item) = s[n]
        /\ \A i \in 1 .. n : s[i] = Turn(s[i - 1], i, keep, item)
        /\ \A i \in 0 .. n : s[i] \in Seq(V)
    BY SelectedStep
  <1> HIDE DEF s
  <1>2. 0 \in T
    <2>1. Len(s[0]) = 0 /\ 0 \in 0 .. n /\ 1 .. 0 = {}
      BY <1>1
    <2> DEFINE p == [k \in 1 .. 0 |-> 1]
    <2>2. p \in [1 .. 0 -> 1 .. 0]
      OBVIOUS
    <2> HIDE DEF p
    <2>3. Origin(p, s[0], 0, keep, item)
      BY <2>1, <2>2 DEF Origin
    <2> QED
      BY <2>1, <2>3
  <1>3. ASSUME NEW m \in 0 .. n - 1, m \in T PROVE m + 1 \in T
    <2>1. m + 1 \in 1 .. n /\ m \in 0 .. n /\ m + 1 \in 0 .. n /\ (m + 1) - 1 = m
      OBVIOUS
    <2>2. PICK p : Origin(p, s[m], m, keep, item)
      BY <1>3
    <2>3. s[m] \in Seq(V) /\ item[m + 1] \in V /\ Len(s[m]) \in Nat
      BY <1>1, <2>1
    <2>4. CASE m + 1 \notin keep
      <3>1. s[m + 1] = s[m]
        BY <1>1, <2>1, <2>4 DEF Turn
      <3>2. Origin(p, s[m + 1], m + 1, keep, item)
        BY <2>1, <2>2, <2>3, <3>1 DEF Origin
      <3> QED
        BY <2>1, <3>2
    <2>5. CASE m + 1 \in keep
      <3>1. s[m + 1] = Append(s[m], item[m + 1])
        BY <1>1, <2>1, <2>5 DEF Turn
      <3> DEFINE L == Len(s[m])
                 q == [k \in 1 .. L + 1 |-> IF k = L + 1 THEN m + 1 ELSE p[k]]
      <3>2. /\ Len(s[m + 1]) = L + 1 /\ s[m + 1][L + 1] = item[m + 1]
            /\ \A k \in 1 .. L : s[m + 1][k] = s[m][k]
        BY <2>3, <3>1
      <3> HIDE DEF L
      <3>3. L \in Nat /\ \A k \in 1 .. L + 1 : k = L + 1 \/ k \in 1 .. L
        BY <2>3 DEF L
      <3>4. p \in [1 .. L -> 1 .. m]
            /\ (\A k \in 1 .. L : p[k] \in keep /\ s[m][k] = item[p[k]])
            /\ (\A j, k \in 1 .. L : j < k => p[j] < p[k])
        BY <2>2 DEF Origin, L
      <3>5. q \in [1 .. L + 1 -> 1 .. m + 1] /\ q[L + 1] = m + 1
            /\ \A k \in 1 .. L : q[k] = p[k] /\ p[k] \in 1 .. m
        BY <2>1, <3>3, <3>4
      <3> HIDE DEF q
      <3>6. ASSUME NEW k \in 1 .. L + 1
            PROVE  q[k] \in keep /\ s[m + 1][k] = item[q[k]]
        <4>1. CASE k = L + 1
          BY <2>5, <3>2, <3>5, <4>1
        <4>2. CASE k \in 1 .. L
          BY <3>2, <3>4, <3>5, <4>2
        <4> QED
          BY <3>3, <4>1, <4>2
      <3>7. ASSUME NEW j \in 1 .. L + 1, NEW k \in 1 .. L + 1, j < k PROVE q[j] < q[k]
        <4>1. j \in 1 .. L
          BY <3>3, <3>7
        <4>2. CASE k = L + 1
          BY <2>1, <3>5, <4>1, <4>2
        <4>3. CASE k \in 1 .. L
          BY <3>4, <3>5, <3>7, <4>1, <4>3
        <4> QED
          BY <3>3, <4>2, <4>3
      <3>8. Origin(q, s[m + 1], m + 1, keep, item)
        BY <3>2, <3>5, <3>6, <3>7 DEF Origin
      <3> QED
        BY <2>1, <3>8
    <2> QED
      BY <2>4, <2>5
  <1> HIDE DEF T
  <1>4. \A m \in 0 .. n : m \in T
    BY <1>2, <1>3, TurnInduction
  <1>5. n \in 0 .. n
    OBVIOUS
  <1>6. \E p : Origin(p, s[n], n, keep, item)
    BY <1>4, <1>5 DEF T
  <1> QED
    BY <1>1, <1>5, <1>6

\* The weights of the items of a list, and of the items a comprehension keeps.
Weights(v, w) == [k \in 1 .. Len(v) |-> w[v[k]]]
KeptWeights(n, keep, item, w) == [i \in 1 .. n |-> IF i \in keep THEN w[item[i]] ELSE 0]

\* A comprehension weighs as much as the items that are kept.
LEMMA SelectedTotal ==
    ASSUME NEW n \in Nat, NEW V, NEW keep \in SUBSET (1 .. n), NEW item \in [1 .. n -> V],
           NEW w \in [V -> Int]
    PROVE  Total(Weights(Selected(n, keep, item), w)) = Total(KeptWeights(n, keep, item, w))
  <1> DEFINE s == Selections(n, keep, item)
             h == KeptWeights(n, keep, item, w)
             weights(v) == Weights(v, w)
             T == {m \in 0 .. n : Total(weights(s[m])) = Sums(h)[m]}
  <1>1. /\ s[0] = <<>> /\ Selected(n, keep, item) = s[n]
        /\ \A i \in 1 .. n : s[i] = Turn(s[i - 1], i, keep, item)
        /\ \A i \in 0 .. n : s[i] \in Seq(V)
    BY SelectedStep
  <1> HIDE DEF s
  <1>2. h \in [1 .. n -> Int] /\ \A i \in 1 .. n : h[i] = IF i \in keep THEN w[item[i]] ELSE 0
    BY DEF KeptWeights
  <1>3. ASSUME NEW v \in Seq(V)
        PROVE  /\ Len(v) \in Nat /\ weights(v) \in [1 .. Len(v) -> Int]
               /\ \A k \in 1 .. Len(v) : weights(v)[k] = w[v[k]]
    BY DEF Weights
  <1> HIDE DEF h
  <1>4. /\ Sums(h)[0] = 0 /\ Total(h) = Sums(h)[n]
        /\ \A i \in 1 .. n : Sums(h)[i] = Sums(h)[i - 1] + h[i]
        /\ \A i \in 0 .. n : Sums(h)[i] \in Int
    BY <1>2, SumsStep
  <1>5. 0 \in T
    <2>1. s[0] \in Seq(V) /\ Len(s[0]) = 0 /\ 0 \in Nat /\ 0 \in Int /\ 0 * 0 = 0 /\ 0 \in 0 .. n
      BY <1>1
    <2>2. weights(s[0]) \in [1 .. 0 -> Int] /\ \A i \in 1 .. 0 : weights(s[0])[i] = 0
      BY <1>3, <2>1
    <2> HIDE DEF weights
    <2>3. Total(weights(s[0])) = 0
      BY <2>1, <2>2, TotalConstant
    <2> QED
      BY <1>4, <2>1, <2>3
  <1>6. ASSUME NEW m \in 0 .. n - 1, m \in T PROVE m + 1 \in T
    <2>1. m + 1 \in 1 .. n /\ m \in 0 .. n /\ m + 1 \in 0 .. n /\ (m + 1) - 1 = m
      OBVIOUS
    <2>2. s[m] \in Seq(V) /\ s[m + 1] \in Seq(V) /\ item[m + 1] \in V
      BY <1>1, <2>1
    <2>3. Sums(h)[m + 1] = Sums(h)[m] + h[m + 1]
      BY <1>4, <2>1
    <2>4. CASE m + 1 \notin keep
      <3>1. s[m + 1] = s[m] /\ h[m + 1] = 0
        BY <1>1, <1>2, <2>1, <2>4 DEF Turn
      <3> HIDE DEF weights
      <3> QED
        BY <1>4, <1>6, <2>1, <2>3, <3>1
    <2>5. CASE m + 1 \in keep
      <3>1. s[m + 1] = Append(s[m], item[m + 1]) /\ h[m + 1] = w[item[m + 1]]
        BY <1>1, <1>2, <2>1, <2>5 DEF Turn
      <3> DEFINE L == Len(s[m])
                 F == weights(s[m + 1])
      <3>2. /\ L \in Nat /\ L + 1 \in Nat /\ Len(s[m + 1]) = L + 1
            /\ s[m + 1][L + 1] = item[m + 1]
            /\ \A k \in 1 .. L : s[m + 1][k] = s[m][k]
        BY <2>2, <3>1, SMTT(30)
      <3>3. /\ F \in [1 .. L + 1 -> Int] /\ F[L + 1] = h[m + 1]
            /\ [k \in 1 .. L |-> F[k]] = weights(s[m])
        <4>1. F \in [1 .. L + 1 -> Int] /\ \A k \in 1 .. L + 1 : F[k] = w[s[m + 1][k]]
          BY <1>3, <2>2, <3>2
        <4> HIDE DEF F
        <4>2. ASSUME NEW k \in 1 .. L PROVE F[k] = w[s[m][k]]
          <5>1. k \in 1 .. L + 1 /\ s[m + 1][k] = s[m][k]
            BY <3>2
          <5> QED
            BY <4>1, <5>1
        <4> QED
          BY <3>1, <3>2, <4>1, <4>2, SMTT(30) DEF Weights
      <3> HIDE DEF F, L, weights
      <3>4. L \in 0 .. L + 1 /\ L + 1 \in 1 .. L + 1 /\ (L + 1) - 1 = L
        BY <3>2
      <3>5. Total(weights(s[m])) = Sums(F)[L]
        BY <3>2, <3>3, <3>4, TotalPrefix
      <3>6. Total(F) = Sums(F)[L + 1] /\ Sums(F)[L + 1] = Sums(F)[L] + F[L + 1]
        BY <3>2, <3>3, <3>4, SumsStep
      <3>7. Total(F) = Sums(h)[m + 1]
        BY <1>6, <2>3, <3>3, <3>5, <3>6
      <3> QED
        BY <2>1, <3>7 DEF F
    <2> QED
      BY <2>4, <2>5
  <1> HIDE DEF T
  <1>7. \A m \in 0 .. n : m \in T
    BY <1>5, <1>6, TurnInduction
  <1>8. Total(weights(s[n])) = Total(h)
    <2> HIDE DEF weights
    <2>1. n \in T
      BY <1>7
    <2> QED
      BY <1>4, <2>1 DEF T
  <1> QED
    BY <1>1, <1>8 DEF h

\* What SelectedTotal assumes, as one fact.
Weighing(n, V, keep, item, w) ==
  n \in Nat /\ keep \in SUBSET (1 .. n) /\ item \in [1 .. n -> V] /\ w \in [V -> Int]

\* SelectedTotal, from that fact.
LEMMA WeighedTotal ==
    ASSUME NEW n, NEW V, NEW keep, NEW item, NEW w, Weighing(n, V, keep, item, w)
    PROVE  Total(Weights(Selected(n, keep, item), w)) = Total(KeptWeights(n, keep, item, w))
  BY SelectedTotal, ZenonT(60) DEF Weighing

\* The number of elements of a set of indices, as a sum.
LEMMA CountIsTotal ==
    ASSUME NEW n \in Nat, NEW S \in SUBSET (1 .. n)
    PROVE  /\ IsFiniteSet(S)
           /\ Cardinality(S) = Total([i \in 1 .. n |-> IF i \in S THEN 1 ELSE 0])
  <1> DEFINE f == [i \in 1 .. n |-> IF i \in S THEN 1 ELSE 0]
             part(m) == S \cap (1 .. m)
             T == {m \in 0 .. n : IsFiniteSet(part(m)) /\ Cardinality(part(m)) = Sums(f)[m]}
  <1>1. f \in [1 .. n -> Int] /\ \A i \in 1 .. n : f[i] = IF i \in S THEN 1 ELSE 0
    OBVIOUS
  <1> HIDE DEF f
  <1>2. /\ Sums(f)[0] = 0 /\ Total(f) = Sums(f)[n]
        /\ \A i \in 1 .. n : Sums(f)[i] = Sums(f)[i - 1] + f[i]
        /\ \A i \in 0 .. n : Sums(f)[i] \in Int
    BY <1>1, SumsStep
  <1>3. 0 \in T
    <2>1. part(0) = {} /\ 0 \in 0 .. n
      OBVIOUS
    <2> HIDE DEF part
    <2> QED
      BY <1>2, <2>1, FS_EmptySet
  <1>4. ASSUME NEW m \in 0 .. n - 1, m \in T PROVE m + 1 \in T
    <2>1. m + 1 \in 1 .. n /\ m + 1 \in 0 .. n /\ (m + 1) - 1 = m
      OBVIOUS
    <2>2. IsFiniteSet(part(m)) /\ Cardinality(part(m)) = Sums(f)[m]
      BY <1>4
    <2>3. Sums(f)[m + 1] = Sums(f)[m] + f[m + 1]
      BY <1>2, <2>1
    <2>4. CASE m + 1 \in S
      <3>1. part(m + 1) = part(m) \cup {m + 1} /\ m + 1 \notin part(m) /\ f[m + 1] = 1
        BY <1>1, <2>1, <2>4
      <3> HIDE DEF part
      <3> QED
        BY <2>1, <2>2, <2>3, <3>1, FS_AddElement
    <2>5. CASE m + 1 \notin S
      <3>1. part(m + 1) = part(m) /\ f[m + 1] = 0 /\ Sums(f)[m] \in Int
        BY <1>1, <1>2, <2>1, <2>5, SMTT(30)
      <3> HIDE DEF part
      <3> QED
        BY <2>1, <2>2, <2>3, <3>1
    <2> QED
      BY <2>4, <2>5
  <1> HIDE DEF T
  <1>5. \A m \in 0 .. n : m \in T
    BY <1>3, <1>4, TurnInduction
  <1>6. part(n) = S
    <2>1. S \subseteq 1 .. n
      OBVIOUS
    <2> QED
      BY <2>1, Zenon
  <1> HIDE DEF part
  <1> QED
    <2>1. n \in T
      BY <1>5
    <2> QED
      BY <1>2, <1>6, <2>1 DEF T, f

\* A comprehension is as long as the set of the kept indices is large.
LEMMA SelectedLength ==
    ASSUME NEW n \in Nat, NEW V, NEW keep \in SUBSET (1 .. n), NEW item \in [1 .. n -> V]
    PROVE  Len(Selected(n, keep, item)) = Cardinality(keep)
  <1> DEFINE out == Selected(n, keep, item)
             w == [v \in V |-> 1]
             ones == Weights(out, w)
             f == KeptWeights(n, keep, item, w)
  <1>1. out \in Seq(V)
    BY SelectedOrigin
  <1> HIDE DEF out
  <1>2. Len(out) \in Nat /\ Len(out) * 1 = Len(out) /\ 1 \in Int
    BY <1>1
  <1>3. w \in [V -> Int] /\ f = [i \in 1 .. n |-> IF i \in keep THEN 1 ELSE 0]
    <2>1. w \in [V -> Int]
      OBVIOUS
    <2>2. \A i \in 1 .. n : w[item[i]] = 1
      OBVIOUS
    <2> HIDE DEF w
    <2> QED
      BY <2>1, <2>2 DEF KeptWeights
  <1>4. ones \in [1 .. Len(out) -> Int] /\ \A k \in 1 .. Len(out) : ones[k] = 1
    BY <1>1 DEF Weights
  <1> HIDE DEF w
  <1>5. Total(ones) = Total(f)
    <2>1. w \in [V -> Int]
      BY <1>3
    <2>2. Total(Weights(Selected(n, keep, item), w)) = Total(KeptWeights(n, keep, item, w))
      BY <2>1, SelectedTotal
    <2> QED
      BY <2>2 DEF out
  <1> HIDE DEF ones, f
  <1>6. Total(ones) = Len(out)
    BY <1>2, <1>4, TotalConstant
  <1>7. Cardinality(keep) = Total(f)
    BY <1>3, CountIsTotal
  <1> QED
    BY <1>5, <1>6, <1>7 DEF out

-----------------------------------------------------------------------------
(* The forecast *)

\* A sum of numbers of one sign has that sign.
LEMMA TotalSign ==
    ASSUME NEW n \in Nat, NEW f \in [1 .. n -> Int]
    PROVE  /\ (\A i \in 1 .. n : f[i] >= 0) => Total(f) >= 0
           /\ (\A i \in 1 .. n : f[i] <= 0) => Total(f) <= 0
  <1> DEFINE z == [i \in 1 .. n |-> 0]
  <1>1. z \in [1 .. n -> Int] /\ (\A i \in 1 .. n : z[i] = 0) /\ n * 0 = 0 /\ 0 \in Int
    OBVIOUS
  <1> HIDE DEF z
  <1>2. Total(z) = 0
    BY <1>1, TotalConstant
  <1>3. Total(f) \in Int
    BY SumsStep
  <1>4. ASSUME \A i \in 1 .. n : f[i] >= 0 PROVE Total(f) >= 0
    <2>1. \A i \in 1 .. n : z[i] <= f[i]
      BY <1>1, <1>4
    <2>2. Total(z) <= Total(f)
      BY <1>1, <2>1, TotalMonotone
    <2> QED
      BY <1>2, <1>3, <2>2
  <1>5. ASSUME \A i \in 1 .. n : f[i] <= 0 PROVE Total(f) <= 0
    <2>1. \A i \in 1 .. n : f[i] <= z[i]
      BY <1>1, <1>5
    <2>2. Total(f) <= Total(z)
      BY <1>1, <2>1, TotalMonotone
    <2> QED
      BY <1>2, <1>3, <2>2
  <1> QED
    BY <1>4, <1>5

\* The product of the differences of the points i and j.
Rise(x, y, i, j) == (x[j] - x[i]) * (y[j] - y[i])

\* A cloud in which no pair falls has no falling slope, and one in which none rises
\* no rising slope.
LEMMA PairSign ==
    ASSUME NEW n \in Nat, NEW x \in [1 .. n -> Int], NEW y \in [1 .. n -> Int]
    PROVE  /\ PairProducts(x, y) \in Int
           /\ (\A i, j \in 1 .. n : i < j => Rise(x, y, i, j) >= 0) => PairProducts(x, y) >= 0
           /\ (\A i, j \in 1 .. n : i < j => Rise(x, y, i, j) <= 0) => PairProducts(x, y) <= 0
  <1> DEFINE row(j) == [i \in 1 .. j - 1 |-> Rise(x, y, i, j)]
             h == [j \in 1 .. n |-> Total(row(j))]
  <1>1. PairProducts(x, y) = Total(h)
    BY DEF PairProducts, Rise
  <1>2. \A i, j \in 1 .. n : Rise(x, y, i, j) \in Int
    BY DEF Rise
  <1>3. ASSUME NEW j \in 1 .. n
        PROVE  /\ j - 1 \in Nat /\ row(j) \in [1 .. j - 1 -> Int]
               /\ \A i \in 1 .. j - 1 : i \in 1 .. n /\ i < j /\ row(j)[i] = Rise(x, y, i, j)
    <2>1. \A i \in 1 .. j - 1 : i \in 1 .. n /\ i < j
      OBVIOUS
    <2> QED
      BY <1>2, <2>1
  <1> HIDE DEF row
  <1>4. \A j \in 1 .. n : Total(row(j)) \in Int
    BY <1>3, SumsStep
  <1>5. h \in [1 .. n -> Int] /\ \A j \in 1 .. n : h[j] = Total(row(j))
    BY <1>4
  <1> HIDE DEF h
  <1>6. PairProducts(x, y) \in Int
    BY <1>1, <1>5, SumsStep
  <1>7. ASSUME \A i, j \in 1 .. n : i < j => Rise(x, y, i, j) >= 0
        PROVE  PairProducts(x, y) >= 0
    <2>1. ASSUME NEW j \in 1 .. n PROVE h[j] >= 0
      <3>1. \A i \in 1 .. j - 1 : row(j)[i] >= 0
        BY <1>3, <1>7
      <3>2. Total(row(j)) >= 0
        BY <1>3, <3>1, TotalSign
      <3> QED
        BY <1>5, <3>2
    <2> QED
      BY <1>1, <1>5, <2>1, TotalSign
  <1>8. ASSUME \A i, j \in 1 .. n : i < j => Rise(x, y, i, j) <= 0
        PROVE  PairProducts(x, y) <= 0
    <2>1. ASSUME NEW j \in 1 .. n PROVE h[j] <= 0
      <3>1. \A i \in 1 .. j - 1 : row(j)[i] <= 0
        BY <1>3, <1>8
      <3>2. Total(row(j)) <= 0
        BY <1>3, <3>1, TotalSign
      <3> QED
        BY <1>5, <3>2
    <2> QED
      BY <1>1, <1>5, <2>1, TotalSign
  <1> QED
    BY <1>6, <1>7, <1>8

\* A sample of history.py: the time and a number or None.
Sample == Int \X (Int \cup {NoValue})

\* The known rows are points with two numbers.
LEMMA KnownPoints ==
    ASSUME NEW rows \in Seq(Sample)
    PROVE  LET keep == {i \in DOMAIN rows : rows[i][2] # NoValue} IN
           /\ Len(rows) \in Nat /\ DOMAIN rows = 1 .. Len(rows)
           /\ rows \in [1 .. Len(rows) -> Sample] /\ keep \in SUBSET (1 .. Len(rows))
           /\ Known(rows) = Selected(Len(rows), keep, rows)
           /\ Known(rows) \in Seq(Int \X Int)
  <1> DEFINE n == Len(rows)
             keep == {i \in DOMAIN rows : rows[i][2] # NoValue}
             pts == Known(rows)
  <1>1. n \in Nat /\ DOMAIN rows = 1 .. n /\ rows \in [1 .. n -> Sample]
    OBVIOUS
  <1>2. pts = Selected(n, keep, rows)
    BY DEF Known
  <1> HIDE DEF n, pts
  <1>3. keep \in SUBSET (1 .. n)
    BY <1>1
  <1>4. \A i \in keep : rows[i] \in Int \X Int
    BY <1>1 DEF Sample
  <1> HIDE DEF keep
  <1>5. pts \in Seq(Sample) /\ \E p : Origin(p, pts, n, keep, rows)
    BY <1>1, <1>2, <1>3, SelectedOrigin
  <1>6. \A k \in 1 .. Len(pts) : pts[k] \in Int \X Int
    BY <1>4, <1>5 DEF Origin
  <1>7. pts \in Seq(Int \X Int)
    BY <1>5, <1>6
  <1> QED
    BY <1>1, <1>2, <1>3, <1>7 DEF n, keep, pts

\* The coordinates of points.
LEMMA Coordinates ==
    ASSUME NEW pts \in Seq(Int \X Int)
    PROVE  /\ Len(pts) \in Nat /\ DOMAIN pts = 1 .. Len(pts)
           /\ Xs(pts) \in [1 .. Len(pts) -> Int] /\ Ys(pts) \in [1 .. Len(pts) -> Int]
           /\ \A i \in 1 .. Len(pts) : /\ Xs(pts)[i] = pts[i][1] /\ Ys(pts)[i] = pts[i][2]
                                       /\ pts[i][1] \in Int /\ pts[i][2] \in Int
  <1>1. Len(pts) \in Nat /\ DOMAIN pts = 1 .. Len(pts) /\ \A i \in 1 .. Len(pts) : pts[i] \in Int \X Int
    OBVIOUS
  <1>2. \A i \in 1 .. Len(pts) : pts[i][1] \in Int /\ pts[i][2] \in Int
    BY <1>1
  <1> QED
    BY <1>1, <1>2 DEF Xs, Ys

\* linreg's numerator and denominator are the sums over all pairs.
LEMMA LinregByPairs ==
    ASSUME NEW pts \in Seq(Int \X Int), Len(pts) >= 2
    PROVE  linreg(pts) = SlopeByPairs(pts)
  <1> DEFINE x == Xs(pts)
             y == Ys(pts)
             n == Len(pts)
  <1>1. n \in Nat /\ x \in [1 .. n -> Int] /\ y \in [1 .. n -> Int] /\ ~(n < 2)
    BY Coordinates
  <1> HIDE DEF x, y, n
  <1>2. /\ n * Total(Products(x, y)) - Total(x) * Total(y) = PairProducts(x, y)
        /\ n * Total(Products(x, x)) - Total(x) * Total(x) = PairProducts(x, x)
    BY <1>1, LeastSquares
  <1> QED
    BY <1>1, <1>2 DEF linreg, SlopeByPairs, x, y, n

\* A forecast that is made, in parts.
LEMMA ForecastMade ==
    ASSUME NEW rows \in Seq(Sample), NEW size \in Nat, NEW now \in Int \cup {NoValue},
           forecast_capacity(rows, size, now).trend # "none"
    PROVE  LET pts == Known(rows)
               slope == linreg(pts)
               abs == IF slope.num < 0 THEN -slope.num ELSE slope.num
               flat == abs * FlatDays < size * slope.den
               used == IF now # NoValue THEN now ELSE pts[Len(pts)][2]
               f == forecast_capacity(rows, size, now)
           IN  /\ Len(pts) >= 4 /\ size # 0 /\ slope.den # 0
               /\ f.slope = slope
               /\ f.trend = "shrinking" => ~flat /\ slope.num <= 0
               /\ f.trend = "growing" => ~flat /\ ~(slope.num <= 0)
               /\ f.left = IF used > size THEN 0 ELSE size - used
  <1> DEFINE pts == Known(rows)
             slope == linreg(pts)
  <1>1. pts \in Seq(Int \X Int)
    BY KnownPoints
  <1>2. Len(pts) \in Nat
    BY <1>1
  <1> HIDE DEF pts, slope
  <1> DEFINE abs == IF slope.num < 0 THEN -slope.num ELSE slope.num
             flat == abs * FlatDays < size * slope.den
             used == IF now # NoValue THEN now ELSE pts[Len(pts)][2]
             times == {pts[i][1] : i \in DOMAIN pts}
             made == [trend |-> IF flat THEN "flat" ELSE IF slope.num <= 0 THEN "shrinking" ELSE "growing",
                      slope |-> slope,
                      left |-> IF used > size THEN 0 ELSE size - used]
             f == forecast_capacity(rows, size, now)
  <1>3. f = IF Len(pts) < 4 \/ size = 0 THEN NoForecast
            ELSE IF Max(times) - Min(times) < MinSpan \/ slope.den = 0 THEN NoForecast
            ELSE made
    BY DEF forecast_capacity, pts, slope
  <1>4. NoForecast.trend = "none"
    BY DEF NoForecast
  <1> HIDE DEF f, flat, times
  <1>5. f.trend # "none"
    BY DEF f
  <1>6. ~(Len(pts) < 4) /\ size # 0 /\ slope.den # 0 /\ f = made
    <2> HIDE DEF made
    <2> QED
      BY <1>3, <1>4, <1>5
  <1>7. /\ f.slope = slope /\ f.left = IF used > size THEN 0 ELSE size - used
        /\ f.trend = IF flat THEN "flat" ELSE IF slope.num <= 0 THEN "shrinking" ELSE "growing"
    BY <1>6
  <1> QED
    BY <1>2, <1>6, <1>7 DEF pts, slope, flat, f

(* forecast_capacity, for every history: whatever the samples, a forecast  *)
(* that is made has the least-squares slope, never calls usage shrinking   *)
(* that never falls nor growing that never rises, and never a negative     *)
(* number of days.                                                         *)
THEOREM ForecastsSound ==
    ASSUME NEW rows \in Seq(Sample), NEW size \in Nat, NEW now \in Int \cup {NoValue}
    PROVE  SoundForecast(rows, forecast_capacity(rows, size, now))
  <1> DEFINE pts == Known(rows)
             f == forecast_capacity(rows, size, now)
             slope == linreg(pts)
             x == Xs(pts)
             y == Ys(pts)
             n == Len(pts)
             rise(i, j) == (pts[j][1] - pts[i][1]) * (pts[j][2] - pts[i][2])
  <1>1. SUFFICES ASSUME f.trend # "none"
                 PROVE  /\ f.slope.den > 0
                        /\ f.slope = SlopeByPairs(pts)
                        /\ (\A i, j \in DOMAIN pts : i < j => rise(i, j) >= 0) => f.trend # "shrinking"
                        /\ (\A i, j \in DOMAIN pts : i < j => rise(i, j) <= 0) => f.trend # "growing"
                        /\ f.left >= 0
                        /\ SlopeByPairs(pts).num \in Int /\ SlopeByPairs(pts).den \in Int
    BY DEF SoundForecast
  <1>2. pts \in Seq(Int \X Int)
    BY KnownPoints
  <1> DEFINE abs == IF slope.num < 0 THEN -slope.num ELSE slope.num
             flat == abs * FlatDays < size * slope.den
             used == IF now # NoValue THEN now ELSE pts[n][2]
  <1>3. /\ n >= 4 /\ size # 0 /\ slope.den # 0 /\ f.slope = slope
        /\ f.trend = "shrinking" => ~flat /\ slope.num <= 0
        /\ f.trend = "growing" => ~flat /\ ~(slope.num <= 0)
        /\ f.left = IF used > size THEN 0 ELSE size - used
    BY <1>1, ForecastMade
  <1> HIDE DEF pts, f
  <1>4. /\ n \in Nat /\ DOMAIN pts = 1 .. n /\ x \in [1 .. n -> Int] /\ y \in [1 .. n -> Int]
        /\ \A i \in 1 .. n : x[i] = pts[i][1] /\ y[i] = pts[i][2] /\ pts[i][2] \in Int
    BY <1>2, Coordinates
  <1>5. slope = SlopeByPairs(pts)
    BY <1>2, <1>3, <1>4, LinregByPairs
  <1>6. SlopeByPairs(pts).num = PairProducts(x, y) /\ SlopeByPairs(pts).den = PairProducts(x, x)
    BY DEF SlopeByPairs
  <1> HIDE DEF x, y, n, slope
  <1>7. slope.num = PairProducts(x, y) /\ slope.den = PairProducts(x, x)
    BY <1>5, <1>6
  <1>8. slope.num \in Int /\ slope.den \in Int
    BY <1>4, <1>7, PairSign
  <1>9. slope.den > 0
    <2>1. ASSUME NEW i \in 1 .. n, NEW j \in 1 .. n PROVE Rise(x, x, i, j) >= 0
      <3> DEFINE d == x[j] - x[i]
      <3>1. d \in Int
        BY <1>4
      <3> HIDE DEF d
      <3>2. d * d >= 0
        BY <3>1
      <3> QED
        BY <3>2 DEF Rise, d
    <2>2. PairProducts(x, x) >= 0
      BY <1>4, <2>1, PairSign
    <2> QED
      BY <1>3, <1>7, <1>8, <2>2
  <1>10. \A i, j \in 1 .. n : Rise(x, y, i, j) = rise(i, j)
    BY <1>4 DEF Rise
  <1>11. ASSUME \A i, j \in DOMAIN pts : i < j => rise(i, j) >= 0 PROVE f.trend # "shrinking"
    <2> HIDE DEF flat
    <2>1. \A i, j \in 1 .. n : i < j => Rise(x, y, i, j) >= 0
      BY <1>4, <1>10, <1>11
    <2>2. slope.num >= 0
      BY <1>4, <1>7, <2>1, PairSign
    <2>3. CASE slope.num = 0
      <3>1. abs * FlatDays = 0
        BY <2>3, TrendsAssumption
      <3>2. size * slope.den > 0
        BY <1>3, <1>8, <1>9
      <3>3. flat
        BY <3>1, <3>2 DEF flat
      <3> QED
        BY <1>3, <3>3
    <2> QED
      BY <1>3, <1>8, <2>2, <2>3
  <1>12. ASSUME \A i, j \in DOMAIN pts : i < j => rise(i, j) <= 0 PROVE f.trend # "growing"
    <2> HIDE DEF flat
    <2>1. \A i, j \in 1 .. n : i < j => Rise(x, y, i, j) <= 0
      BY <1>4, <1>10, <1>12
    <2>2. slope.num <= 0
      BY <1>4, <1>7, <2>1, PairSign
    <2> QED
      BY <1>3, <2>2
  <1>13. f.left >= 0
    <2>1. used \in Int
      BY <1>3, <1>4
    <2> HIDE DEF used
    <2> QED
      BY <1>3, <2>1
  <1> HIDE DEF flat
  <1> QED
    BY <1>3, <1>5, <1>8, <1>9, <1>11, <1>12, <1>13

-----------------------------------------------------------------------------
(* Averaging into buckets *)

\* The least and the greatest of a list of numbers.
LEMMA Extremes ==
    ASSUME NEW n \in Nat, n >= 1, NEW t \in [1 .. n -> Int], NEW S, S = {t[i] : i \in 1 .. n}
    PROVE  /\ Min(S) \in Int /\ \A i \in 1 .. n : Min(S) <= t[i]
           /\ Max(S) \in Int /\ \A i \in 1 .. n : t[i] <= Max(S)
  <1> DEFINE T == {m \in 0 .. n - 1 : \E a, b \in 1 .. n : \A j \in 1 .. m + 1 : t[a] <= t[j] /\ t[j] <= t[b]}
  <1>1. 0 \in T
    <2>1. 1 \in 1 .. n /\ 0 \in 0 .. n - 1 /\ \A j \in 1 .. 0 + 1 : t[1] <= t[j] /\ t[j] <= t[1]
      OBVIOUS
    <2> QED
      BY <2>1
  <1>2. ASSUME NEW m \in 0 .. (n - 1) - 1, m \in T PROVE m + 1 \in T
    <2>1. PICK a \in 1 .. n, b \in 1 .. n : \A j \in 1 .. m + 1 : t[a] <= t[j] /\ t[j] <= t[b]
      BY <1>2
    <2>2. m + 2 \in 1 .. n /\ m + 1 \in 0 .. n - 1
      OBVIOUS
    <2>3. PICK c \in 1 .. n : t[c] <= t[a] /\ t[c] <= t[m + 2]
      BY <2>2
    <2>4. PICK d \in 1 .. n : t[b] <= t[d] /\ t[m + 2] <= t[d]
      BY <2>2
    <2>5. ASSUME NEW j \in 1 .. (m + 1) + 1 PROVE t[c] <= t[j] /\ t[j] <= t[d]
      <3>1. j = m + 2 \/ j \in 1 .. m + 1
        OBVIOUS
      <3>2. CASE j = m + 2
        BY <2>3, <2>4, <3>2
      <3>3. CASE j \in 1 .. m + 1
        <4>1. t[a] <= t[j] /\ t[j] <= t[b] /\ j \in 1 .. n
          BY <2>1, <3>3
        <4> QED
          BY <2>3, <2>4, <4>1
      <3> QED
        BY <3>1, <3>2, <3>3
    <2> QED
      BY <2>2, <2>5
  <1> HIDE DEF T
  <1>3. n - 1 \in Nat /\ (n - 1) + 1 = n /\ n - 1 \in 0 .. n - 1
    OBVIOUS
  <1>4. \A m \in 0 .. n - 1 : m \in T
    BY <1>1, <1>2, <1>3, TurnInduction
  <1>5. PICK a \in 1 .. n, b \in 1 .. n : \A j \in 1 .. n : t[a] <= t[j] /\ t[j] <= t[b]
    BY <1>3, <1>4 DEF T
  <1>6. \E x \in S : \A y \in S : x <= y
    BY <1>5
  <1>7. \E x \in S : \A y \in S : x >= y
    BY <1>5
  <1>8. Min(S) \in S /\ \A y \in S : Min(S) <= y
    BY <1>6 DEF Min
  <1>9. Max(S) \in S /\ \A y \in S : Max(S) >= y
    BY <1>7 DEF Max
  <1>10. S \subseteq Int /\ \A i \in 1 .. n : t[i] \in S
    OBVIOUS
  <1> QED
    BY <1>8, <1>9, <1>10

\* Quotients: of the sign of the dividend, growing with it, and exact on a multiple.
LEMMA Quotients ==
    ASSUME NEW d \in Nat \ {0}
    PROVE  /\ \A a \in Nat : a \div d \in Nat
           /\ \A a, b \in Nat : a <= b => a \div d <= b \div d
           /\ \A a \in Nat : (d * a) \div d = a
  <1>1. ASSUME NEW a \in Nat PROVE a \div d \in Nat
    OBVIOUS
  <1>2. ASSUME NEW a \in Nat, NEW b \in Nat, a <= b PROVE a \div d <= b \div d
    BY <1>2
  <1>3. ASSUME NEW a \in Nat PROVE (d * a) \div d = a
    OBVIOUS
  <1> QED
    BY <1>1, <1>2, <1>3

\* The part of the values that lies in cell b.
InCell(n, cell, val, b) == [i \in 1 .. n |-> IF cell[i] = b THEN val[i] ELSE 0]

ByCell(n, m, cell, val) == [b \in 1 .. m |-> Total(InCell(n, cell, val, b))]

\* Values spread over cells, each in one, add up cell by cell to their sum.
LEMMA PartitionTotal ==
    ASSUME NEW n \in Nat, NEW m \in Nat, NEW cell \in [1 .. n -> 1 .. m], NEW val \in [1 .. n -> Int]
    PROVE  Total(ByCell(n, m, cell, val)) = Total(val)
  <1> DEFINE h == [b \in 1 .. m |-> InCell(n, cell, val, b)]
             col(i) == [b \in 1 .. m |-> h[b][i]]
  <1>1. \A b \in 1 .. m : InCell(n, cell, val, b) \in [1 .. n -> Int]
    BY DEF InCell
  <1>2. /\ h \in [1 .. m -> [1 .. n -> Int]]
        /\ \A b \in 1 .. m : h[b] = InCell(n, cell, val, b)
    BY <1>1
  <1>3. \A b \in 1 .. m, i \in 1 .. n : h[b][i] = IF cell[i] = b THEN val[i] ELSE 0
    BY <1>2 DEF InCell
  <1> HIDE DEF h
  <1>4. ASSUME NEW i \in 1 .. n PROVE Total(col(i)) = val[i]
    <2>1. /\ col(i) \in [1 .. m -> Int] /\ cell[i] \in 1 .. m /\ val[i] \in Int
          /\ \A b \in 1 .. m : col(i)[b] = IF cell[i] = b THEN val[i] ELSE 0
      BY <1>3
    <2> HIDE DEF col
    <2>2. \A b \in 1 .. m : b # cell[i] => col(i)[b] = 0
      BY <2>1
    <2>3. Total(col(i)) = col(i)[cell[i]]
      BY <2>1, <2>2, TotalSingle
    <2> QED
      BY <2>1, <2>3
  <1>5. [i \in 1 .. n |-> Total(col(i))] = val
    <2> HIDE DEF col
    <2> QED
      BY <1>4
  <1>6. Total([b \in 1 .. m |-> Total(h[b])]) = Total([i \in 1 .. n |-> Total(col(i))])
    BY <1>2, TotalSwap
  <1>7. [b \in 1 .. m |-> Total(h[b])] = [b \in 1 .. m |-> Total(InCell(n, cell, val, b))]
    BY <1>2
  <1> QED
    BY <1>5, <1>6, <1>7 DEF ByCell

\* The rows' values with 0 for None, and a 1 for every value that is not None.
Values(rows) == [i \in 1 .. Len(rows) |-> IF rows[i][2] # NoValue THEN rows[i][2] ELSE 0]
Ones(rows) == [i \in 1 .. Len(rows) |-> IF rows[i][2] # NoValue THEN 1 ELSE 0]

\* What the known rows add up to.
LEMMA KnownTotals ==
    ASSUME NEW rows \in Seq(Sample)
    PROVE  /\ Values(rows) \in [1 .. Len(rows) -> Int] /\ Ones(rows) \in [1 .. Len(rows) -> Int]
           /\ Total(Ys(Known(rows))) = Total(Values(rows))
           /\ Len(Known(rows)) = Total(Ones(rows))
           /\ Cardinality({i \in DOMAIN rows : rows[i][2] # NoValue}) = Total(Ones(rows))
  <1> DEFINE n == Len(rows)
             keep == {i \in DOMAIN rows : rows[i][2] # NoValue}
             known == Known(rows)
             w == [v \in Sample |-> IF v[2] # NoValue THEN v[2] ELSE 0]
  <1>1. /\ n \in Nat /\ DOMAIN rows = 1 .. n /\ rows \in [1 .. n -> Sample]
        /\ keep \in SUBSET (1 .. n)
        /\ known = Selected(n, keep, rows) /\ known \in Seq(Int \X Int)
    BY KnownPoints
  <1> HIDE DEF n, known
  <1>2. \A i \in 1 .. n : rows[i] \in Sample /\ (rows[i][2] # NoValue => rows[i][2] \in Int)
    BY <1>1 DEF Sample
  <1>3. Values(rows) \in [1 .. n -> Int] /\ Ones(rows) \in [1 .. n -> Int]
    BY <1>2 DEF Values, Ones, n
  <1>4. Cardinality(keep) = Total(Ones(rows))
    <2>1. Ones(rows) = [i \in 1 .. n |-> IF i \in keep THEN 1 ELSE 0]
      BY <1>1 DEF Ones, n
    <2> HIDE DEF keep
    <2>2. Cardinality(keep) = Total([i \in 1 .. n |-> IF i \in keep THEN 1 ELSE 0])
      BY <1>1, CountIsTotal
    <2> QED
      BY <2>1, <2>2
  <1>5. Len(known) = Cardinality(keep)
    <2> HIDE DEF keep
    <2> QED
      BY <1>1, SelectedLength
  <1>6. w \in [Sample -> Int]
    BY DEF Sample
  <1>7. KeptWeights(n, keep, rows, w) = Values(rows)
    BY <1>1, <1>2 DEF KeptWeights, Values, n
  <1>8. Weights(known, w) = Ys(known)
    <2>1. /\ Len(known) \in Nat /\ DOMAIN known = 1 .. Len(known)
          /\ \A k \in 1 .. Len(known) : known[k] \in Int \X Int
      <3> HIDE DEF w, keep
      <3>1. known \in Seq(Int \X Int)
        BY <1>1
      <3> QED
        BY <3>1
    <2>2. NoValue \notin Int
      BY TrendsAssumption
    <2>3. \A v \in Int \X Int : v \in Sample /\ v[2] # NoValue
      BY <2>2 DEF Sample
    <2>4. ASSUME NEW v \in Int \X Int PROVE w[v] = v[2]
      <3>1. v \in Sample /\ v[2] # NoValue
        BY <2>3
      <3> QED
        BY <3>1
    <2> HIDE DEF w
    <2>5. ASSUME NEW k \in 1 .. Len(known) PROVE w[known[k]] = known[k][2]
      BY <2>1, <2>4
    <2> QED
      BY <2>1, <2>5 DEF Weights, Ys
  <1> HIDE DEF w, keep
  <1>9. Total(Weights(Selected(n, keep, rows), w)) = Total(KeptWeights(n, keep, rows, w))
    BY <1>1, <1>6, SelectedTotal
  <1>10. Total(Ys(known)) = Total(Values(rows))
    BY <1>1, <1>7, <1>8, <1>9
  <1> QED
    BY <1>3, <1>4, <1>5, <1>10 DEF n, keep, known

\* The bucket of a time inside the window is one of the buckets.
LEMMA BucketRange ==
    ASSUME NEW ts \in Int, NEW t0 \in Int, NEW t1 \in Int, t0 <= ts, ts <= t1, t0 < t1,
           NEW B \in Nat \ {0}
    PROVE  Bucket(ts, t0, t1, B) \in 0 .. B - 1
  <1> DEFINE a == (ts - t0) * B
             d == t1 - t0
  <1>1. a \in Nat /\ d \in Nat \ {0}
    <2>1. ts - t0 \in Nat
      OBVIOUS
    <2> QED
      BY <2>1
  <1> HIDE DEF a, d
  <1>2. a \div d \in Nat
    BY <1>1, Quotients
  <1>3. Bucket(ts, t0, t1, B) = IF a \div d > B - 1 THEN B - 1 ELSE a \div d
    BY DEF Bucket, a, d
  <1> QED
    BY <1>2, <1>3

\* Where a bucket begins.
At(b, t0, t1, B) == t0 + (b * (t1 - t0)) \div B

\* The buckets begin inside the window, in their order.
LEMMA BucketTimes ==
    ASSUME NEW t0 \in Int, NEW t1 \in Int, t0 < t1, NEW B \in Nat \ {0}
    PROVE  /\ \A b \in 0 .. B : At(b, t0, t1, B) \in t0 .. t1
           /\ \A b, c \in 0 .. B : b <= c => At(b, t0, t1, B) <= At(c, t0, t1, B)
  <1> DEFINE d == t1 - t0
  <1>1. d \in Nat /\ t1 = t0 + d
    OBVIOUS
  <1> HIDE DEF d
  <1>2. \A b \in 0 .. B : b * d \in Nat
    BY <1>1
  <1>3. ASSUME NEW b \in 0 .. B, NEW c \in 0 .. B, b <= c PROVE b * d <= c * d
    BY <1>1, <1>3
  <1>4. ASSUME NEW b \in 0 .. B PROVE (b * d) \div B \in Nat /\ (b * d) \div B <= d
    <2>1. B \in 0 .. B /\ b <= B /\ b * d \in Nat /\ B * d \in Nat
      BY <1>2
    <2>2. b * d <= B * d
      BY <1>3, <2>1
    <2>3. (B * d) \div B = d
      BY <1>1, Quotients
    <2>4. (b * d) \div B <= (B * d) \div B
      BY <2>1, <2>2, Quotients
    <2> QED
      BY <2>1, <2>3, <2>4, Quotients
  <1>5. ASSUME NEW b \in 0 .. B, NEW c \in 0 .. B, b <= c PROVE (b * d) \div B <= (c * d) \div B
    <2>1. b * d <= c * d
      BY <1>3, <1>5
    <2>2. b * d \in Nat /\ c * d \in Nat
      BY <1>2
    <2> QED
      BY <2>1, <2>2, Quotients
  <1>6. \A b \in 0 .. B : At(b, t0, t1, B) = t0 + (b * d) \div B
    BY DEF At, d
  <1>7. ASSUME NEW b \in 0 .. B PROVE At(b, t0, t1, B) \in t0 .. t1
    <2> DEFINE q == (b * d) \div B
    <2>1. q \in Nat /\ q <= d /\ At(b, t0, t1, B) = t0 + q
      BY <1>4, <1>6
    <2> HIDE DEF q
    <2> QED
      BY <1>1, <2>1
  <1>8. ASSUME NEW b \in 0 .. B, NEW c \in 0 .. B, b <= c PROVE At(b, t0, t1, B) <= At(c, t0, t1, B)
    <2> DEFINE q == (b * d) \div B
               r == (c * d) \div B
    <2>1. q \in Nat /\ r \in Nat /\ q <= r /\ At(b, t0, t1, B) = t0 + q /\ At(c, t0, t1, B) = t0 + r
      BY <1>4, <1>5, <1>6, <1>8
    <2> HIDE DEF q, r
    <2> QED
      BY <2>1
  <1> QED
    BY <1>7, <1>8

\* The rows of bucket b, and its point.
Acc(rows, t0, t1, B, b) == {i \in DOMAIN rows : Bucket(rows[i][1], t0, t1, B) = b}
Point(rows, t0, t1, B, b) ==
  [at |-> At(b, t0, t1, B), avg |-> Average(rows, Acc(rows, t0, t1, B, b))]
IsPoint == [at : Int, avg : [sum : Int, count : Int]]

\* The number of the bucket of each row, counted from 1.
Cells(rows, t0, t1, B) == [i \in 1 .. Len(rows) |-> Bucket(rows[i][1], t0, t1, B) + 1]

\* The average of a bucket is made of the values of its rows, and of no other.
LEMMA BucketAverage ==
    ASSUME NEW rows \in Seq(Sample), NEW t0 \in Int, NEW t1 \in Int, t0 < t1, NEW B \in Nat \ {0},
           \A i \in 1 .. Len(rows) : t0 <= rows[i][1] /\ rows[i][1] <= t1,
           NEW b \in 1 .. B + 1
    PROVE  LET cell == Cells(rows, t0, t1, B)
               acc == Acc(rows, t0, t1, B, b - 1)
               avg == Average(rows, acc)
           IN  /\ cell \in [1 .. Len(rows) -> 1 .. B]
               /\ avg.sum = Total(InCell(Len(rows), cell, Values(rows), b)) /\ avg.sum \in Int
               /\ avg.count = Total(InCell(Len(rows), cell, Ones(rows), b)) /\ avg.count \in Int
               /\ avg = [sum |-> avg.sum, count |-> avg.count]
               /\ acc = {} => avg.sum = 0 /\ avg.count = 0
               /\ b = B + 1 => acc = {}
  <1> DEFINE n == Len(rows)
             cell == Cells(rows, t0, t1, B)
             acc == Acc(rows, t0, t1, B, b - 1)
             avg == Average(rows, acc)
             sums == InCell(n, cell, Values(rows), b)
             counts == InCell(n, cell, Ones(rows), b)
             S == {i \in acc : rows[i][2] # NoValue}
  <1>1. /\ n \in Nat /\ DOMAIN rows = 1 .. n
        /\ \A i \in 1 .. n : rows[i] \in Sample /\ rows[i][1] \in Int
        /\ b \in Int
    BY DEF Sample
  <1>2. Values(rows) \in [1 .. n -> Int] /\ Ones(rows) \in [1 .. n -> Int]
    BY KnownTotals
  <1>3. /\ \A i \in 1 .. n : Values(rows)[i] = IF rows[i][2] # NoValue THEN rows[i][2] ELSE 0
        /\ \A i \in 1 .. n : Ones(rows)[i] = IF rows[i][2] # NoValue THEN 1 ELSE 0
    BY DEF Values, Ones
  <1>4. \A i \in 1 .. n : Bucket(rows[i][1], t0, t1, B) \in 0 .. B - 1
    BY <1>1, BucketRange
  <1>5. cell \in [1 .. n -> 1 .. B] /\ \A i \in 1 .. n : cell[i] = Bucket(rows[i][1], t0, t1, B) + 1
    BY <1>4 DEF Cells
  <1>6. acc \subseteq 1 .. n /\ \A i \in 1 .. n : i \in acc <=> cell[i] = b
    BY <1>1, <1>4, <1>5 DEF Acc
  <1> HIDE DEF n, cell, acc
  <1>7. /\ sums = [i \in 1 .. n |-> IF cell[i] = b THEN Values(rows)[i] ELSE 0]
        /\ counts = [i \in 1 .. n |-> IF cell[i] = b THEN Ones(rows)[i] ELSE 0]
    BY DEF InCell
  <1>8. [i \in DOMAIN rows |-> IF i \in acc /\ rows[i][2] # NoValue THEN rows[i][2] ELSE 0] = sums
    BY <1>1, <1>3, <1>6, <1>7
  <1>9. avg.sum = Total(sums) /\ avg.count = Cardinality(S) /\ avg = [sum |-> avg.sum, count |-> avg.count]
    BY <1>8 DEF Average
  <1>10. sums \in [1 .. n -> Int] /\ counts \in [1 .. n -> Int]
    BY <1>2, <1>7
  <1>11. S \in SUBSET (1 .. n) /\ [i \in 1 .. n |-> IF i \in S THEN 1 ELSE 0] = counts
    BY <1>3, <1>6, <1>7, ZenonT(30)
  <1> HIDE DEF sums, counts, S, avg
  <1>12. Cardinality(S) = Total(counts)
    BY <1>1, <1>11, CountIsTotal
  <1>13. Total(sums) \in Int /\ Total(counts) \in Int
    BY <1>1, <1>10, SumsStep
  <1>14. ASSUME acc = {} PROVE Total(sums) = 0 /\ Total(counts) = 0
    <2>1. (\A i \in 1 .. n : sums[i] = 0) /\ (\A i \in 1 .. n : counts[i] = 0)
      BY <1>6, <1>7, <1>14
    <2>2. n * 0 = 0 /\ 0 \in Int
      BY <1>1
    <2> QED
      BY <1>1, <1>10, <2>1, <2>2, TotalConstant
  <1>15. b = B + 1 => acc = {}
    BY <1>5, <1>6
  <1> QED
    BY <1>5, <1>9, <1>12, <1>13, <1>14, <1>15 DEF n, cell, acc, avg, sums, counts

\* The buckets that have rows, the points of all, and the list downsample returns.
Filled(rows, t0, t1, B) == {b \in 1 .. B + 1 : Acc(rows, t0, t1, B, b - 1) # {}}
Points(rows, t0, t1, B) == [b \in 1 .. B + 1 |-> Point(rows, t0, t1, B, b - 1)]
Averages(rows, t0, t1, B) == Selected(B + 1, Filled(rows, t0, t1, B), Points(rows, t0, t1, B))

\* The sums and the counts of the points, as lists.
SumsOf(points) == [i \in DOMAIN points |-> points[i].avg.sum]
CountsOf(points) == [i \in DOMAIN points |-> points[i].avg.count]

\* The averages of a window: no more than there are buckets, with all the values.
LEMMA AveragesConserve ==
    ASSUME NEW rows \in Seq(Sample), NEW t0 \in Int, NEW t1 \in Int, t0 < t1, NEW B \in Nat \ {0},
           \A i \in 1 .. Len(rows) : t0 <= rows[i][1] /\ rows[i][1] <= t1
    PROVE  LET out == Averages(rows, t0, t1, B) IN
           /\ out \in Seq(IsPoint) /\ Len(out) <= B
           /\ Total(SumsOf(out)) = Total(Values(rows))
           /\ Total(CountsOf(out)) = Total(Ones(rows))
           /\ \A i \in DOMAIN out : out[i].at \in t0 .. t1
           /\ \A i, j \in DOMAIN out : i < j => out[i].at <= out[j].at
  <1> DEFINE n == Len(rows)
             keep == Filled(rows, t0, t1, B)
             item == Points(rows, t0, t1, B)
             out == Averages(rows, t0, t1, B)
             cell == Cells(rows, t0, t1, B)
             avg(b) == Average(rows, Acc(rows, t0, t1, B, b - 1))
             sums(b) == Total(InCell(n, cell, Values(rows), b))
             counts(b) == Total(InCell(n, cell, Ones(rows), b))
  <1>1. n \in Nat /\ B + 1 \in Nat /\ B + 1 \in 1 .. B + 1 /\ B \in Nat
    OBVIOUS
  <1>2. ASSUME NEW b \in 1 .. B + 1
        PROVE  /\ cell \in [1 .. n -> 1 .. B]
               /\ avg(b).sum = sums(b) /\ avg(b).sum \in Int
               /\ avg(b).count = counts(b) /\ avg(b).count \in Int
               /\ avg(b) = [sum |-> avg(b).sum, count |-> avg(b).count]
               /\ Acc(rows, t0, t1, B, b - 1) = {} => avg(b).sum = 0 /\ avg(b).count = 0
               /\ b = B + 1 => Acc(rows, t0, t1, B, b - 1) = {}
    <2> HIDE DEF keep, item, out
    <2> QED
      BY BucketAverage, Zenon
  <1> HIDE DEF cell, n
  <1>3. cell \in [1 .. n -> 1 .. B + 1]
    <2>1. cell \in [1 .. n -> 1 .. B]
      BY <1>1, <1>2
    <2> QED
      BY <1>1, <2>1
  <1>4. ASSUME NEW b \in 1 .. B + 1, b \notin keep PROVE sums(b) = 0 /\ counts(b) = 0
    <2>1. Acc(rows, t0, t1, B, b - 1) = {}
      BY <1>4 DEF Filled
    <2> HIDE DEF sums, counts, avg
    <2> QED
      BY <1>2, <2>1
  <1>5. keep \subseteq 1 .. B
    <2>1. keep \subseteq 1 .. B + 1 /\ B + 1 \notin keep
      BY <1>1, <1>2 DEF Filled
    <2> HIDE DEF keep
    <2> QED
      BY <2>1
  <1> HIDE DEF sums, counts
  <1>6. ASSUME NEW b \in 1 .. B + 1
        PROVE  /\ item[b] \in IsPoint
               /\ item[b].at = At(b - 1, t0, t1, B)
               /\ item[b].avg.sum = sums(b) /\ item[b].avg.count = counts(b)
               /\ sums(b) \in Int /\ counts(b) \in Int
    <2>1. item[b] = [at |-> At(b - 1, t0, t1, B), avg |-> avg(b)]
      BY DEF Points, Point
    <2>2. b - 1 \in 0 .. B
      OBVIOUS
    <2>3. At(b - 1, t0, t1, B) \in Int
      BY <2>2, BucketTimes
    <2>4. avg(b) \in [sum : Int, count : Int] /\ avg(b).sum = sums(b) /\ avg(b).count = counts(b)
      <3> HIDE DEF avg
      <3> QED
        BY <1>2
    <2> HIDE DEF avg, item
    <2>5. item[b] \in IsPoint
      BY <2>1, <2>3, <2>4 DEF IsPoint
    <2>6. item[b].at = At(b - 1, t0, t1, B) /\ item[b].avg = avg(b)
      BY <2>1
    <2>7. sums(b) \in Int /\ counts(b) \in Int
      BY <1>2, <2>4 DEF avg
    <2> QED
      BY <2>4, <2>5, <2>6, <2>7
  <1>7. item \in [1 .. B + 1 -> IsPoint]
    <2>1. item = [b \in 1 .. B + 1 |-> item[b]]
      BY DEF Points
    <2> HIDE DEF item
    <2> QED
      BY <1>6, <2>1
  <1>8. out = Selected(B + 1, keep, item)
    BY DEF Averages
  <1> HIDE DEF keep, item, out, avg
  <1>9. keep \in SUBSET (1 .. B + 1)
    BY <1>1, <1>5
  <1>10. out \in Seq(IsPoint) /\ \E p : Origin(p, out, B + 1, keep, item)
    BY <1>1, <1>7, <1>8, <1>9, SelectedOrigin
  <1>11. Len(out) \in Nat /\ DOMAIN out = 1 .. Len(out) /\ \A k \in 1 .. Len(out) : out[k] \in IsPoint
    BY <1>10
  <1>12. Len(out) <= B
    <2>1. Len(out) = Cardinality(keep)
      BY <1>1, <1>7, <1>8, <1>9, SelectedLength
    <2>2. IsFiniteSet(1 .. B) /\ Cardinality(1 .. B) = B
      <3>1. 1 \in Int /\ B \in Int /\ ~(1 > B) /\ B - 1 + 1 = B
        BY <1>1
      <3> QED
        BY <3>1, FS_Interval
    <2>3. Cardinality(keep) <= Cardinality(1 .. B)
      BY <1>5, <2>2, FS_Subset
    <2> QED
      BY <2>1, <2>2, <2>3
  <1>13. Total(SumsOf(out)) = Total(Values(rows))
    <2> DEFINE w == [v \in IsPoint |-> v.avg.sum]
    <2>1. w \in [IsPoint -> Int]
      BY DEF IsPoint
    <2>2. Weights(out, w) = SumsOf(out)
      BY <1>11 DEF Weights, SumsOf
    <2>3. \A b \in 1 .. B + 1 : w[item[b]] = sums(b)
      BY <1>6
    <2> HIDE DEF w
    <2>4. KeptWeights(B + 1, keep, item, w) = [b \in 1 .. B + 1 |-> sums(b)]
      <3>1. \A b \in 1 .. B + 1 : (IF b \in keep THEN w[item[b]] ELSE 0) = sums(b)
        BY <1>4, <2>3
      <3> QED
        BY <3>1 DEF KeptWeights
    <2>5. Total(Weights(Selected(B + 1, keep, item), w)) = Total(KeptWeights(B + 1, keep, item, w))
      <3> DEFINE M == B + 1
      <3>1. M \in Nat
        BY <1>1
      <3>2. item \in [1 .. M -> IsPoint]
        BY <1>7
      <3>3. keep \in SUBSET (1 .. M)
        BY <1>9
      <3> HIDE DEF M
      <3>4. Total(Weights(Selected(M, keep, item), w)) = Total(KeptWeights(M, keep, item, w))
        <4>1. Weighing(M, IsPoint, keep, item, w)
          BY <2>1, <3>1, <3>2, <3>3 DEF Weighing
        <4> QED
          BY <4>1, WeighedTotal
      <3> QED
        BY <3>4 DEF M
    <2>6. Total([b \in 1 .. B + 1 |-> sums(b)]) = Total(Values(rows))
      <3>1. Values(rows) \in [1 .. n -> Int]
        BY KnownTotals DEF n
      <3>2. Total(ByCell(n, B + 1, cell, Values(rows))) = Total(Values(rows))
        BY <1>1, <1>3, <3>1, PartitionTotal, Zenon
      <3> QED
        BY <3>2 DEF ByCell, sums
    <2> QED
      BY <1>8, <2>2, <2>4, <2>5, <2>6
  <1>14. Total(CountsOf(out)) = Total(Ones(rows))
    <2> DEFINE w == [v \in IsPoint |-> v.avg.count]
    <2>1. w \in [IsPoint -> Int]
      BY DEF IsPoint
    <2>2. Weights(out, w) = CountsOf(out)
      BY <1>11 DEF Weights, CountsOf
    <2>3. \A b \in 1 .. B + 1 : w[item[b]] = counts(b)
      BY <1>6
    <2> HIDE DEF w
    <2>4. KeptWeights(B + 1, keep, item, w) = [b \in 1 .. B + 1 |-> counts(b)]
      <3>1. \A b \in 1 .. B + 1 : (IF b \in keep THEN w[item[b]] ELSE 0) = counts(b)
        BY <1>4, <2>3
      <3> QED
        BY <3>1 DEF KeptWeights
    <2>5. Total(Weights(Selected(B + 1, keep, item), w)) = Total(KeptWeights(B + 1, keep, item, w))
      <3> DEFINE M == B + 1
      <3>1. M \in Nat
        BY <1>1
      <3>2. item \in [1 .. M -> IsPoint]
        BY <1>7
      <3>3. keep \in SUBSET (1 .. M)
        BY <1>9
      <3> HIDE DEF M
      <3>4. Total(Weights(Selected(M, keep, item), w)) = Total(KeptWeights(M, keep, item, w))
        <4>1. Weighing(M, IsPoint, keep, item, w)
          BY <2>1, <3>1, <3>2, <3>3 DEF Weighing
        <4> QED
          BY <4>1, WeighedTotal
      <3> QED
        BY <3>4 DEF M
    <2>6. Total([b \in 1 .. B + 1 |-> counts(b)]) = Total(Ones(rows))
      <3>1. Ones(rows) \in [1 .. n -> Int]
        BY KnownTotals DEF n
      <3>2. Total(ByCell(n, B + 1, cell, Ones(rows))) = Total(Ones(rows))
        BY <1>1, <1>3, <3>1, PartitionTotal, Zenon
      <3> QED
        BY <3>2 DEF ByCell, counts
    <2> QED
      BY <1>8, <2>2, <2>4, <2>5, <2>6
  <1>15. PICK p : Origin(p, out, B + 1, keep, item)
    BY <1>10
  <1>16. ASSUME NEW k \in DOMAIN out
         PROVE  p[k] - 1 \in 0 .. B /\ out[k].at = At(p[k] - 1, t0, t1, B)
    <2>1. p[k] \in keep /\ out[k] = item[p[k]]
      BY <1>11, <1>15 DEF Origin
    <2> DEFINE b == p[k]
    <2>2. b \in 1 .. B /\ out[k] = item[b]
      BY <1>5, <2>1
    <2> HIDE DEF b
    <2>3. b \in 1 .. B + 1 /\ b - 1 \in 0 .. B
      BY <2>2
    <2>4. out[k].at = At(b - 1, t0, t1, B)
      BY <1>6, <2>2, <2>3
    <2> QED
      BY <2>3, <2>4 DEF b
  <1>17. \A k \in DOMAIN out : out[k].at \in t0 .. t1
    BY <1>16, BucketTimes
  <1>18. ASSUME NEW i \in DOMAIN out, NEW j \in DOMAIN out, i < j PROVE out[i].at <= out[j].at
    <2>1. p[i] < p[j] /\ p[i] \in 1 .. B + 1 /\ p[j] \in 1 .. B + 1
      BY <1>11, <1>15, <1>18 DEF Origin
    <2>2. p[i] - 1 \in 0 .. B /\ p[j] - 1 \in 0 .. B /\ p[i] - 1 <= p[j] - 1
      BY <1>16, <2>1
    <2> QED
      BY <1>16, <2>2, BucketTimes
  <1> QED
    BY <1>10, <1>12, <1>13, <1>14, <1>17, <1>18 DEF out

\* Conserved, in the terms of the lemmas.
LEMMA ConservedParts ==
    ASSUME NEW rows \in Seq(Sample), NEW buckets, NEW points, NEW times,
           times = {rows[i][1] : i \in DOMAIN rows},
           Len(points) <= buckets,
           Total(SumsOf(points)) = Total(Values(rows)),
           Total(CountsOf(points)) = Total(Ones(rows)),
           \A i \in DOMAIN points : points[i].at \in Min(times) .. Max(times),
           \A i, j \in DOMAIN points : i < j => points[i].at <= points[j].at
    PROVE  Conserved(rows, buckets, points)
  <1>1. Total(Ys(Known(rows))) = Total(Values(rows)) /\ Len(Known(rows)) = Total(Ones(rows))
    BY KnownTotals
  <1> QED
    BY <1>1 DEF Conserved, SumsOf, CountsOf

(* downsample, for every list of samples and any number of buckets: no     *)
(* more points than buckets, in the order of time and inside the window,   *)
(* whose sums and counts add up to those of all the rows with a value.     *)
THEOREM SamplesConserved ==
    ASSUME NEW rows \in Seq(Sample), NEW buckets \in Nat \ {0}
    PROVE  Conserved(rows, buckets, downsample(rows, buckets))
  <1> DEFINE n == Len(rows)
             t == [i \in 1 .. n |-> rows[i][1]]
             times == {rows[i][1] : i \in DOMAIN rows}
             t0 == Min(times)
             t1 == Max(times)
             out == downsample(rows, buckets)
  <1>1. /\ n \in Nat /\ DOMAIN rows = 1 .. n
        /\ \A i \in 1 .. n : rows[i] \in Sample /\ rows[i][1] \in Int
    BY DEF Sample
  <1>2. Values(rows) \in [1 .. n -> Int] /\ Ones(rows) \in [1 .. n -> Int]
    BY KnownTotals
  <1>3. CASE rows = <<>>
    <2>1. out = <<>> /\ n = 0
      BY <1>3 DEF downsample
    <2>2. Values(rows) = <<>> /\ Ones(rows) = <<>> /\ SumsOf(out) = <<>> /\ CountsOf(out) = <<>>
      BY <2>1 DEF Values, Ones, SumsOf, CountsOf
    <2> HIDE DEF n, times, out
    <2>3. Len(out) <= buckets /\ DOMAIN out = {}
      BY <2>1
    <2> QED
      BY <2>2, <2>3, ConservedParts DEF times, out
  <1>4. CASE rows # <<>>
    <2>1. n >= 1
      BY <1>1, <1>4
    <2>2. t \in [1 .. n -> Int] /\ times = {t[i] : i \in 1 .. n} /\ \A i \in 1 .. n : t[i] = rows[i][1]
      BY <1>1
    <2> HIDE DEF n, t, times
    <2>3. t0 \in Int /\ t1 \in Int /\ \A i \in 1 .. n : t0 <= t[i] /\ t[i] <= t1
      BY <1>1, <2>1, <2>2, Extremes
    <2>4. \A i \in 1 .. n : t0 <= rows[i][1] /\ rows[i][1] <= t1
      BY <2>2, <2>3
    <2>5. t0 <= t1
      BY <2>1, <2>3, <1>1, <2>2
    <2> HIDE DEF t0, t1
    <2>6. CASE t1 = t0
      <3> DEFINE one == [at |-> t0, avg |-> Average(rows, DOMAIN rows)]
      <3>1. out = <<one>>
        <4>1. ~(rows = <<>> \/ buckets < 1)
          BY <1>4
        <4> QED
          BY <2>6, <4>1 DEF downsample, t0, t1, times
      <3>2. one.avg.sum = Total(Values(rows)) /\ one.avg.count = Total(Ones(rows)) /\ one.at = t0
        <4>1. [i \in DOMAIN rows |-> IF i \in DOMAIN rows /\ rows[i][2] # NoValue THEN rows[i][2] ELSE 0]
                = Values(rows)
          BY <1>1 DEF Values, n
        <4>2. Cardinality({i \in DOMAIN rows : rows[i][2] # NoValue}) = Total(Ones(rows))
          BY KnownTotals
        <4> QED
          BY <4>1, <4>2 DEF Average
      <3>3. Total(Values(rows)) \in Int /\ Total(Ones(rows)) \in Int
        BY <1>1, <1>2, SumsStep
      <3> HIDE DEF one, out
      <3>4. Len(out) = 1 /\ DOMAIN out = 1 .. 1 /\ out[1] = one /\ 1 <= buckets
        BY <3>1
      <3>5. /\ SumsOf(out) \in [1 .. 1 -> Int] /\ SumsOf(out)[1] = Total(Values(rows))
            /\ CountsOf(out) \in [1 .. 1 -> Int] /\ CountsOf(out)[1] = Total(Ones(rows))
        BY <3>2, <3>3, <3>4 DEF SumsOf, CountsOf
      <3>6. Total(SumsOf(out)) = Total(Values(rows)) /\ Total(CountsOf(out)) = Total(Ones(rows))
        <4>1. 1 \in Nat /\ 1 \in 1 .. 1 /\ \A i \in 1 .. 1 : i = 1
          OBVIOUS
        <4> QED
          BY <3>5, <4>1, TotalSingle, ZenonT(30)
      <3>7. /\ \A i \in DOMAIN out : out[i].at \in t0 .. t1
            /\ \A i, j \in DOMAIN out : i < j => out[i].at <= out[j].at
        BY <2>3, <2>6, <3>2, <3>4
      <3> QED
        BY <3>4, <3>6, <3>7, ConservedParts DEF times, t0, t1, out
    <2>7. CASE t1 # t0
      <3>1. t0 < t1
        BY <2>3, <2>5, <2>7
      <3>2. out = Averages(rows, t0, t1, buckets)
        <4>1. ~(rows = <<>> \/ buckets < 1)
          BY <1>4
        <4> QED
          BY <2>7, <4>1 DEF downsample, Averages, Filled, Points, Point, Acc, At, t0, t1, times
      <3> HIDE DEF out
      <3>3. /\ Len(out) <= buckets
            /\ Total(SumsOf(out)) = Total(Values(rows))
            /\ Total(CountsOf(out)) = Total(Ones(rows))
            /\ \A i \in DOMAIN out : out[i].at \in t0 .. t1
            /\ \A i, j \in DOMAIN out : i < j => out[i].at <= out[j].at
        BY <2>3, <2>4, <3>1, <3>2, AveragesConserve DEF n
      <3> QED
        BY <3>3, ConservedParts DEF times, t0, t1, out
    <2> QED
      BY <2>6, <2>7
  <1> QED
    BY <1>3, <1>4

-----------------------------------------------------------------------------
(* The overview *)

\* What the overview asks of a host; any sets of conditions and tags.
IsEnvelope(e) == e.disabled \in BOOLEAN /\ e.up \in {"ok", "await", "down"}

\* A tile is red, amber or grey for the reasons the rollup counts a host.
LEMMA TileReasons ==
    ASSUME NEW e, IsEnvelope(e)
    PROVE  /\ board_state(e) = "grey" <=> e.disabled
           /\ (board_state(e) = "red" /\ e.up = "ok") <=> (~e.disabled /\ e.up = "ok" /\ degraded(e))
           /\ (~e.disabled /\ e.up # "ok") => board_state(e) \in {"red", "amber"}
  <1>1. CASE e.disabled
    BY <1>1 DEF board_state
  <1>2. CASE ~e.disabled /\ e.up = "await"
    BY <1>2 DEF board_state
  <1>3. CASE ~e.disabled /\ e.up = "down"
    <2>1. board_state(e) = IF health_acked(e) # {} /\ health(e) = {} THEN "amber" ELSE "red"
      BY <1>3 DEF board_state
    <2> QED
      BY <1>3, <2>1
  <1>4. CASE ~e.disabled /\ e.up = "ok"
    <2>1. health_entries(e) = e.faults
      BY <1>4 DEF health_entries
    <2>2. board_state(e) = IF health(e) # {} THEN "red" ELSE IF Amber(e) THEN "amber" ELSE "green"
      BY <1>4 DEF board_state
    <2>3. degraded(e) <=> health(e) # {}
      <3>1. CASE health(e) # {} \/ health_acked(e) # {}
        BY <3>1 DEF degraded
      <3>2. CASE health(e) = {} /\ health_acked(e) = {}
        <4>1. e.faults = {}
          BY <2>1, <3>2 DEF health, health_acked
        <4> QED
          BY <3>2, <4>1 DEF degraded
      <3> QED
        BY <3>1, <3>2
    <2> QED
      BY <1>4, <2>2, <2>3
  <1> QED
    BY <1>1, <1>2, <1>3, <1>4 DEF IsEnvelope

\* Disjoint sets of indices are counted one by one.
LEMMA DisjointCount ==
    ASSUME NEW n \in Nat, NEW S \in SUBSET (1 .. n), NEW T \in SUBSET (1 .. n), S \cap T = {}
    PROVE  /\ Cardinality(S \cup T) = Cardinality(S) + Cardinality(T)
           /\ Cardinality(S) \in Nat /\ Cardinality(T) \in Nat
  <1>1. IsFiniteSet(S) /\ IsFiniteSet(T)
    BY CountIsTotal
  <1>2. Cardinality(S) \in Nat /\ Cardinality(T) \in Nat /\ Cardinality({}) = 0
    BY <1>1, FS_CardinalityType, FS_EmptySet
  <1>3. Cardinality(S \cup T) = Cardinality(S) + Cardinality(T) - Cardinality(S \cap T)
    BY <1>1, FS_Union
  <1>4. Cardinality(S \cap T) = 0
    BY <1>2
  <1> QED
    BY <1>2, <1>3, <1>4

\* The tiles of one colour, of the hosts that answer or of those that do not.
Tiles(v, colour, up) == {i \in DOMAIN v : board_state(v[i]) = colour /\ (v[i].up = "ok") = up}

\* The header's numbers are those of the tiles, for every list of hosts.
LEMMA RollupTiles ==
    ASSUME NEW n \in Nat, NEW v, DOMAIN v = 1 .. n, Len(v) = n, \A i \in 1 .. n : IsEnvelope(v[i])
    PROVE  LET r == compute_rollup(v) IN
           /\ r.degraded = Cardinality(Tiles(v, "red", TRUE))
           /\ r.unreachable = Cardinality(Tiles(v, "red", FALSE)) + Cardinality(Tiles(v, "amber", FALSE))
           /\ r.disabled = Cardinality(Tiles(v, "grey", TRUE)) + Cardinality(Tiles(v, "grey", FALSE))
           /\ r.healthy + r.unreachable + r.disabled = r.total
  <1> DEFINE off == {i \in 1 .. n : v[i].disabled}
             away == {i \in 1 .. n : ~v[i].disabled /\ v[i].up # "ok"}
             there == {i \in 1 .. n : ~v[i].disabled /\ v[i].up = "ok"}
             bad == {i \in 1 .. n : ~v[i].disabled /\ v[i].up = "ok" /\ degraded(v[i])}
             r == compute_rollup(v)
             redOk == Tiles(v, "red", TRUE)
             red == Tiles(v, "red", FALSE)
             amber == Tiles(v, "amber", FALSE)
             greyOk == Tiles(v, "grey", TRUE)
             grey == Tiles(v, "grey", FALSE)
  <1>1. /\ r.total = n /\ r.disabled = Cardinality(off) /\ r.unreachable = Cardinality(away)
        /\ r.healthy = Cardinality(there) /\ r.degraded = Cardinality(bad)
    BY DEF compute_rollup, Count
  <1>2. ASSUME NEW i \in 1 .. n
        PROVE  /\ board_state(v[i]) = "grey" <=> v[i].disabled
               /\ (board_state(v[i]) = "red" /\ v[i].up = "ok")
                    <=> (~v[i].disabled /\ v[i].up = "ok" /\ degraded(v[i]))
               /\ (~v[i].disabled /\ v[i].up # "ok") => board_state(v[i]) \in {"red", "amber"}
    BY TileReasons
  <1>3. /\ red \in SUBSET (1 .. n) /\ amber \in SUBSET (1 .. n)
        /\ greyOk \in SUBSET (1 .. n) /\ grey \in SUBSET (1 .. n)
    BY DEF Tiles
  <1>4. redOk = bad
    BY <1>2 DEF Tiles
  <1>5. red \cup amber = away /\ red \cap amber = {}
    BY <1>2 DEF Tiles
  <1>6. greyOk \cup grey = off /\ greyOk \cap grey = {}
    BY <1>2 DEF Tiles
  <1>7. /\ (off \cup away) \cup there = 1 .. n /\ off \cap away = {} /\ (off \cup away) \cap there = {}
        /\ off \in SUBSET (1 .. n) /\ away \in SUBSET (1 .. n) /\ there \in SUBSET (1 .. n)
        /\ off \cup away \in SUBSET (1 .. n)
    OBVIOUS
  <1> HIDE DEF off, away, there, bad, r, redOk, red, amber, greyOk, grey
  <1>8. /\ Cardinality(away) = Cardinality(red) + Cardinality(amber)
        /\ Cardinality(off) = Cardinality(greyOk) + Cardinality(grey)
    <2>1. Cardinality(red \cup amber) = Cardinality(red) + Cardinality(amber)
      BY <1>3, <1>5, DisjointCount, ZenonT(30)
    <2>2. Cardinality(greyOk \cup grey) = Cardinality(greyOk) + Cardinality(grey)
      BY <1>3, <1>6, DisjointCount, ZenonT(30)
    <2> QED
      BY <1>5, <1>6, <2>1, <2>2
  <1>9. /\ Cardinality(off \cup away) = Cardinality(off) + Cardinality(away)
        /\ Cardinality((off \cup away) \cup there) = Cardinality(off \cup away) + Cardinality(there)
        /\ Cardinality(off) \in Nat /\ Cardinality(away) \in Nat /\ Cardinality(there) \in Nat
    <2>1. /\ Cardinality(off \cup away) = Cardinality(off) + Cardinality(away)
          /\ Cardinality(off) \in Nat /\ Cardinality(away) \in Nat
      BY <1>7, DisjointCount
    <2> DEFINE S == off \cup away
    <2>2. S \in SUBSET (1 .. n) /\ there \in SUBSET (1 .. n) /\ S \cap there = {}
      BY <1>7
    <2> HIDE DEF S
    <2>3. Cardinality(S \cup there) = Cardinality(S) + Cardinality(there) /\ Cardinality(there) \in Nat
      BY <2>2, DisjointCount, ZenonT(30)
    <2> QED
      BY <2>1, <2>3 DEF S
  <1>10. Cardinality(1 .. n) = n
    <2>1. 1 \in Int /\ n \in Int /\ n - 1 + 1 = n /\ (1 > n => n = 0)
      OBVIOUS
    <2> QED
      BY <2>1, FS_Interval
  <1>11. r.healthy + r.unreachable + r.disabled = r.total
    <2>1. Cardinality((off \cup away) \cup there) = n
      BY <1>7, <1>10
    <2> QED
      BY <1>1, <1>9, <2>1
  <1> QED
    BY <1>1, <1>4, <1>8, <1>11 DEF r, redOk, red, amber, greyOk, grey

\* A reader with a scope is shown hosts inside it only.
LEMMA ShownInScope ==
    ASSUME NEW Env, NEW fleet \in Seq(Env), NEW scope
    PROVE  LET shown == scoped_fleet(fleet, scope) IN
           /\ shown \in Seq(Env)
           /\ \A k \in DOMAIN shown : scope_allows(scope, shown[k])
  <1> DEFINE n == Len(fleet)
             keep == {i \in DOMAIN fleet : scope_allows(scope, fleet[i])}
             shown == Selected(n, keep, fleet)
  <1>1. n \in Nat /\ DOMAIN fleet = 1 .. n /\ fleet \in [1 .. n -> Env]
    OBVIOUS
  <1> HIDE DEF n
  <1>2. keep \in SUBSET (1 .. n) /\ \A i \in keep : scope_allows(scope, fleet[i])
    BY <1>1
  <1> HIDE DEF keep, shown
  <1>3. shown \in Seq(Env) /\ \E p : Origin(p, shown, n, keep, fleet)
    BY <1>1, <1>2, SelectedOrigin DEF shown
  <1>4. DOMAIN shown = 1 .. Len(shown)
    BY <1>3
  <1>5. PICK p : Origin(p, shown, n, keep, fleet)
    BY <1>3
  <1>6. ASSUME NEW k \in DOMAIN shown PROVE scope_allows(scope, shown[k])
    <2>1. p[k] \in keep /\ shown[k] = fleet[p[k]]
      BY <1>4, <1>5 DEF Origin
    <2> QED
      BY <1>2, <2>1
  <1> QED
    BY <1>3, <1>6 DEF scoped_fleet, shown, keep, n

(* Header, wallboard and scope agree for every fleet and every reader: of  *)
(* any hosts, with any conditions, acknowledgements and tags.  A preset    *)
(* has at least one tag (scope_presets_save refuses an empty one).         *)
THEOREM OverviewsConsistent ==
    ASSUME NEW Env, \A e \in Env : IsEnvelope(e), NEW fleet \in Seq(Env),
           NEW role, NEW preset, preset # {}, NEW tags
    PROVE  Consistent(overview(fleet, role, preset, tags), role, preset)
  <1> DEFINE scope == user_scope(role, preset, tags)
             shown == scoped_fleet(fleet, scope)
             view == overview(fleet, role, preset, tags)
             n == Len(shown)
             r == compute_rollup(shown)
  <1>1. shown \in Seq(Env) /\ \A k \in DOMAIN shown : scope_allows(scope, shown[k])
    BY ShownInScope
  <1>2. /\ view.rollup = r /\ view.shown = shown
        /\ view.tiles = [i \in DOMAIN shown |-> board_state(shown[i])]
    BY DEF overview
  <1> HIDE DEF scope, shown, view
  <1>3. n \in Nat /\ DOMAIN shown = 1 .. n /\ \A i \in 1 .. n : IsEnvelope(shown[i])
    BY <1>1
  <1>4. /\ r.degraded = Cardinality(Tiles(shown, "red", TRUE))
        /\ r.unreachable = Cardinality(Tiles(shown, "red", FALSE)) + Cardinality(Tiles(shown, "amber", FALSE))
        /\ r.disabled = Cardinality(Tiles(shown, "grey", TRUE)) + Cardinality(Tiles(shown, "grey", FALSE))
        /\ r.healthy + r.unreachable + r.disabled = r.total
    <2> HIDE DEF r
    <2> QED
      BY <1>3, RollupTiles DEF r
  <1>5. /\ Tiled(view, "red", TRUE) = Tiles(shown, "red", TRUE)
        /\ Tiled(view, "red", FALSE) = Tiles(shown, "red", FALSE)
        /\ Tiled(view, "amber", FALSE) = Tiles(shown, "amber", FALSE)
        /\ Tiled(view, "grey", TRUE) = Tiles(shown, "grey", TRUE)
        /\ Tiled(view, "grey", FALSE) = Tiles(shown, "grey", FALSE)
    BY <1>2 DEF Tiles, Tiled
  <1>6. ASSUME role # "admin", preset # Unscoped, NEW i \in DOMAIN shown
        PROVE  preset # Dangling /\ preset \cap shown[i].tags # {}
    <2>1. scope = IF preset = Dangling THEN {} ELSE preset
      BY <1>6 DEF scope, user_scope
    <2>2. scope # Unscoped
      BY <1>6, <2>1, OverviewAssumption
    <2>3. scope \cap shown[i].tags # {}
      BY <1>1, <1>6, <2>2 DEF scope_allows
    <2> QED
      BY <2>1, <2>3
  <1> HIDE DEF r
  <1>7. Consistent(view, role, preset)
    BY <1>2, <1>4, <1>5, <1>6 DEF Consistent
  <1> QED
    BY <1>7 DEF view

-----------------------------------------------------------------------------
(* The questions *)

\* The hosts the questions are about.
Envelope == [disabled : BOOLEAN, up : {"ok", "await", "down"},
             faults : SUBSET (Raw \cup Other \cup {Outage}),
             acks : SUBSET (Raw \cup Other \cup {Outage}),
             hot : SUBSET {"cpu", "mem"}, exempt : BOOLEAN, tags : SUBSET {"t1", "t2"}]

LEMMA QuestionHosts ==
    /\ \A e \in Envelope : IsEnvelope(e)
    /\ Ok \cup NotOk \cup Second \subseteq Envelope
  <1>1. Plain \in Envelope
    BY DEF Plain, Envelope
  <1>2. ASSUME NEW e \in Ok PROVE e \in Envelope
    BY DEF Ok, Envelope
  <1>3. ASSUME NEW e \in NotOk PROVE e \in Envelope
    BY DEF NotOk, Envelope
  <1>4. ASSUME NEW e \in Envelope, NEW t \in SUBSET {"t1", "t2"} PROVE [e EXCEPT !.tags = t] \in Envelope
    BY DEF Envelope
  <1>5. {"t1"} \in SUBSET {"t1", "t2"} /\ {"t2"} \in SUBSET {"t1", "t2"} /\ {} \in SUBSET {"t1", "t2"}
    OBVIOUS
  <1>6. Down \in Envelope /\ [Down EXCEPT !.acks = {Outage}] \in Envelope
    <2>1. Down \in Envelope
      BY <1>1 DEF Down, Envelope
    <2> QED
      BY <2>1 DEF Envelope
  <1>7. ASSUME NEW e \in Second PROVE e \in Envelope
    <2>1. PICK d \in {Plain, Down, [Down EXCEPT !.acks = {Outage}]}, t \in {{}, {"t1"}, {"t2"}} :
            e = [d EXCEPT !.tags = t]
      BY DEF Second
    <2>2. d \in Envelope /\ t \in SUBSET {"t1", "t2"}
      BY <1>1, <1>5, <1>6
    <2> QED
      BY <1>4, <2>1, <2>2
  <1>8. \A e \in Envelope : IsEnvelope(e)
    BY DEF Envelope, IsEnvelope
  <1> QED
    BY <1>2, <1>3, <1>7, <1>8

\* The questions are about lists of samples and of hosts.
LEMMA QuestionTypes ==
    /\ \A q \in SampleQueries : q.rows \in Seq(Sample) /\ q.buckets \in Nat \ {0}
    /\ \A q \in CapacityQueries : q.rows \in Seq(Sample) /\ q.used_now \in Int \cup {NoValue}
    /\ \A q \in FleetQueries : q.preset # {} /\ q.fleet \in Seq(Envelope)
  <1>1. Buckets \subseteq Nat \ {0} /\ \A r \in Rows : r \in Sample
    <2>1. Instants \subseteq Int /\ Levels \subseteq Int /\ Buckets \subseteq Nat \ {0}
      BY QuestionsAssumption
    <2>2. ASSUME NEW r \in Rows PROVE r \in Sample
      <3>1. PICK a \in Instants, b \in Levels \cup {NoValue} : r = <<a, b>>
        BY DEF Rows
      <3> QED
        BY <2>1, <3>1 DEF Sample
    <2> QED
      BY <2>1, <2>2
  <1>2. ASSUME NEW n \in Nat, NEW f \in [1 .. n -> Rows] PROVE f \in Seq(Sample)
    <2>1. f \in [1 .. n -> Sample]
      BY <1>1
    <2> QED
      BY <2>1, Listing
  <1>3. ASSUME NEW q \in SampleQueries PROVE q.rows \in Seq(Sample) /\ q.buckets \in Nat \ {0}
    <2>1. q.buckets \in Buckets /\ q.rows \in UNION {[1 .. n -> Rows] : n \in 0 .. 3}
      BY DEF SampleQueries
    <2>2. PICK n \in 0 .. 3 : q.rows \in [1 .. n -> Rows]
      BY <2>1
    <2>3. n \in Nat
      OBVIOUS
    <2> QED
      BY <1>1, <1>2, <2>1, <2>2, <2>3
  <1>4. ASSUME NEW q \in CapacityQueries
        PROVE  q.rows \in Seq(Sample) /\ q.used_now \in Int \cup {NoValue}
    <2>1. q.rows \in [1 .. 4 -> Rows] /\ 4 \in Nat /\ q.used_now \in {NoValue, Size + 1}
      BY DEF CapacityQueries
    <2>2. Size + 1 \in Int
      BY QuestionsAssumption
    <2> QED
      BY <1>2, <2>1, <2>2
  <1>5. ASSUME NEW q \in FleetQueries PROVE q.preset # {} /\ q.fleet \in Seq(Envelope)
    <2>1. q.preset \in {Unscoped, Dangling, {"t1"}}
      BY DEF FleetQueries
    <2>2. PICK e \in Ok \cup NotOk, f \in Second : q.fleet = <<e, f>>
      BY DEF FleetQueries
    <2>3. e \in Envelope /\ f \in Envelope
      BY QuestionHosts
    <2>4. q.fleet \in Seq(Envelope)
      BY <2>2, <2>3
    <2> QED
      BY <2>1, <2>4, OverviewAssumption
  <1> QED
    BY <1>3, <1>4, <1>5

\* The question of a behaviour.
Asked ==
  \/ topic \notin {"samples", "capacity", "overview"}
  \/ topic = "samples" /\ query \in SampleQueries
  \/ topic = "capacity" /\ query \in CapacityQueries
  \/ topic = "overview" /\ query \in FleetQueries

QuestionsInv == Asked /\ TrendsSound /\ OverviewConsistent

\* No answer is wrong before it is given.
LEMMA QuestionsInitInv == Asked /\ answer = <<>> => QuestionsInv
  BY DEF QuestionsInv, TrendsSound, OverviewConsistent, Answered

\* The answer given is the right one: the theorems above, for the question asked.
LEMMA QuestionsNextInv == QuestionsInv /\ [QuestionsNext]_questionVars => QuestionsInv'
  <1> SUFFICES ASSUME QuestionsInv, [QuestionsNext]_questionVars PROVE QuestionsInv'
    OBVIOUS
  <1>1. CASE UNCHANGED questionVars
    BY <1>1 DEF QuestionsInv, Asked, TrendsSound, OverviewConsistent, Answered, Got, questionVars
  <1>2. CASE QuestionsNext
    <2>1. topic' = topic /\ query' = query /\ Asked /\ Asked'
      BY <1>2 DEF QuestionsNext, QuestionsInv, Asked
    <2>2. CASE Verify
      BY <2>1, <2>2 DEF Verify, QuestionsInv, TrendsSound, OverviewConsistent, Answered
    <2>3. CASE Downsample
      <3>1. topic = "samples" /\ Got' = downsample(query.rows, query.buckets)
        BY <2>3 DEF Downsample, Got
      <3>2. query.rows \in Seq(Sample) /\ query.buckets \in Nat \ {0}
        BY <2>1, <3>1, QuestionTypes DEF Asked
      <3>3. Conserved(query.rows, query.buckets, downsample(query.rows, query.buckets))
        BY <3>2, SamplesConserved
      <3> QED
        BY <2>1, <3>1, <3>3 DEF QuestionsInv, TrendsSound, OverviewConsistent, Answered
    <2>4. CASE Forecast
      <3>1. topic = "capacity" /\ Got' = forecast_capacity(query.rows, Size, query.used_now)
        BY <2>4 DEF Forecast, Got
      <3>2. query.rows \in Seq(Sample) /\ Size \in Nat /\ query.used_now \in Int \cup {NoValue}
        BY <2>1, <3>1, QuestionTypes, QuestionsAssumption DEF Asked
      <3>3. SoundForecast(query.rows, forecast_capacity(query.rows, Size, query.used_now))
        BY <3>2, ForecastsSound
      <3> QED
        BY <2>1, <3>1, <3>3 DEF QuestionsInv, TrendsSound, OverviewConsistent, Answered
    <2>5. CASE Show
      <3>1. topic = "overview" /\ Got' = overview(query.fleet, query.role, query.preset, query.tags)
        BY <2>5 DEF Show, Got
      <3>2. query.fleet \in Seq(Envelope) /\ query.preset # {} /\ \A e \in Envelope : IsEnvelope(e)
        BY <2>1, <3>1, QuestionTypes, QuestionHosts DEF Asked
      <3>3. Consistent(overview(query.fleet, query.role, query.preset, query.tags), query.role, query.preset)
        BY <3>2, OverviewsConsistent
      <3> QED
        BY <2>1, <3>1, <3>3 DEF QuestionsInv, TrendsSound, OverviewConsistent, Answered
    <2> QED
      BY <1>2, <2>2, <2>3, <2>4, <2>5 DEF QuestionsNext
  <1> QED
    BY <1>1, <1>2

(* What the program answers about samples agrees with its reference.       *)
THEOREM TrendsAreSound == QuestionsSpec => []TrendsSound
  <1>1. QuestionsInit => QuestionsInv
    BY QuestionsInitInv DEF QuestionsInit, Asked
  <1>2. QuestionsInv => TrendsSound
    BY DEF QuestionsInv
  <1> QED
    BY <1>1, <1>2, QuestionsNextInv, PTL DEF QuestionsSpec

(* What the program shows of a fleet is consistent.                        *)
THEOREM OverviewIsConsistent == QuestionsSpec => []OverviewConsistent
  <1>1. QuestionsInit => QuestionsInv
    BY QuestionsInitInv DEF QuestionsInit, Asked
  <1>2. QuestionsInv => OverviewConsistent
    BY DEF QuestionsInv
  <1> QED
    BY <1>1, <1>2, QuestionsNextInv, PTL DEF QuestionsSpec
=============================================================================
