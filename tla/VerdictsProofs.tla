---------------------------- MODULE VerdictsProofs ----------------------------
(***************************************************************************)
(* For any readings, limits, profiles, steps and number of calls: what an  *)
(* assertion passes on, the verdict of a sequence, the time a stable       *)
(* reading takes, and that the readings before a stable result were within *)
(* every limit.                                                            *)
(*                                                                         *)
(* PassIsAboutTheReading needs that the reading a session keeps is the one *)
(* its keyword was given.  EndsInTime needs a bound for each phase: a      *)
(* reading begins within max_wait, and one pause or one final reading may  *)
(* follow it.  StableIsSteady needs that the window is the end of the      *)
(* readings taken, and that the code's sums over it say the same as the    *)
(* pairs of its readings do: an identity of sums, by induction on how many *)
(* readings are added up.                                                  *)
(***************************************************************************)
EXTENDS Verdicts, SequenceTheorems, WellFoundedInduction, TLAPS

\* The longest reading, and the last time an ordinary one is started or waited for.
Longest == Max(Takes)
Latest == Max({profile.settle, profile.wait + profile.interval})

\* How far the clock can be in each phase.
InTime ==
  /\ phase = "sample" => clock <= Latest + Longest
  /\ phase \in {"evaluate", "final"} => clock <= profile.wait + Longest
  /\ phase = "done" => clock <= Latest + 2 * Longest

Clockwork ==
  /\ phase \in {"idle", "sample", "evaluate", "final", "done"}
  /\ profile \in Profiles /\ clock \in Nat
  /\ InTime

\* The window is the end of the readings taken before the final one, in order.
Stamped == [t : Nat, v : Values]
EndsAt(s, n, w) ==
  Len(w) <= n /\ n <= Len(s) /\ \A i \in 1..Len(w) : w[i] = s[n - Len(w) + i]
Fresh == taken # <<>> /\ taken[Len(taken)] = fresh
Before == IF profile.final THEN Len(taken) - 1 ELSE Len(taken)
Windowed ==
  /\ window \in Seq(Stamped) /\ taken \in Seq(Stamped) /\ Len(window) <= profile.window
  /\ phase # "done" => EndsAt(taken, Len(taken), window) /\ outcome = Unsteady
  /\ phase = "idle" => window = <<>>
  /\ phase = "evaluate" /\ ~IsOverload(fresh) => Fresh
  /\ phase = "final" => Steady /\ profile.final
  /\ IsResult => /\ Steady /\ ~IsOverload(fresh) /\ Fresh /\ outcome = Stable(fresh)
                 /\ EndsAt(taken, Before, window)

\* StableIsSteady with the limits as _evaluate() checks them: a stable result is the last reading taken, and
\* the readings before it, as many as the window holds with no valid one left out,
\* are those that _evaluate() has accepted.
StableIsEvaluated ==
  IsResult =>
    /\ Before >= profile.window
    /\ window = SubSeq(taken, Before - profile.window + 1, Before)
    /\ Evaluate(window, profile)
    /\ ~IsOverload(fresh) /\ Fresh /\ outcome = Stable(fresh)

\* What the session keeps is what its keyword was given.
Keeps ==
  /\ last = given
  /\ passed.about = "last" => given # NoReading /\ passed.v = given.v /\ ~IsOverload(given)

\* A verdict is that of its step and reading.
Readings == {[v |-> v] : v \in Values} \cup {NoReading}
Entries == [step : Steps, reading : Readings, verdict : {"ERROR", "FAIL", "PASS"}]
Judged ==
  /\ judged \in Seq(Entries)
  /\ \A i \in DOMAIN judged : judged[i].verdict = Verdict(judged[i].step, judged[i].reading)

IInv == Clockwork /\ Windowed /\ Keeps /\ Judged
-----------------------------------------------------------------------------
(* Sums.  Induction is over a set of numbers that is shown to hold them    *)
(* all, for a predicate cannot be a parameter here.                        *)

\* A set of natural numbers has a least member.
LEMMA Least ==
  ASSUME NEW T, T \subseteq Nat, T # {}
  PROVE  \E m \in T : \A k \in T : m <= k
<1> DEFINE R == OpToRel(<, Nat)
<1>1. IsWellFoundedOn(R, Nat)
  BY NatLessThanWellFounded, Zenon
<1>2. \A x, y \in Nat : x < y => <<x, y>> \in R
  BY DEF OpToRel
<1> HIDE DEF R
<1>3. \E x \in T : \A y \in T : ~(<<y, x>> \in R)
  BY <1>1, WFMin
<1>4. PICK m \in T : \A k \in T : ~(<<k, m>> \in R)
  BY <1>3
<1>5. ASSUME NEW k \in T PROVE m <= k
  <2>1. m \in Nat /\ k \in Nat /\ ~(k < m)
    BY <1>2, <1>4
  <2> QED BY <2>1
<1> QED BY <1>5

\* Induction: a set that holds 0 and, with a number, the next one.
LEMMA Induct ==
  ASSUME NEW S, 0 \in S, \A n \in Nat : n \in S => n + 1 \in S
  PROVE  Nat \subseteq S
<1> SUFFICES ASSUME Nat \ S # {} PROVE FALSE
  OBVIOUS
<1>1. PICK m \in Nat \ S : \A k \in Nat \ S : m <= k
  BY Least
<1>2. m # 0 /\ m - 1 \in Nat /\ m - 1 < m /\ m - 1 + 1 = m
  BY <1>1
<1>3. m - 1 \in S
  BY <1>1, <1>2
<1> QED BY <1>1, <1>2, <1>3

\* The partial sums of g.
IsSums(g, n, f) ==
  /\ f = [k \in 0..n |-> f[k]]
  /\ f[0] = 0
  /\ \A k \in 1..n : f[k] = f[k - 1] + g[k]

LEMMA SumsExist ==
  ASSUME NEW g, NEW n \in Nat
  PROVE  \E f : IsSums(g, n, f)
<1> DEFINE S == {k \in Nat : \E f : IsSums(g, k, f)}
<1>1. 0 \in S
  <2>1. IsSums(g, 0, [k \in 0..0 |-> 0])
    BY DEF IsSums
  <2> QED BY <2>1
<1>2. ASSUME NEW k \in Nat, k \in S PROVE k + 1 \in S
  <2>1. PICK f : IsSums(g, k, f)
    BY <1>2
  <2> DEFINE h == [i \in 0..(k + 1) |-> IF i = k + 1 THEN f[k] + g[k + 1] ELSE f[i]]
  <2>2. h[0] = 0
    BY <2>1 DEF IsSums
  <2>3. ASSUME NEW i \in 1..(k + 1) PROVE h[i] = h[i - 1] + g[i]
    <3>1. CASE i = k + 1
      <4>1. h[i] = f[k] + g[k + 1] /\ i - 1 = k /\ h[k] = f[k]
        BY <3>1
      <4> QED BY <3>1, <4>1
    <3>2. CASE i # k + 1
      <4>1. i \in 1..k /\ i - 1 \in 0..k
        BY <3>2
      <4>2. h[i] = f[i] /\ h[i - 1] = f[i - 1]
        BY <4>1
      <4>3. f[i] = f[i - 1] + g[i]
        BY <2>1, <4>1 DEF IsSums
      <4> QED BY <4>2, <4>3
    <3> QED BY <3>1, <3>2
  <2>4. h = [i \in 0..(k + 1) |-> h[i]]
    OBVIOUS
  <2>5. IsSums(g, k + 1, h)
    <3> HIDE DEF h
    <3> QED BY <2>2, <2>3, <2>4 DEF IsSums
  <2> QED BY <2>5
<1>3. n \in S
  <2> HIDE DEF S
  <2> QED BY <1>1, <1>2, Induct
<1> QED BY <1>3

\* The value SumTo() has: that of the partial sums, whatever g is.
LEMMA SumIs ==
  ASSUME NEW g, NEW n \in Nat
  PROVE  \E f : IsSums(g, n, f) /\ SumTo(g, n) = f[n]
<1> DEFINE Eq(f) == f = [k \in 0..n |-> IF k = 0 THEN 0 ELSE f[k - 1] + g[k]]
<1>1. \E f : Eq(f)
  <2>1. PICK f : IsSums(g, n, f)
    BY SumsExist
  <2>2. ASSUME NEW k \in 0..n PROVE f[k] = IF k = 0 THEN 0 ELSE f[k - 1] + g[k]
    <3>1. CASE k = 0
      BY <2>1, <3>1 DEF IsSums
    <3>2. CASE k # 0
      <4>1. k \in 1..n
        BY <3>2
      <4> QED BY <2>1, <3>2, <4>1 DEF IsSums
    <3> QED BY <3>1, <3>2
  <2>3. f = [k \in 0..n |-> f[k]]
    BY <2>1 DEF IsSums
  <2>4. Eq(f)
    BY <2>2, <2>3
  <2> QED BY <2>4
<1> DEFINE c == CHOOSE f : Eq(f)
<1>2. Eq(c)
  <2> HIDE DEF Eq
  <2> QED BY <1>1
<1>3. SumTo(g, n) = c[n]
  BY DEF SumTo
<1>4. IsSums(g, n, c)
  <2> HIDE DEF c
  <2>1. c[0] = 0
    BY <1>2
  <2>2. \A k \in 1..n : c[k] = c[k - 1] + g[k]
    BY <1>2
  <2>3. c = [k \in 0..n |-> c[k]]
    BY <1>2
  <2> QED BY <2>1, <2>2, <2>3 DEF IsSums
<1> QED BY <1>3, <1>4
\* What holds of 0 and of a number's successor up to n holds of n.
LEMMA UpTo ==
  ASSUME NEW n \in Nat, NEW S, 0 \in S, \A k \in 0..(n - 1) : k \in S => k + 1 \in S
  PROVE  n \in S
<1> DEFINE Q == {k \in Nat : k <= n => k \in S}
<1>1. 0 \in Q
  OBVIOUS
<1>2. ASSUME NEW k \in Nat, k \in Q PROVE k + 1 \in Q
  <2>1. CASE k + 1 <= n
    <3>1. k \in 0..(n - 1)
      BY <2>1
    <3> QED BY <1>2, <3>1
  <2> QED BY <2>1
<1>3. n \in Q
  <2> HIDE DEF Q
  <2> QED BY <1>1, <1>2, Induct
<1> QED BY <1>3

LEMMA SumStep ==
  ASSUME NEW n \in Nat, NEW g, NEW f, IsSums(g, n, f), NEW k \in 0..(n - 1)
  PROVE  f[k + 1] = f[k] + g[k + 1]
<1>1. PICK m \in 1..n : m = k + 1 /\ m - 1 = k
  OBVIOUS
<1>2. f[m] = f[m - 1] + g[m]
  BY DEF IsSums
<1> QED BY <1>1, <1>2

Numbers(x, n) == \A i \in 1..n : x[i] \in Int

LEMMA SumIsInt ==
  ASSUME NEW n \in Nat, NEW g, Numbers(g, n), NEW f, IsSums(g, n, f)
  PROVE  \A k \in 0..n : f[k] \in Int
<1> SUFFICES ASSUME NEW m \in 0..n PROVE f[m] \in Int
  OBVIOUS
<1> DEFINE S == {k \in Nat : f[k] \in Int}
<1>1. 0 \in S
  BY DEF IsSums
<1>2. ASSUME NEW k \in 0..(m - 1), k \in S PROVE k + 1 \in S
  <2>1. k + 1 \in 1..n /\ k + 1 - 1 = k
    OBVIOUS
  <2>2. f[k + 1] = f[k] + g[k + 1] /\ g[k + 1] \in Int /\ f[k] \in Int
    <3>1. k \in 0..(n - 1)
      OBVIOUS
    <3> QED BY <1>2, <2>1, <3>1, SumStep DEF Numbers
  <2> QED BY <2>1, <2>2
<1>3. m \in S
  <2> HIDE DEF S
  <2> QED BY <1>1, <1>2, UpTo
<1> QED BY <1>3

LEMMA SumType ==
  ASSUME NEW n \in Nat, NEW g, Numbers(g, n)
  PROVE  SumTo(g, n) \in Int
BY SumIs, SumIsInt

\* The sum of products of differences from two numbers.
LEMMA SumOfDifferences ==
  ASSUME NEW n \in Nat, NEW x, NEW y, Numbers(x, n), Numbers(y, n), NEW c \in Int, NEW d \in Int
  PROVE  SumTo([i \in 1..n |-> (x[i] - c) * (y[i] - d)], n)
           = SumTo(Products(x, y, n), n) - d * SumTo(x, n) - c * SumTo(y, n) + n * (c * d)
<1> DEFINE pxy == Products(x, y, n)
           pcd == [i \in 1..n |-> (x[i] - c) * (y[i] - d)]
<1>0. Numbers(pxy, n) /\ Numbers(pcd, n)
  BY DEF Numbers, Products
<1>1. PICK f : IsSums(pcd, n, f) /\ SumTo(pcd, n) = f[n]
  BY SumIs
<1>2. PICK h : IsSums(pxy, n, h) /\ SumTo(pxy, n) = h[n]
  BY SumIs
<1>3. PICK a : IsSums(x, n, a) /\ SumTo(x, n) = a[n]
  BY SumIs
<1>4. PICK b : IsSums(y, n, b) /\ SumTo(y, n) = b[n]
  BY SumIs
<1> DEFINE S == {k \in Nat : f[k] = h[k] - d * a[k] - c * b[k] + k * (c * d)}
<1>5. 0 \in S
  BY <1>1, <1>2, <1>3, <1>4 DEF IsSums
<1>6. ASSUME NEW k \in 0..(n - 1), k \in S PROVE k + 1 \in S
  <2>1. k + 1 \in 1..n /\ k + 1 - 1 = k /\ k \in 0..n
    OBVIOUS
  <2>2. /\ f[k + 1] = f[k] + (x[k + 1] - c) * (y[k + 1] - d)
        /\ h[k + 1] = h[k] + x[k + 1] * y[k + 1]
        /\ a[k + 1] = a[k] + x[k + 1]
        /\ b[k + 1] = b[k] + y[k + 1]
    <3>1. pcd[k + 1] = (x[k + 1] - c) * (y[k + 1] - d) /\ pxy[k + 1] = x[k + 1] * y[k + 1]
      BY <2>1 DEF Products
    <3> HIDE DEF pcd, pxy
    <3> QED BY <1>1, <1>2, <1>3, <1>4, <3>1, SumStep
  <2>3. x[k + 1] \in Int /\ y[k + 1] \in Int
    BY <2>1 DEF Numbers
  <2>4. f[k] \in Int /\ h[k] \in Int /\ a[k] \in Int /\ b[k] \in Int
    <3> HIDE DEF pxy, pcd
    <3> QED BY <1>0, <1>1, <1>2, <1>3, <1>4, <2>1, SumIsInt
  <2>5. f[k] = h[k] - d * a[k] - c * b[k] + k * (c * d)
    BY <1>6
  <2>6. ASSUME NEW F \in Int, NEW H \in Int, NEW A \in Int, NEW B \in Int, NEW X \in Int, NEW Y \in Int,
               F = H - d * A - c * B + k * (c * d)
        PROVE  F + (X - c) * (Y - d) = (H + X * Y) - d * (A + X) - c * (B + Y) + (k + 1) * (c * d)
    BY <2>6
  <2>7. f[k + 1] = h[k + 1] - d * a[k + 1] - c * b[k + 1] + (k + 1) * (c * d)
    BY <2>2, <2>3, <2>4, <2>5, <2>6
  <2> QED BY <2>7
<1>7. n \in S
  <2> HIDE DEF S
  <2> QED BY <1>5, <1>6, UpTo
<1>8. f[n] = h[n] - d * a[n] - c * b[n] + n * (c * d)
  BY <1>7
<1> QED BY <1>1, <1>2, <1>3, <1>4, <1>8

Combines(g, x, y, n, p, c, d) ==
  \A j \in 1..n : g[j] = p - y[j] * c - x[j] * d + n * (x[j] * y[j])

\* The sum of a linear combination.
LEMMA SumOfCombination ==
  ASSUME NEW n \in Nat, NEW x, NEW y, Numbers(x, n), Numbers(y, n),
         NEW p \in Int, NEW c \in Int, NEW d \in Int,
         NEW g, Combines(g, x, y, n, p, c, d)
  PROVE  SumTo(g, n)
           = n * p - c * SumTo(y, n) - d * SumTo(x, n) + n * SumTo(Products(x, y, n), n)
<1> DEFINE pxy == Products(x, y, n)
<1>0. Numbers(pxy, n) /\ Numbers(g, n)
  BY DEF Numbers, Products, Combines
<1>1. PICK f : IsSums(g, n, f) /\ SumTo(g, n) = f[n]
  BY SumIs
<1>2. PICK h : IsSums(pxy, n, h) /\ SumTo(pxy, n) = h[n]
  BY SumIs
<1>3. PICK a : IsSums(x, n, a) /\ SumTo(x, n) = a[n]
  BY SumIs
<1>4. PICK b : IsSums(y, n, b) /\ SumTo(y, n) = b[n]
  BY SumIs
<1> DEFINE S == {k \in Nat : f[k] = k * p - c * b[k] - d * a[k] + n * h[k]}
<1>5. 0 \in S
  BY <1>1, <1>2, <1>3, <1>4 DEF IsSums
<1>6. ASSUME NEW k \in 0..(n - 1), k \in S PROVE k + 1 \in S
  <2>1. k + 1 \in 1..n /\ k + 1 - 1 = k /\ k \in 0..n
    OBVIOUS
  <2>2. /\ f[k + 1] = f[k] + (p - y[k + 1] * c - x[k + 1] * d + n * (x[k + 1] * y[k + 1]))
        /\ h[k + 1] = h[k] + x[k + 1] * y[k + 1]
        /\ a[k + 1] = a[k] + x[k + 1]
        /\ b[k + 1] = b[k] + y[k + 1]
    <3>1. g[k + 1] = (p - y[k + 1] * c - x[k + 1] * d + n * (x[k + 1] * y[k + 1])) /\ pxy[k + 1] = x[k + 1] * y[k + 1]
      BY <2>1 DEF Products, Combines
    <3> HIDE DEF pxy
    <3> QED BY <1>1, <1>2, <1>3, <1>4, <3>1, SumStep
  <2>3. x[k + 1] \in Int /\ y[k + 1] \in Int
    BY <2>1 DEF Numbers
  <2>4. f[k] \in Int /\ h[k] \in Int /\ a[k] \in Int /\ b[k] \in Int
    <3> HIDE DEF pxy
    <3> QED BY <1>0, <1>1, <1>2, <1>3, <1>4, <2>1, SumIsInt
  <2>5. f[k] = k * p - c * b[k] - d * a[k] + n * h[k]
    BY <1>6
  <2>6. ASSUME NEW F \in Int, NEW H \in Int, NEW A \in Int, NEW B \in Int, NEW X \in Int, NEW Y \in Int,
               F = k * p - c * B - d * A + n * H
        PROVE  F + (p - Y * c - X * d + n * (X * Y))
                 = (k + 1) * p - c * (B + Y) - d * (A + X) + n * (H + X * Y)
    BY <2>6
  <2>7. f[k + 1] = (k + 1) * p - c * b[k + 1] - d * a[k + 1] + n * h[k + 1]
    BY <2>2, <2>3, <2>4, <2>5, <2>6
  <2> QED BY <2>7
<1>7. n \in S
  <2> HIDE DEF S
  <2> QED BY <1>5, <1>6, UpTo
<1>8. f[n] = n * p - c * b[n] - d * a[n] + n * h[n]
  BY <1>7
<1> QED BY <1>1, <1>2, <1>3, <1>4, <1>8

\* Each pair twice: the sum over pairs is twice the sums of the code.
LEMMA PairsAreCross ==
  ASSUME NEW n \in Nat, NEW x, NEW y, Numbers(x, n), Numbers(y, n)
  PROVE  Cross(x, y, n) \in Int /\ PairSum(x, y, n) = 2 * Cross(x, y, n)
<1> DEFINE P == SumTo(Products(x, y, n), n)
           X == SumTo(x, n)
           Y == SumTo(y, n)
           inner(j) == SumTo([i \in 1..n |-> (x[i] - x[j]) * (y[i] - y[j])], n)
<1>1. P \in Int /\ X \in Int /\ Y \in Int
  <2>1. Numbers(Products(x, y, n), n)
    BY DEF Numbers, Products
  <2> QED BY <2>1, SumType
<1>2. ASSUME NEW j \in 1..n
      PROVE  inner(j) = P - y[j] * X - x[j] * Y + n * (x[j] * y[j])
  <2>1. x[j] \in Int /\ y[j] \in Int
    BY DEF Numbers
  <2> QED BY <2>1, SumOfDifferences
<1> DEFINE g == [j \in 1..n |-> inner(j)]
<1>3. PairSum(x, y, n) = SumTo(g, n)
  BY DEF PairSum
<1>4. Combines(g, x, y, n, P, X, Y)
  <2> HIDE DEF inner, P, X, Y
  <2> QED BY <1>2 DEF Combines
<1> HIDE DEF g
<1>5. SumTo(g, n) = n * P - X * Y - Y * X + n * P
  <2> HIDE DEF P, X, Y
  <2>1. SumTo(g, n) = n * P - X * SumTo(y, n) - Y * SumTo(x, n)
                      + n * SumTo(Products(x, y, n), n)
    BY <1>1, <1>4, SumOfCombination
  <2> QED BY <2>1 DEF P, X, Y
<1>6. Cross(x, y, n) = n * P - X * Y
  BY DEF Cross
<1> HIDE DEF P, X, Y
<1> QED BY <1>1, <1>3, <1>5, <1>6

\* A sum of numbers that are not negative is 0 only if each is.
LEMMA SumsVanish ==
  ASSUME NEW n \in Nat, NEW x, NEW y, Numbers(x, n), Numbers(y, n),
         \A i \in 1..n : x[i] >= 0 /\ (x[i] = 0 => y[i] = 0)
  PROVE  SumTo(x, n) >= 0 /\ (SumTo(x, n) = 0 => SumTo(y, n) = 0)
<1>1. PICK a : IsSums(x, n, a) /\ SumTo(x, n) = a[n]
  BY SumIs
<1>2. PICK b : IsSums(y, n, b) /\ SumTo(y, n) = b[n]
  BY SumIs
<1> DEFINE S == {k \in Nat : a[k] >= 0 /\ (a[k] = 0 => b[k] = 0)}
<1>3. 0 \in S
  BY <1>1, <1>2 DEF IsSums
<1>4. ASSUME NEW k \in 0..(n - 1), k \in S PROVE k + 1 \in S
  <2>1. k + 1 \in 1..n /\ k \in 0..n
    OBVIOUS
  <2>2. a[k + 1] = a[k] + x[k + 1] /\ b[k + 1] = b[k] + y[k + 1]
    BY <1>1, <1>2, SumStep
  <2>3. /\ x[k + 1] \in Int /\ y[k + 1] \in Int
        /\ x[k + 1] >= 0 /\ (x[k + 1] = 0 => y[k + 1] = 0)
    BY <2>1 DEF Numbers
  <2>4. a[k] \in Int /\ b[k] \in Int
    BY <1>1, <1>2, <2>1, SumIsInt
  <2>5. a[k] >= 0 /\ (a[k] = 0 => b[k] = 0)
    BY <1>4
  <2> QED BY <2>2, <2>3, <2>4, <2>5
<1>5. n \in S
  <2> HIDE DEF S
  <2> QED BY <1>3, <1>4, UpTo
<1> QED BY <1>1, <1>2, <1>5

\* When all times are equal, so that the code divides by nothing, the pairs say 0 too.
LEMMA PairsVanish ==
  ASSUME NEW n \in Nat, NEW x, NEW y, Numbers(x, n), Numbers(y, n)
  PROVE  PairSum(x, x, n) >= 0 /\ (PairSum(x, x, n) = 0 => PairSum(x, y, n) = 0)
<1> DEFINE dxx(j) == [i \in 1..n |-> (x[i] - x[j]) * (x[i] - x[j])]
           dxy(j) == [i \in 1..n |-> (x[i] - x[j]) * (y[i] - y[j])]
           sxx == [j \in 1..n |-> SumTo(dxx(j), n)]
           sxy == [j \in 1..n |-> SumTo(dxy(j), n)]
<1>1. ASSUME NEW j \in 1..n
      PROVE  /\ SumTo(dxx(j), n) \in Int /\ SumTo(dxy(j), n) \in Int
             /\ SumTo(dxx(j), n) >= 0 /\ (SumTo(dxx(j), n) = 0 => SumTo(dxy(j), n) = 0)
  <2>1. Numbers(dxx(j), n) /\ Numbers(dxy(j), n)
    BY DEF Numbers
  <2>2. ASSUME NEW i \in 1..n
        PROVE  dxx(j)[i] >= 0 /\ (dxx(j)[i] = 0 => dxy(j)[i] = 0)
    <3>1. ASSUME NEW u \in Int, NEW v \in Int PROVE u * u >= 0 /\ (u * u = 0 => u * v = 0)
      <4>1. u * u >= 0 /\ (u * u = 0 => u = 0)
        OBVIOUS
      <4>2. u = 0 => u * v = 0
        OBVIOUS
      <4> QED BY <4>1, <4>2
    <3>2. x[i] - x[j] \in Int /\ y[i] - y[j] \in Int
      BY DEF Numbers
    <3> QED BY <3>1, <3>2
  <2> HIDE DEF dxx, dxy
  <2> QED BY <2>1, <2>2, SumType, SumsVanish
<1>2. PairSum(x, x, n) = SumTo(sxx, n) /\ PairSum(x, y, n) = SumTo(sxy, n)
  BY DEF PairSum
<1>3. \A j \in 1..n : sxx[j] = SumTo(dxx(j), n) /\ sxy[j] = SumTo(dxy(j), n)
  <2> HIDE DEF dxx, dxy
  <2> QED OBVIOUS
<1>4. /\ Numbers(sxx, n) /\ Numbers(sxy, n)
      /\ \A j \in 1..n : sxx[j] >= 0 /\ (sxx[j] = 0 => sxy[j] = 0)
  <2> HIDE DEF dxx, dxy, sxx, sxy
  <2> QED BY <1>1, <1>3 DEF Numbers
<1> HIDE DEF sxx, sxy, dxx, dxy
<1> QED BY <1>2, <1>4, SumsVanish

-----------------------------------------------------------------------------
(* Time.                                                                   *)

LEMMA LongestIs == Longest \in Nat /\ \A d \in Takes : d \in Nat /\ d <= Longest
<1>1. Takes \subseteq Nat /\ \E m \in Takes : \A d \in Takes : d <= m
  BY StabilityAssumption
<1>2. \E m \in Takes : \A d \in Takes : m >= d
  BY <1>1
<1>3. Longest \in Takes /\ \A d \in Takes : Longest >= d
  BY <1>2 DEF Longest, Max
<1> QED BY <1>1, <1>3

LEMMA LaterIs ==
  ASSUME NEW x \in Nat, NEW y \in Nat
  PROVE  Max({x, y}) \in Nat /\ x <= Max({x, y}) /\ y <= Max({x, y})
<1>1. \E m \in {x, y} : \A d \in {x, y} : m >= d
  <2>1. CASE x >= y
    BY <2>1
  <2>2. CASE y >= x
    BY <2>2
  <2> QED BY <2>1, <2>2
<1>2. Max({x, y}) \in {x, y} /\ \A d \in {x, y} : Max({x, y}) >= d
  BY <1>1 DEF Max
<1> QED BY <1>2

LEMMA LatestIs ==
  ASSUME profile \in Profiles
  PROVE  /\ profile.settle \in Nat /\ profile.wait \in Nat /\ profile.interval \in Nat
         /\ profile.window \in Nat \ {0, 1}
         /\ Latest \in Nat /\ profile.settle <= Latest
         /\ profile.wait + profile.interval <= Latest
<1>1. /\ profile.settle \in Nat /\ profile.wait \in Nat /\ profile.interval \in Nat
      /\ profile.window \in Nat \ {0, 1}
  BY StabilityAssumption
<1>2. profile.wait + profile.interval \in Nat
  BY <1>1
<1> QED BY <1>1, <1>2, LaterIs DEF Latest

LEMMA ReadingTakes ==
  ASSUME clock \in Nat, Reading
  PROVE  clock' \in Nat /\ clock' <= clock + Longest /\ fresh' \in [t : Nat, v : Values]
<1>1. PICK d \in Takes, v \in Values : clock' = clock + d /\ fresh' = [t |-> clock', v |-> v]
  BY DEF Reading
<1>2. d \in Nat /\ d <= Longest /\ Longest \in Nat
  BY LongestIs
<1>3. clock' \in Nat /\ clock' <= clock + Longest
  BY <1>1, <1>2
<1> QED BY <1>1, <1>3

LEMMA ClockworkGoesOn ==
  ASSUME Clockwork, StabilityNext
  PROVE  Clockwork'
<1>1. /\ phase \in {"idle", "sample", "evaluate", "final", "done"}
      /\ profile \in Profiles /\ clock \in Nat
      /\ phase = "sample" => clock <= Latest + Longest
      /\ phase \in {"evaluate", "final"} => clock <= profile.wait + Longest
      /\ phase = "done" => clock <= Latest + 2 * Longest
  BY DEF Clockwork, InTime
<1>2. /\ profile.settle \in Nat /\ profile.wait \in Nat /\ profile.interval \in Nat
      /\ Latest \in Nat /\ profile.wait + profile.interval <= Latest
      /\ Longest \in Nat
  BY <1>1, LatestIs, LongestIs
<1>3. CASE Begin
  <2>1. profile' \in Profiles /\ phase' = "sample" /\ clock' = profile'.settle
    BY <1>3 DEF Begin
  <2>2. /\ profile'.settle \in Nat /\ Latest' \in Nat /\ profile'.settle <= Latest'
    <3>1. /\ profile'.settle \in Nat
          /\ profile'.wait + profile'.interval \in Nat
      BY <2>1, StabilityAssumption
    <3> QED BY <3>1, LaterIs DEF Latest
  <2>3. clock' <= Latest' + Longest
    BY <1>2, <2>1, <2>2
  <2> QED BY <2>1, <2>2, <2>3 DEF Clockwork, InTime, Longest
<1>4. ASSUME ~Begin PROVE profile' = profile /\ Latest' = Latest /\ Longest' = Longest
  <2>1. profile' = profile
    BY <1>4 DEF StabilityNext, GiveUp, Sample, Raises, GoOn, ReadFinal, Accept
  <2> QED BY <2>1 DEF Latest, Longest
<1>5. CASE GiveUp
  <2>1. phase = "sample" /\ phase' = "done" /\ clock' = clock /\ ~Begin
    BY <1>5 DEF GiveUp, Ends, Begin
  <2>2. clock' <= Latest + 2 * Longest
    BY <1>1, <1>2, <2>1
  <2> QED BY <1>1, <1>4, <2>1, <2>2 DEF Clockwork, InTime
<1>6. CASE Sample
  <2>1. phase = "sample" /\ clock <= profile.wait /\ ~Begin /\ phase' \in {"evaluate", "done"}
    <3>1. phase = "sample" /\ ~(clock > profile.wait) /\ phase' \in {"evaluate", "done"}
      BY <1>6 DEF Sample, Ends, WaitIsOver
    <3> QED BY <1>1, <1>2, <3>1 DEF Begin
  <2>2. clock' \in Nat /\ clock' <= clock + Longest
    BY <1>1, <1>6, ReadingTakes DEF Sample
  <2>3. clock' <= profile.wait + Longest /\ clock' <= Latest + 2 * Longest
    BY <1>1, <1>2, <2>1, <2>2
  <2> QED BY <1>1, <1>4, <2>1, <2>2, <2>3 DEF Clockwork, InTime
<1>7. CASE Raises
  <2>1. phase \in {"sample", "final"} /\ phase' = "done" /\ clock' = clock /\ ~Begin
    BY <1>7 DEF Raises, Ends, Begin
  <2>2. clock' <= Latest + 2 * Longest
    BY <1>1, <1>2, <2>1
  <2> QED BY <1>1, <1>4, <2>1, <2>2 DEF Clockwork, InTime
<1>8. CASE GoOn
  <2>1. phase = "evaluate" /\ phase' = "sample" /\ clock' = clock + profile.interval /\ ~Begin
    BY <1>8 DEF GoOn, Begin
  <2>2. clock' \in Nat /\ clock' <= Latest + Longest
    BY <1>1, <1>2, <2>1
  <2> QED BY <1>1, <1>4, <2>1, <2>2 DEF Clockwork, InTime
<1>9. CASE ReadFinal
  <2>1. phase = "evaluate" /\ phase' = "final" /\ clock' = clock /\ ~Begin
    BY <1>9 DEF ReadFinal, Begin
  <2> QED BY <1>1, <1>4, <2>1 DEF Clockwork, InTime
<1>10. CASE Accept
  <2>1. phase \in {"evaluate", "final"} /\ phase' = "done" /\ ~Begin
        /\ (clock' = clock \/ Reading)
    BY <1>10 DEF Accept, Ends, Begin
  <2>2. clock' \in Nat /\ clock' <= clock + Longest
    BY <1>1, <1>2, <2>1, ReadingTakes
  <2>3. clock' <= Latest + 2 * Longest
    BY <1>1, <1>2, <2>1, <2>2
  <2> QED BY <1>1, <1>4, <2>1, <2>2, <2>3 DEF Clockwork, InTime
<1> QED BY <1>3, <1>5, <1>6, <1>7, <1>8, <1>9, <1>10 DEF StabilityNext
-----------------------------------------------------------------------------
(* The window.                                                             *)

LEMMA EndStays ==
  ASSUME NEW s \in Seq(Stamped), NEW x \in Stamped, NEW w \in Seq(Stamped), NEW n \in Int,
         EndsAt(s, n, w)
  PROVE  EndsAt(Append(s, x), n, w)
<1> DEFINE u == Append(s, x)
<1>1. Len(s) \in Nat /\ Len(w) \in Nat /\ Len(w) <= n /\ n <= Len(s)
  BY DEF EndsAt
<1>2. Len(u) = Len(s) + 1 /\ \A i \in 1..Len(s) : u[i] = s[i]
  BY AppendProperties
<1> HIDE DEF u
<1>3. ASSUME NEW i \in 1..Len(w) PROVE w[i] = u[n - Len(w) + i]
  <2>1. n - Len(w) + i \in 1..Len(s)
    BY <1>1
  <2> QED BY <1>2, <2>1 DEF EndsAt
<1> QED BY <1>1, <1>2, <1>3 DEF EndsAt, u

LEMMA EndGrows ==
  ASSUME NEW s \in Seq(Stamped), NEW x \in Stamped, NEW w \in Seq(Stamped),
         EndsAt(s, Len(s), w)
  PROVE  EndsAt(Append(s, x), Len(Append(s, x)), Append(w, x))
<1> DEFINE u == Append(s, x)
           v == Append(w, x)
           n == Len(s)
           m == Len(w)
<1>1. n \in Nat /\ m \in Nat /\ m <= n /\ \A i \in 1..m : w[i] = s[n - m + i]
  BY DEF EndsAt
<1>2. Len(u) = n + 1 /\ u[n + 1] = x /\ \A i \in 1..n : u[i] = s[i]
  BY AppendProperties
<1>3. Len(v) = m + 1 /\ v[m + 1] = x /\ \A i \in 1..m : v[i] = w[i]
  BY AppendProperties
<1> HIDE DEF u, v, n, m
<1>4. ASSUME NEW i \in 1..(m + 1) PROVE v[i] = u[n + 1 - (m + 1) + i]
  <2>1. CASE i = m + 1
    <3>1. n + 1 - (m + 1) + i = n + 1
      BY <1>1, <2>1
    <3> QED BY <1>2, <1>3, <2>1, <3>1
  <2>2. CASE i # m + 1
    <3>1. i \in 1..m /\ n + 1 - (m + 1) + i = n - m + i /\ n - m + i \in 1..n
      BY <1>1, <2>2
    <3> QED BY <1>1, <1>2, <1>3, <3>1
  <2> QED BY <2>1, <2>2
<1>5. m + 1 <= n + 1
  BY <1>1
<1>6. EndsAt(u, Len(u), v)
  <2>1. Len(v) <= Len(u) /\ Len(u) <= Len(u)
    BY <1>1, <1>2, <1>3
  <2>2. ASSUME NEW i \in 1..Len(v) PROVE v[i] = u[Len(u) - Len(v) + i]
    <3>1. i \in 1..(m + 1) /\ Len(u) - Len(v) + i = n + 1 - (m + 1) + i
      BY <1>1, <1>2, <1>3
    <3> QED BY <1>4, <3>1
  <2> QED BY <2>1, <2>2 DEF EndsAt
<1> QED BY <1>6 DEF u, v

LEMMA EndOfTail ==
  ASSUME NEW s \in Seq(Stamped), NEW w \in Seq(Stamped), w # <<>>, EndsAt(s, Len(s), w)
  PROVE  Tail(w) \in Seq(Stamped) /\ Len(Tail(w)) = Len(w) - 1 /\ EndsAt(s, Len(s), Tail(w))
<1> DEFINE v == Tail(w)
           n == Len(s)
           m == Len(w)
<1>1. n \in Nat /\ m \in Nat /\ m <= n /\ \A i \in 1..m : w[i] = s[n - m + i]
  BY DEF EndsAt
<1>2. v \in Seq(Stamped) /\ Len(v) = m - 1 /\ \A i \in 1..(m - 1) : v[i] = w[i + 1]
  BY HeadTailProperties
<1> HIDE DEF v, n, m
<1>3. ASSUME NEW i \in 1..(m - 1) PROVE v[i] = s[n - (m - 1) + i]
  <2>1. i + 1 \in 1..m /\ n - (m - 1) + i = n - m + (i + 1)
    BY <1>1
  <2> QED BY <1>1, <1>2, <2>1
<1>4. m - 1 <= n
  BY <1>1
<1> QED BY <1>1, <1>2, <1>3, <1>4 DEF EndsAt, v, n, m

LEMMA EndIsSubSeq ==
  ASSUME NEW s \in Seq(Stamped), NEW w \in Seq(Stamped), NEW n \in Int, EndsAt(s, n, w)
  PROVE  w = SubSeq(s, n - Len(w) + 1, n)
<1> DEFINE m == Len(w)
           u == SubSeq(s, n - m + 1, n)
<1>1. /\ m \in Nat /\ Len(s) \in Nat /\ m <= n /\ n <= Len(s)
      /\ \A i \in 1..m : w[i] = s[n - m + i]
  BY DEF EndsAt
<1>2. \A i \in 1..Len(s) : s[i] \in Stamped
  OBVIOUS
<1> HIDE DEF m
<1>3. n - m + 1 \in Int /\ \A i \in (n - m + 1)..n : s[i] \in Stamped
  <2>1. \A i \in (n - m + 1)..n : i \in 1..Len(s)
    BY <1>1
  <2> QED BY <1>1, <1>2, <2>1
<1>4. /\ u \in Seq(Stamped)
      /\ Len(u) = IF n - m + 1 <= n THEN n - (n - m + 1) + 1 ELSE 0
      /\ \A i \in 1..(n - (n - m + 1) + 1) : u[i] = s[n - m + 1 + i - 1]
  BY <1>3, SubSeqProperties
<1> HIDE DEF u
<1>5. n - (n - m + 1) + 1 = m /\ (n - m + 1 <= n \/ m = 0)
  BY <1>1
<1>6. Len(u) = m
  BY <1>4, <1>5
<1>7. ASSUME NEW i \in 1..m PROVE u[i] = w[i]
  <2>1. n - m + 1 + i - 1 = n - m + i
    BY <1>1
  <2> QED BY <1>1, <1>4, <1>5, <2>1
<1> QED BY <1>4, <1>6, <1>7, SeqEqual DEF m, u

\* An ordinary or a final reading is the last of those taken, unless an overload.
LEMMA ReadingTaken ==
  ASSUME clock \in Nat, taken \in Seq(Stamped), Reading
  PROVE  /\ fresh' \in Stamped /\ taken' \in Seq(Stamped)
         /\ IsOverload(fresh') => taken' = taken
         /\ ~IsOverload(fresh') => taken' = Append(taken, fresh') /\ Fresh'
<1>1. fresh' \in Stamped
  BY ReadingTakes DEF Stamped
<1>2. taken' = IF IsOverload(fresh') THEN taken ELSE Append(taken, fresh')
  BY DEF Reading
<1>3. CASE IsOverload(fresh')
  BY <1>1, <1>2, <1>3
<1>4. CASE ~IsOverload(fresh')
  <2>1. taken' = Append(taken, fresh')
    BY <1>2, <1>4
  <2>2. /\ taken' \in Seq(Stamped) /\ Len(taken') = Len(taken) + 1
        /\ taken'[Len(taken) + 1] = fresh'
    BY <1>1, <2>1, AppendProperties
  <2>3. taken' # <<>>
    <3>1. Len(taken) \in Nat
      OBVIOUS
    <3>2. Len(taken') # 0
      BY <2>2, <3>1
    <3>3. Len(<<>>) = 0
      OBVIOUS
    <3> QED BY <3>2, <3>3
  <2> QED BY <1>1, <1>4, <2>1, <2>2, <2>3 DEF Fresh
<1> QED BY <1>3, <1>4

LEMMA WindowedGoesOn ==
  ASSUME Clockwork, Windowed, StabilityNext
  PROVE  Windowed'
<1>1. /\ window \in Seq(Stamped) /\ taken \in Seq(Stamped) /\ Len(window) <= profile.window
      /\ phase # "done" => EndsAt(taken, Len(taken), window) /\ outcome = Unsteady
      /\ phase = "idle" => window = <<>>
      /\ phase = "evaluate" /\ ~IsOverload(fresh) => Fresh
      /\ phase = "final" => Steady /\ profile.final
  BY DEF Windowed
<1>2. /\ profile \in Profiles /\ clock \in Nat /\ profile.window \in Nat \ {0, 1}
      /\ profile.final \in BOOLEAN /\ Len(window) \in Nat /\ Len(taken) \in Nat
  <2>1. Len(window) \in Nat /\ Len(taken) \in Nat
    BY <1>1
  <2> QED BY <2>1, LatestIs, StabilityAssumption DEF Clockwork
<1>3. Unsteady.kind # "stable" /\ Raised.kind # "stable"
  BY DEF Unsteady, Raised
<1>4. CASE Begin
  <2>1. /\ phase = "idle" /\ phase' = "sample" /\ profile' \in Profiles
        /\ UNCHANGED <<window, fresh, outcome, taken>>
    BY <1>4 DEF Begin
  <2>2. profile'.window \in Nat /\ Len(window) = 0
    <3>1. Len(<<>>) = 0
      OBVIOUS
    <3> QED BY <1>1, <2>1, <3>1, StabilityAssumption
  <2> QED BY <1>1, <1>2, <2>1, <2>2 DEF Windowed, IsResult
<1>5. CASE GiveUp \/ Raises
  <2>1. /\ phase \in {"sample", "final"} /\ phase' = "done" /\ outcome' \in {Unsteady, Raised}
        /\ UNCHANGED <<profile, window, fresh, taken>>
    BY <1>5 DEF GiveUp, Raises, Ends
  <2> QED BY <1>1, <1>3, <2>1 DEF Windowed, IsResult
<1>6. CASE Sample
  <2>1. phase = "sample" /\ Reading /\ profile' = profile
    BY <1>6 DEF Sample
  <2>2. /\ fresh' \in Stamped /\ taken' \in Seq(Stamped)
        /\ IsOverload(fresh') => taken' = taken
        /\ ~IsOverload(fresh') => taken' = Append(taken, fresh') /\ Fresh'
    BY <1>1, <1>2, <2>1, ReadingTaken
  <2>3. CASE IsOverload(fresh')
    <3>1. /\ window' = window /\ taken' = taken /\ outcome' = Unsteady
          /\ phase' \in {"evaluate", "done"}
      BY <1>1, <1>6, <2>1, <2>2, <2>3 DEF Sample, Ends
    <3> QED BY <1>1, <1>3, <2>1, <2>3, <3>1 DEF Windowed, IsResult
  <2>4. CASE ~IsOverload(fresh')
    <3>1. /\ window' = IF Len(window) = profile.window THEN Append(Tail(window), fresh')
                                                       ELSE Append(window, fresh')
          /\ phase' = "evaluate" /\ outcome' = Unsteady /\ taken' = Append(taken, fresh')
      BY <1>1, <1>6, <2>1, <2>2, <2>4 DEF Sample
    <3>2. /\ window' \in Seq(Stamped) /\ Len(window') <= profile.window
          /\ EndsAt(taken', Len(taken'), window')
      <4>1. CASE Len(window) = profile.window
        <5>1. window # <<>>
          <6>1. Len(<<>>) = 0
            OBVIOUS
          <6> QED BY <1>2, <4>1, <6>1
        <5> DEFINE v == Tail(window)
        <5>2. v \in Seq(Stamped) /\ Len(v) = Len(window) - 1 /\ EndsAt(taken, Len(taken), v)
          BY <1>1, <2>1, <5>1, EndOfTail
        <5>3. window' = Append(v, fresh')
          BY <3>1, <4>1
        <5> HIDE DEF v
        <5>4. window' \in Seq(Stamped) /\ Len(window') = Len(v) + 1
          BY <2>2, <5>2, <5>3, AppendProperties
        <5>5. EndsAt(taken', Len(taken'), window')
          BY <1>1, <2>2, <3>1, <5>2, <5>3, EndGrows
        <5>6. Len(window') <= profile.window
          BY <1>2, <4>1, <5>2, <5>4
        <5> QED BY <5>4, <5>5, <5>6
      <4>2. CASE Len(window) # profile.window
        <5>1. window' = Append(window, fresh')
          BY <3>1, <4>2
        <5>2. window' \in Seq(Stamped) /\ Len(window') = Len(window) + 1
          BY <1>1, <2>2, <5>1, AppendProperties
        <5>3. Len(window') <= profile.window
          BY <1>1, <1>2, <4>2, <5>2
        <5>4. EndsAt(taken', Len(taken'), window')
          <6>1. EndsAt(taken, Len(taken), window)
            BY <1>1, <2>1
          <6> QED BY <1>1, <2>2, <3>1, <5>1, <6>1, EndGrows
        <5> QED BY <5>2, <5>3, <5>4
      <4> QED BY <4>1, <4>2
    <3> QED BY <2>1, <2>2, <2>4, <3>1, <3>2 DEF Windowed, IsResult
  <2> QED BY <2>3, <2>4
<1>7. CASE GoOn
  <2>1. /\ phase = "evaluate" /\ phase' = "sample"
        /\ UNCHANGED <<profile, window, fresh, outcome, taken>>
    BY <1>7 DEF GoOn
  <2> QED BY <1>1, <2>1 DEF Windowed, IsResult
<1>8. CASE ReadFinal
  <2>1. /\ phase = "evaluate" /\ phase' = "final" /\ Steady /\ profile.final
        /\ UNCHANGED <<profile, window, fresh, outcome, taken>>
    BY <1>8 DEF ReadFinal
  <2>2. Steady'
    BY <2>1 DEF Steady
  <2> QED BY <1>1, <2>1, <2>2 DEF Windowed, IsResult
<1>9. CASE Accept
  <2>1. /\ phase' = "done" /\ outcome' = Result(fresh')
        /\ UNCHANGED <<profile, window>>
    BY <1>9 DEF Accept, Ends
  <2>2. ASSUME ~IsOverload(fresh') PROVE outcome' = Stable(fresh')
    BY <2>1, <2>2 DEF Result
  <2>3. ASSUME IsOverload(fresh') PROVE ~IsResult'
    BY <1>3, <2>1, <2>3 DEF Result, IsResult
  <2>4. CASE phase = "evaluate" /\ Steady /\ ~profile.final /\ UNCHANGED <<clock, fresh, taken>>
    <3>1. Steady' /\ Before' = Len(taken') /\ taken' = taken /\ fresh' = fresh
      BY <2>1, <2>4 DEF Steady, Before
    <3>2. ~IsOverload(fresh') => Fresh'
      BY <1>1, <2>4, <3>1 DEF Fresh
    <3> QED BY <1>1, <2>1, <2>2, <2>3, <2>4, <3>1, <3>2 DEF Windowed
  <2>5. CASE phase = "final" /\ Reading
    <3>1. /\ fresh' \in Stamped /\ taken' \in Seq(Stamped)
          /\ ~IsOverload(fresh') => taken' = Append(taken, fresh') /\ Fresh'
      BY <1>1, <1>2, <2>5, ReadingTaken
    <3>2. Steady'
      BY <1>1, <2>1, <2>5 DEF Steady
    <3>3. ASSUME ~IsOverload(fresh') PROVE EndsAt(taken', Before', window')
      <4>1. taken' = Append(taken, fresh') /\ Len(taken') = Len(taken) + 1
        BY <1>1, <3>1, <3>3, AppendProperties
      <4>2. Before' = Len(taken)
        BY <1>1, <1>2, <2>1, <2>5, <4>1 DEF Before
      <4>3. EndsAt(taken, Len(taken), window)
        BY <1>1, <2>5
      <4> QED BY <1>1, <1>2, <2>1, <3>1, <4>1, <4>2, <4>3, EndStays
    <3> QED BY <1>1, <2>1, <2>2, <2>3, <3>1, <3>2, <3>3 DEF Windowed
  <2> QED BY <1>9, <2>4, <2>5 DEF Accept
<1> QED BY <1>4, <1>5, <1>6, <1>7, <1>8, <1>9 DEF StabilityNext
-----------------------------------------------------------------------------
(* Verdicts of a sequence.                                                 *)

LEMMA VerdictIs ==
  ASSUME NEW s \in Steps, NEW r \in Readings
  PROVE  /\ Verdict(s, r) \in {"ERROR", "FAIL", "PASS"}
         /\ Verdict(s, r) = "ERROR" <=> r = NoReading
         /\ Verdict(s, r) = "PASS" <=>
              /\ r # NoReading /\ ~IsOverload(r)
              /\ s.lower # NoLimit => s.lower <= r.v
              /\ s.upper # NoLimit => r.v <= s.upper
<1>1. CASE r = NoReading
  BY <1>1 DEF Verdict
<1>2. CASE r # NoReading
  <2>1. r.v \in Int
    BY <1>2, StabilityAssumption DEF Readings
  <2>2. /\ s.lower # NoLimit => s.lower \in Int
        /\ s.upper # NoLimit => s.upper \in Int
    BY VerdictsAssumption
  <2>3. /\ s.lower # NoLimit => (r.v < s.lower <=> ~(s.lower <= r.v))
        /\ s.upper # NoLimit => (r.v > s.upper <=> ~(r.v <= s.upper))
    BY <2>1, <2>2
  <2> QED BY <1>2, <2>3 DEF Verdict, CheckLimits
<1> QED BY <1>1, <1>2

LEMMA JudgedIsRight ==
  ASSUME Judged
  PROVE  SequenceVerdict
<1> DEFINE within(j) ==
             /\ ~IsOverload(j.reading)
             /\ j.step.lower # NoLimit => j.step.lower <= j.reading.v
             /\ j.step.upper # NoLimit => j.reading.v <= j.step.upper
           verdicts == {judged[i].verdict : i \in DOMAIN judged}
<1>1. ASSUME NEW i \in DOMAIN judged
      PROVE  /\ judged[i].verdict \in {"ERROR", "FAIL", "PASS"}
             /\ judged[i].verdict = "ERROR" <=> judged[i].reading = NoReading
             /\ judged[i].verdict = "PASS" <=>
                  judged[i].reading # NoReading /\ within(judged[i])
  <2>1. /\ judged[i].step \in Steps /\ judged[i].reading \in Readings
        /\ judged[i].verdict = Verdict(judged[i].step, judged[i].reading)
    <3>1. judged[i] \in Entries
      BY DEF Judged
    <3> QED BY <3>1 DEF Judged, Entries
  <2> QED BY <2>1, VerdictIs
<1>2. "ERROR" \in verdicts <=> \E i \in DOMAIN judged : judged[i].reading = NoReading
  <2> HIDE DEF within
  <2> QED BY <1>1
<1>3. "ERROR" \notin verdicts /\ "FAIL" \notin verdicts <=>
        \A i \in DOMAIN judged : judged[i].reading # NoReading /\ within(judged[i])
  <2> HIDE DEF within
  <2> QED BY <1>1
<1>4. PassFail(judged) = IF "ERROR" \in verdicts THEN "ERROR"
                         ELSE IF "FAIL" \in verdicts THEN "FAIL" ELSE "PASS"
  BY DEF PassFail
<1> HIDE DEF verdicts
<1>5. PassFail(judged) = "ERROR" <=> "ERROR" \in verdicts
  BY <1>4
<1>6. PassFail(judged) = "PASS" <=> "ERROR" \notin verdicts /\ "FAIL" \notin verdicts
  BY <1>4
<1>7. {i \in DOMAIN judged : judged[i].reading = NoReading} # {} <=>
        \E i \in DOMAIN judged : judged[i].reading = NoReading
  OBVIOUS
<1> QED BY <1>2, <1>3, <1>5, <1>6, <1>7 DEF SequenceVerdict

LEMMA JudgedGoesOn ==
  ASSUME Judged, RunStep
  PROVE  Judged'
<1>1. PICK s \in Steps, r \in Readings :
        judged' = Append(judged, [step |-> s, reading |-> r, verdict |-> Verdict(s, r)])
  BY DEF RunStep, Readings
<1> DEFINE e == [step |-> s, reading |-> r, verdict |-> Verdict(s, r)]
<1>2. e \in Entries /\ e.verdict = Verdict(e.step, e.reading)
  BY VerdictIs DEF Entries
<1>3. judged' = Append(judged, e)
  BY <1>1
<1> HIDE DEF e
<1>4. judged \in Seq(Entries) /\ Len(judged) \in Nat /\ DOMAIN judged = 1..Len(judged)
  BY DEF Judged
<1>5. /\ judged' \in Seq(Entries) /\ DOMAIN judged' = 1..(Len(judged) + 1)
      /\ judged'[Len(judged) + 1] = e
      /\ \A i \in 1..Len(judged) : judged'[i] = judged[i]
  BY <1>2, <1>3, <1>4, AppendProperties
<1>6. ASSUME NEW i \in DOMAIN judged'
      PROVE  judged'[i].verdict = Verdict(judged'[i].step, judged'[i].reading)
  <2>1. CASE i = Len(judged) + 1
    BY <1>2, <1>5, <2>1
  <2>2. CASE i # Len(judged) + 1
    <3>1. i \in DOMAIN judged /\ judged'[i] = judged[i]
      BY <1>4, <1>5, <2>2
    <3> QED BY <3>1 DEF Judged
  <2> QED BY <2>1, <2>2
<1> QED BY <1>5, <1>6 DEF Judged
-----------------------------------------------------------------------------
(* The theorems.                                                           *)

LEMMA Starts == VerdictsInit => IInv
<1> SUFFICES ASSUME VerdictsInit PROVE IInv
  OBVIOUS
<1>1. /\ phase = "idle" /\ clock = 0 /\ profile \in Profiles /\ window = <<>>
      /\ taken = <<>> /\ outcome = Unsteady
      /\ last = NoReading /\ given = NoReading /\ passed = NoPass /\ judged = <<>>
  BY DEF VerdictsInit, StabilityInit
<1>2. <<>> \in Seq(Stamped) /\ <<>> \in Seq(Entries) /\ Len(<<>>) = 0
      /\ \A i \in DOMAIN <<>> : FALSE
  OBVIOUS
<1>3. profile.window \in Nat
  BY <1>1, LatestIs
<1>4. Clockwork
  BY <1>1 DEF Clockwork, InTime
<1>5. Windowed
  BY <1>1, <1>2, <1>3 DEF Windowed, EndsAt, IsResult
<1>6. Keeps
  BY <1>1 DEF Keeps, NoPass
<1>7. Judged
  BY <1>1, <1>2 DEF Judged
<1> QED BY <1>4, <1>5, <1>6, <1>7 DEF IInv

LEMMA SameCall ==
  ASSUME Clockwork, Windowed, UNCHANGED svars
  PROVE  Clockwork' /\ Windowed'
<1>1. UNCHANGED <<phase, profile, clock, window, fresh, outcome, taken>>
  BY DEF svars
<1> QED BY <1>1 DEF Clockwork, InTime, Latest, Longest, Windowed, Fresh, Steady, IsResult, Before

LEMMA CallIsOver ==
  ASSUME Clockwork, Returned
  PROVE  Clockwork' /\ Windowed'
<1>1. /\ phase' = "idle" /\ clock' = 0 /\ profile' = profile /\ window' = <<>>
      /\ taken' = <<>> /\ outcome' = Unsteady
  BY DEF Returned
<1>2. <<>> \in Seq(Stamped) /\ Len(<<>>) = 0
  OBVIOUS
<1>3. profile.window \in Nat /\ profile \in Profiles
  BY LatestIs DEF Clockwork
<1> QED BY <1>1, <1>2, <1>3 DEF Clockwork, InTime, Windowed, EndsAt, IsResult

LEMMA KeepsGoesOn ==
  ASSUME Keeps, VerdictsNext
  PROVE  Keeps'
<1>1. NoPass.about # "last"
  BY DEF NoPass
<1>2. CASE Measure \/ MeasureFails \/ OtherSession \/ StableResult
  <2>1. passed' = NoPass /\ last' = given'
    BY <1>2 DEF Measure, MeasureFails, OtherSession, StableResult, AcceptReading, Keeps
  <2> QED BY <1>1, <2>1 DEF Keeps
<1>3. CASE AssertLast
  <2>1. /\ last' = last /\ given' = given
        /\ passed' = IF last # NoReading /\ ~IsOverload(last) /\ HoldsFor(last.v)
                       THEN [about |-> "last", v |-> last.v] ELSE NoPass
    BY <1>3 DEF AssertLast
  <2> HIDE DEF HoldsFor, IsOverload
  <2> QED BY <1>1, <2>1 DEF Keeps
<1>4. CASE AssertStable
  <2>1. last' = last /\ given' = given /\ passed'.about # "last"
    BY <1>1, <1>4 DEF AssertStable
  <2> QED BY <2>1 DEF Keeps
<1>5. CASE \/ StabilityNext /\ phase # "idle" /\ UNCHANGED <<robot, judged, calls>>
           \/ TryReadStable \/ RunStep
  <2>1. UNCHANGED <<last, given, passed>>
    BY <1>5 DEF TryReadStable, RunStep, robot
  <2> QED BY <2>1 DEF Keeps
<1> QED BY <1>2, <1>3, <1>4, <1>5 DEF VerdictsNext

LEMMA GoesOn == IInv /\ [VerdictsNext]_vvars => IInv'
<1> SUFFICES ASSUME IInv, [VerdictsNext]_vvars PROVE IInv'
  OBVIOUS
<1> USE DEF IInv
<1>1. CASE StabilityNext /\ phase # "idle" /\ UNCHANGED <<robot, judged, calls>>
  <2>1. Judged'
    BY <1>1 DEF Judged
  <2> QED BY <1>1, <2>1, ClockworkGoesOn, WindowedGoesOn, KeepsGoesOn DEF VerdictsNext
<1>2. CASE Measure \/ MeasureFails \/ OtherSession \/ AssertLast \/ AssertStable
  <2>1. UNCHANGED svars /\ judged' = judged
    BY <1>2 DEF Measure, MeasureFails, OtherSession, AssertLast, AssertStable
  <2>2. Judged'
    BY <2>1 DEF Judged
  <2> QED BY <1>2, <2>1, <2>2, SameCall, KeepsGoesOn DEF VerdictsNext
<1>3. CASE TryReadStable
  <2>1. Begin /\ judged' = judged
    BY <1>3 DEF TryReadStable
  <2>2. Judged'
    BY <2>1 DEF Judged
  <2> QED BY <1>3, <2>1, <2>2, ClockworkGoesOn, WindowedGoesOn, KeepsGoesOn
          DEF VerdictsNext, StabilityNext
<1>4. CASE StableResult
  <2>1. Returned /\ judged' = judged
    BY <1>4 DEF StableResult
  <2>2. Judged'
    BY <2>1 DEF Judged
  <2> QED BY <1>4, <2>1, <2>2, CallIsOver, KeepsGoesOn DEF VerdictsNext
<1>5. CASE RunStep
  <2>1. UNCHANGED svars
    BY <1>5 DEF RunStep
  <2> QED BY <1>5, <2>1, SameCall, JudgedGoesOn, KeepsGoesOn DEF VerdictsNext
<1>6. CASE UNCHANGED vvars
  <2>1. UNCHANGED svars /\ UNCHANGED <<last, given, passed, judged>>
    BY <1>6 DEF vvars, robot
  <2> QED BY <2>1, SameCall DEF Keeps, Judged
<1> QED BY <1>1, <1>2, <1>3, <1>4, <1>5, <1>6 DEF VerdictsNext

LEMMA Always == Spec => []IInv
BY Starts, GoesOn, PTL DEF Spec

\* An assertion passes only on the last reading the session was given.
THEOREM PassesOnTheReading == Spec => []PassIsAboutTheReading
<1>1. IInv => PassIsAboutTheReading
  BY DEF IInv, Keeps, PassIsAboutTheReading
<1> QED BY <1>1, Always, PTL

\* A sequence is an error, a pass or a failure as its readings and limits say.
THEOREM SequencesAreRight == Spec => []SequenceVerdict
<1>1. IInv => SequenceVerdict
  BY JudgedIsRight DEF IInv
<1> QED BY <1>1, Always, PTL

\* A stable reading ends within max_wait, two readings and a pause.
THEOREM StableEndsInTime == Spec => []EndsInTime
<1>1. ASSUME IInv PROVE EndsInTime
  <2>1. /\ profile.wait \in Nat /\ profile.interval \in Nat /\ Latest \in Nat
        /\ profile.wait + profile.interval <= Latest /\ clock \in Nat /\ Longest \in Nat
    BY <1>1, LatestIs, LongestIs DEF IInv, Clockwork
  <2>2. ASSUME phase # "idle" PROVE clock <= Latest + 2 * Longest
    <3>1. \/ clock <= Latest + Longest
          \/ clock <= profile.wait + Longest
          \/ clock <= Latest + 2 * Longest
      BY <1>1, <2>2 DEF IInv, Clockwork, InTime
    <3> QED BY <2>1, <3>1
  <2> QED BY <2>2 DEF EndsInTime, Latest, Longest
<1> QED BY <1>1, Always, PTL

\* A stable result is the last reading, after a window of the readings just
\* before it that _evaluate() has accepted.
THEOREM ResultsAreEvaluated == Spec => []StableIsEvaluated
<1>1. ASSUME IInv, IsResult PROVE StableIsEvaluated
  <2>1. /\ Steady /\ ~IsOverload(fresh) /\ Fresh /\ outcome = Stable(fresh)
        /\ EndsAt(taken, Before, window)
        /\ window \in Seq(Stamped) /\ taken \in Seq(Stamped)
    BY <1>1 DEF IInv, Windowed
  <2>2. Len(window) = profile.window /\ Evaluate(window, profile)
    BY <2>1 DEF Steady
  <2>3. Before \in Int
    BY <2>1 DEF Before
  <2>4. window = SubSeq(taken, Before - Len(window) + 1, Before)
    BY <2>1, <2>3, EndIsSubSeq
  <2>5. Before >= Len(window)
    BY <2>1, <2>3 DEF EndsAt
  <2> QED BY <2>1, <2>2, <2>4, <2>5 DEF StableIsEvaluated
<1>2. IInv => StableIsEvaluated
  BY <1>1 DEF StableIsEvaluated
<1> QED BY <1>2, Always, PTL

LEMMA MaxWithOne ==
  ASSUME NEW d \in Nat \ {0}
  PROVE  Max({d, 1}) = d
<1>1. \E m \in {d, 1} : \A e \in {d, 1} : m >= e
  BY d \in {d, 1}
<1>2. Max({d, 1}) \in {d, 1} /\ \A e \in {d, 1} : Max({d, 1}) >= e
  BY <1>1 DEF Max
<1> QED BY <1>2

LEMMA StampedNumbers == \A r \in Stamped : r.v \in Int /\ r.t \in Int
<1> SUFFICES ASSUME NEW r \in Stamped PROVE r.v \in Int /\ r.t \in Int
  OBVIOUS
<1>1. r.v \in Values /\ r.t \in Nat
  BY DEF Stamped
<1>2. Values \subseteq Int
  BY StabilityAssumption
<1>3. r.v \in Int
  BY <1>1, <1>2
<1>4. r.t \in Int
  BY <1>1
<1> QED BY <1>3, <1>4

\* The limits as the code computes them are those said by pairs of readings.
LEMMA AcceptedIsWithinLimits ==
  ASSUME NEW w \in Seq(Stamped), NEW p \in Profiles, Evaluate(w, p)
  PROVE  WithinLimits(w, p)
<1> DEFINE n == Len(w)
           vs == ValuesOf(w)
           ts == TimesOf(w)
           mean == Size(Sum(w))
<1>1. n \in Nat /\ Numbers(vs, n) /\ Numbers(ts, n)
  <2>1. n \in Nat /\ DOMAIN w = 1..n /\ \A i \in 1..n : w[i] \in Stamped
    OBVIOUS
  <2> HIDE DEF n
  <2> QED BY <2>1, StampedNumbers DEF Numbers, ValuesOf, TimesOf
<1>2. mean \in Nat
  BY <1>1, SumType DEF Sum, Size
<1>3. /\ p.stdev # Unlimited => p.stdev \in Nat
      /\ p.rel # Unlimited => p.rel[1] \in Nat /\ p.rel[2] \in Nat
      /\ p.slope # Unlimited => p.slope[1] \in Nat /\ p.slope[2] \in Nat
  BY StabilityAssumption
<1>4. /\ Spread(w) \in Int /\ PairSum(vs, vs, n) = 2 * Spread(w)
      /\ TimeSpread(w) \in Int /\ PairSum(ts, ts, n) = 2 * TimeSpread(w)
      /\ Cross(ts, vs, n) \in Int /\ PairSum(ts, vs, n) = 2 * Cross(ts, vs, n)
  BY <1>1, PairsAreCross DEF Spread, TimeSpread
<1>5. TimeSpread(w) >= 0 /\ (TimeSpread(w) = 0 => PairSum(ts, vs, n) = 0)
  <2>1. PairSum(ts, ts, n) >= 0 /\ (PairSum(ts, ts, n) = 0 => PairSum(ts, vs, n) = 0)
    BY <1>1, PairsVanish
  <2> QED BY <1>4, <2>1
<1>6. /\ p.stdev # Unlimited => Spread(w) <= n * n * p.stdev * p.stdev
      /\ p.rel # Unlimited =>
           mean # 0 /\ p.rel[2] * p.rel[2] * Spread(w) <= p.rel[1] * p.rel[1] * mean * mean
      /\ p.slope # Unlimited =>
           mean # 0 /\ p.slope[2] * n * Size(Rise(w))
                         <= p.slope[1] * Max({TimeSpread(w), 1}) * mean
  BY DEF Evaluate
<1> HIDE DEF n, vs, ts, mean
<1>7. ASSUME p.stdev # Unlimited
      PROVE  PairSum(vs, vs, n) <= 2 * n * n * p.stdev * p.stdev
  <2>1. ASSUME NEW x \in Int, NEW y \in Int, x <= n * n * y * y
        PROVE  2 * x <= 2 * n * n * y * y
    BY <1>1, <2>1
  <2> QED BY <1>3, <1>4, <1>6, <1>7, <2>1
<1>8. ASSUME p.rel # Unlimited
      PROVE  mean # 0 /\ p.rel[2] * p.rel[2] * PairSum(vs, vs, n)
                           <= 2 * p.rel[1] * p.rel[1] * mean * mean
  <2>1. ASSUME NEW x \in Int, NEW a \in Int, NEW b \in Int,
               b * b * x <= a * a * mean * mean
        PROVE  b * b * (2 * x) <= 2 * a * a * mean * mean
    BY <1>2, <2>1
  <2>2. p.rel[1] \in Int /\ p.rel[2] \in Int /\ mean # 0
        /\ p.rel[2] * p.rel[2] * Spread(w) <= p.rel[1] * p.rel[1] * mean * mean
    BY <1>3, <1>6, <1>8
  <2>3. p.rel[2] * p.rel[2] * (2 * Spread(w)) <= 2 * p.rel[1] * p.rel[1] * mean * mean
    BY <1>4, <2>1, <2>2
  <2> QED BY <1>4, <2>2, <2>3
<1>9. ASSUME p.slope # Unlimited
      PROVE  /\ mean # 0
             /\ p.slope[2] * n * PairSum(ts, vs, n) <= p.slope[1] * PairSum(ts, ts, n) * mean
             /\ -(p.slope[2] * n * PairSum(ts, vs, n)) <= p.slope[1] * PairSum(ts, ts, n) * mean
  <2>1. CASE TimeSpread(w) = 0
    <3>1. PairSum(ts, vs, n) = 0 /\ PairSum(ts, ts, n) = 0
      BY <1>4, <1>5, <2>1
    <3>2. p.slope[2] * n \in Int /\ p.slope[1] \in Int
      BY <1>1, <1>3, <1>9
    <3> QED BY <1>2, <1>6, <1>9, <3>1, <3>2
  <2>2. CASE TimeSpread(w) # 0
    <3>1. Max({TimeSpread(w), 1}) = TimeSpread(w) /\ Rise(w) = Cross(ts, vs, n)
      BY <1>4, <1>5, <2>2, MaxWithOne DEF Rise, ts, vs, n
    <3>2. ASSUME NEW r \in Int, NEW d \in Int, NEW a \in Nat, NEW b \in Nat,
                 b * n * Size(r) <= a * d * mean
          PROVE  /\ b * n * (2 * r) <= a * (2 * d) * mean
                 /\ -(b * n * (2 * r)) <= a * (2 * d) * mean
      <4>1. b * n \in Int /\ a * d * mean \in Int
        BY <1>1, <1>2
      <4>2. /\ b * n * (2 * r) = 2 * (b * n * r)
            /\ a * (2 * d) * mean = 2 * (a * d * mean)
        BY <1>1, <1>2
      <4>3. b * n * r <= a * d * mean /\ -(b * n * r) <= a * d * mean
        <5>1. CASE r >= 0
          <6>1. b * n \in Nat /\ b * n * r \in Nat
            BY <1>1, <5>1
          <6> QED BY <3>2, <4>1, <5>1, <6>1 DEF Size
        <5>2. CASE r < 0
          <6>1. b * n \in Nat /\ b * n * Size(r) \in Nat /\ b * n * r = -(b * n * Size(r))
            BY <1>1, <5>2 DEF Size
          <6> QED BY <3>2, <4>1, <6>1
        <5> QED BY <5>1, <5>2
      <4>4. b * n * r \in Int
        BY <4>1
      <4>5. ASSUME NEW s \in Int, NEW t \in Int, s <= t, -s <= t
            PROVE  2 * s <= 2 * t /\ -(2 * s) <= 2 * t
        BY <4>5
      <4>6. 2 * (b * n * r) <= 2 * (a * d * mean) /\ -(2 * (b * n * r)) <= 2 * (a * d * mean)
        BY <4>1, <4>3, <4>4, <4>5
      <4> QED BY <4>2, <4>6
    <3>3. /\ p.slope[1] \in Nat /\ p.slope[2] \in Nat /\ mean # 0
          /\ p.slope[2] * n * Size(Cross(ts, vs, n)) <= p.slope[1] * TimeSpread(w) * mean
      BY <1>3, <1>6, <1>9, <3>1
    <3>4. LET num == 2 * Cross(ts, vs, n)
              den == 2 * TimeSpread(w)
          IN  /\ p.slope[2] * n * num <= p.slope[1] * den * mean
              /\ -(p.slope[2] * n * num) <= p.slope[1] * den * mean
      BY <1>4, <3>2, <3>3
    <3> QED BY <1>4, <3>3, <3>4
  <2> QED BY <2>1, <2>2
<1> QED BY <1>7, <1>8, <1>9 DEF WithinLimits, n, vs, ts, mean

\* A stable result is the last reading, after a window of readings that is within
\* every limit of the profile as the pairs of readings say it, whatever the readings.
THEOREM StableResultsAreSteady == Spec => []StableIsSteady
<1>1. ASSUME IInv, StableIsEvaluated, IsResult PROVE StableIsSteady
  <2>1. /\ Before >= profile.window
        /\ window = SubSeq(taken, Before - profile.window + 1, Before)
        /\ Evaluate(window, profile)
        /\ ~IsOverload(fresh) /\ outcome = Stable(fresh)
    BY <1>1 DEF StableIsEvaluated
  <2>2. window \in Seq(Stamped) /\ profile \in Profiles
    BY <1>1 DEF IInv, Windowed, Clockwork
  <2>3. WithinLimits(window, profile)
    BY <2>1, <2>2, AcceptedIsWithinLimits
  <2> QED BY <2>1, <2>3 DEF StableIsSteady, Before
<1>2. IInv /\ StableIsEvaluated => StableIsSteady
  BY <1>1 DEF StableIsSteady
<1> QED BY <1>2, Always, ResultsAreEvaluated, PTL
=============================================================================
