------------------------------- MODULE Stability -------------------------------
(***************************************************************************)
(* The stable-resistance algorithm (stability.py): settle, sample until a  *)
(* window of readings is steady or max_wait is over, then one reading more *)
(* at the final precision.  Time is counted in ticks.  Readings are        *)
(* integers and the limits fractions, so that every comparison is exact:   *)
(* "deviation > limit" compares the squares, multiplied out.               *)
(***************************************************************************)
EXTENDS Integers, Sequences, FiniteSets, FiniteSetsExt

CONSTANTS
  Values,      \* what the instrument may answer
  Threshold,   \* OVERLOAD_THRESHOLD
  Profiles,    \* StabilityProfile: window, settle, wait, interval, stdev, rel,
               \* slope (a limit or Unlimited), reject and final
  Unlimited,   \* None as a limit
  Takes        \* ticks that a reading may take, bounded by its timeout

ASSUME StabilityAssumption ==
  /\ Values \subseteq Int /\ Threshold \in Int
  /\ Takes \subseteq Nat /\ \E longest \in Takes : \A d \in Takes : d <= longest
  /\ \A p \in Profiles :
       /\ p.window \in Nat \ {0, 1}
       /\ p.settle \in Nat /\ p.wait \in Nat \ {0} /\ p.interval \in Nat \ {0}
       /\ p.reject \in BOOLEAN /\ p.final \in BOOLEAN
       /\ p.stdev \in Nat \cup {Unlimited}
       /\ \A limit \in {p.rel, p.slope} \ {Unlimited} : limit \in Nat \X (Nat \ {0})

Size(n) == IF n < 0 THEN -n ELSE n
IsOverload(r) == Size(r.v) >= Threshold
Unsteady == [kind |-> "not stable", v |-> 0]
Raised == [kind |-> "raised", v |-> 0]
Stable(r) == [kind |-> "stable", v |-> r.v]

VARIABLES
  phase,     \* "idle", "sample", "evaluate", "final" or "done"
  profile,
  clock,     \* ticks since the start
  window,    \* window_t and window_v
  fresh,     \* the last reading
  outcome,   \* the result
  taken      \* the valid readings so far (history)

svars == <<phase, profile, clock, window, fresh, outcome, taken>>

StabilityInit ==
  /\ phase = "idle" /\ clock = 0 /\ profile \in Profiles
  /\ window = <<>> /\ fresh = [t |-> 0, v |-> Threshold] /\ outcome = Unsteady
  /\ taken = <<>>

\* Nothing is left of a call that has returned.
Returned ==
  /\ phase' = "idle" /\ clock' = 0 /\ UNCHANGED profile
  /\ window' = <<>> /\ fresh' = [t |-> 0, v |-> Threshold] /\ outcome' = Unsteady
  /\ taken' = <<>>
-----------------------------------------------------------------------------
(* _evaluate() and _linear_slope().                                        *)

ValuesOf(w) == [i \in DOMAIN w |-> w[i].v]
TimesOf(w) == [i \in DOMAIN w |-> w[i].t]

\* x[1] + ... + x[n]
SumTo(x, n) ==
  LET upto[k \in 0..n] == IF k = 0 THEN 0 ELSE upto[k - 1] + x[k]
  IN upto[n]
Products(x, y, n) == [i \in 1..n |-> x[i] * y[i]]

Sum(w) == SumTo(ValuesOf(w), Len(w))

\* n times the sum of the products of what each differs from its mean.
Cross(x, y, n) == n * SumTo(Products(x, y, n), n) - SumTo(x, n) * SumTo(y, n)

\* n * n times the variance of the readings, and of their times.
Spread(w) == Cross(ValuesOf(w), ValuesOf(w), Len(w))
TimeSpread(w) == Cross(TimesOf(w), TimesOf(w), Len(w))

\* Mutant: the mean is subtracted from the readings only.
Bug_Rise(w) == Len(w) * SumTo(Products(TimesOf(w), ValuesOf(w), Len(w)), Len(w))

\* The slope is Rise / TimeSpread, and 0 when all times are equal.
Rise(w) == IF TimeSpread(w) = 0 THEN 0 ELSE Cross(TimesOf(w), ValuesOf(w), Len(w))

\* With mean 0 a relative deviation or slope counts as infinite.
Evaluate(w, p) ==
  LET n == Len(w)
      mean == Size(Sum(w))
  IN /\ p.stdev # Unlimited => Spread(w) <= n * n * p.stdev * p.stdev
     /\ p.rel # Unlimited =>
          mean # 0 /\ p.rel[2] * p.rel[2] * Spread(w) <= p.rel[1] * p.rel[1] * mean * mean
     /\ p.slope # Unlimited =>
          mean # 0 /\ p.slope[2] * n * Size(Rise(w)) <= p.slope[1] * Max({TimeSpread(w), 1}) * mean
-----------------------------------------------------------------------------
(* The loop.                                                               *)

Begin ==
  /\ phase = "idle"
  /\ phase' = "sample"
  /\ profile' \in Profiles
  /\ clock' = profile'.settle
  /\ UNCHANGED <<window, fresh, outcome, taken>>

Ends(result) == phase' = "done" /\ outcome' = result

\* Mutant: the wait is over only when the window is full.
Bug_WaitIsOver == clock > profile.wait /\ Len(window) = profile.window

WaitIsOver == clock > profile.wait

GiveUp ==
  /\ phase = "sample" /\ WaitIsOver
  /\ Ends(Unsteady)
  /\ UNCHANGED <<profile, clock, window, fresh, taken>>

\* A reading, stamped with the time at which it was read.
Reading ==
  \E d \in Takes, v \in Values :
    /\ clock' = clock + d
    /\ fresh' = [t |-> clock', v |-> v]
    /\ taken' = IF IsOverload(fresh') THEN taken ELSE Append(taken, fresh')

Sample ==
  /\ phase = "sample" /\ ~WaitIsOver
  /\ Reading
  /\ IF IsOverload(fresh')
       THEN /\ IF profile.reject THEN Ends(Unsteady) ELSE phase' = "evaluate" /\ UNCHANGED outcome
            /\ UNCHANGED window
       ELSE /\ phase' = "evaluate" /\ UNCHANGED outcome
            /\ window' = IF Len(window) = profile.window THEN Append(Tail(window), fresh')
                                                         ELSE Append(window, fresh')
  /\ UNCHANGED profile

\* A reading may fail, as the driver's read_once() does.
Raises ==
  /\ phase \in {"sample", "final"} /\ (phase = "sample" => ~WaitIsOver)
  /\ Ends(Raised)
  /\ UNCHANGED <<profile, clock, window, fresh, taken>>

Steady == Len(window) = profile.window /\ Evaluate(window, profile)

GoOn ==
  /\ phase = "evaluate" /\ ~Steady
  /\ phase' = "sample"
  /\ clock' = clock + profile.interval
  /\ UNCHANGED <<profile, window, fresh, outcome, taken>>

Result(r) == IF IsOverload(r) THEN Unsteady ELSE Stable(r)

\* The reading that made the window steady, or the final one.
Accept ==
  /\ \/ phase = "evaluate" /\ Steady /\ ~profile.final /\ UNCHANGED <<clock, fresh, taken>>
     \/ phase = "final" /\ Reading
  /\ Ends(Result(fresh'))
  /\ UNCHANGED <<profile, window>>

ReadFinal ==
  /\ phase = "evaluate" /\ Steady /\ profile.final
  /\ phase' = "final"
  /\ UNCHANGED <<profile, clock, window, fresh, outcome, taken>>

StabilityNext == Begin \/ GiveUp \/ Sample \/ Raises \/ GoOn \/ ReadFinal \/ Accept
-----------------------------------------------------------------------------
StabilityTypeOK ==
  /\ phase \in {"idle", "sample", "evaluate", "final", "done"}
  /\ profile \in Profiles /\ clock \in Nat
  /\ Len(window) <= profile.window
  /\ outcome \in {Unsteady, Raised} \cup [kind : {"stable"}, v : Values]

\* The same limits said by pairs of readings: the variance from their differences,
\* the slope from differences over times.  Each pair is counted twice.
PairSum(x, y, n) ==
  SumTo([j \in 1..n |-> SumTo([i \in 1..n |-> (x[i] - x[j]) * (y[i] - y[j])], n)], n)
WithinLimits(w, p) ==
  LET n == Len(w)
      mean == Size(Sum(w))
      spread == PairSum(ValuesOf(w), ValuesOf(w), n)
      den == PairSum(TimesOf(w), TimesOf(w), n)
      num == PairSum(TimesOf(w), ValuesOf(w), n)
  IN /\ p.stdev # Unlimited => spread <= 2 * n * n * p.stdev * p.stdev
     /\ p.rel # Unlimited =>
          mean # 0 /\ p.rel[2] * p.rel[2] * spread <= 2 * p.rel[1] * p.rel[1] * mean * mean
     /\ p.slope # Unlimited =>
          /\ mean # 0
          /\ p.slope[2] * n * num <= p.slope[1] * den * mean
          /\ -(p.slope[2] * n * num) <= p.slope[1] * den * mean

IsResult == phase = "done" /\ outcome.kind = "stable"

\* A result is the last reading taken, and the readings before it, as many as the
\* window holds with no valid one left out, were within every limit of the profile.
StableIsSteady ==
  IsResult =>
    LET before == IF profile.final THEN Len(taken) - 1 ELSE Len(taken)
    IN /\ before >= profile.window
       /\ WithinLimits(SubSeq(taken, before - profile.window + 1, before), profile)
       /\ ~IsOverload(fresh) /\ outcome = Stable(fresh)

\* However the readings come, the last ordinary one begins within max_wait, so the
\* call is over within two readings and a pause of it.
EndsInTime ==
  phase # "idle" =>
    clock <= Max({profile.settle, profile.wait + profile.interval}) + 2 * Max(Takes)
=============================================================================
