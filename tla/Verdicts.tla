------------------------------- MODULE Verdicts -------------------------------
(***************************************************************************)
(* What is concluded from readings.  In Robot a session keeps its last     *)
(* reading; measuring keywords set it, assertions look at it, whatever     *)
(* happened between (legacy_library.py, library.py).  Try Read Stable      *)
(* Resistance runs the algorithm of Stability.  A production sequence      *)
(* judges each step by its own reading (production.py, measurement.py).    *)
(***************************************************************************)
EXTENDS Stability

CONSTANTS
  Limits,     \* limits, expected values and tolerances that are given
  NoLimit,    \* None as a limit
  Steps,      \* production steps: lower, upper, known (it has a method)
  MaxCalls,   \* bound on the keywords called
  MaxSteps    \* bound on the steps of a sequence

ASSUME VerdictsAssumption ==
  /\ Limits \subseteq Int /\ MaxCalls \in Nat /\ MaxSteps \in Nat
  /\ \A s \in Steps : {s.lower, s.upper} \subseteq Limits \cup {NoLimit} /\ s.known \in BOOLEAN

NoReading == [none |-> TRUE]
NoResult == [kind |-> "none", v |-> 0]
NoPass == [about |-> "nothing", v |-> 0]

VARIABLES
  last,      \* session.last_reading
  held,      \* what the test keeps of Try Read Stable Resistance
  given,     \* the last reading a keyword of this session was given (history)
  missed,    \* a measuring keyword was given none since (history)
  passed,    \* the assertion just made passed on this value (history)
  judged,    \* the steps of the sequence, with reading and verdict
  calls      \* keywords still to be called

robot == <<last, held, given, missed, passed>>
vvars == <<svars, robot, judged, calls>>

VerdictsInit ==
  /\ StabilityInit
  /\ last = NoReading /\ held = NoResult
  /\ given = NoReading /\ missed = FALSE /\ passed = NoPass
  /\ judged = <<>>
  /\ calls = MaxCalls

Call == phase = "idle" /\ judged = <<>> /\ calls > 0 /\ calls' = calls - 1
Kept(r) == [v |-> r.v]
-----------------------------------------------------------------------------
(* Measuring keywords.                                                     *)

\* Mutant: an overload is raised before the reading is kept.
Bug_AcceptReading(r) == IF IsOverload(r) THEN last ELSE r

\* _accept_reading(): kept first, then judged.
AcceptReading(r) == r

\* Measure ..., Read DMM, Read DMM Once With Bus Trigger and Fetch DMM Readings, whose
\* list is never empty and of which the last reading is kept.
Measure ==
  /\ Call
  /\ \E v \in Values : given' = [v |-> v]
  /\ last' = AcceptReading(given')
  /\ missed' = FALSE /\ passed' = NoPass
  /\ UNCHANGED <<svars, held, judged>>

\* The driver raises, and the test goes on.
MeasureFails ==
  /\ Call
  /\ missed' = TRUE /\ passed' = NoPass
  /\ UNCHANGED <<svars, last, held, given, judged>>

TryReadStable == Call /\ Begin /\ UNCHANGED <<robot, judged>>

\* Try Read Stable Resistance returns every result, Read Stable Resistance raises
\* one that is not stable; only a stable one has a reading that is kept.
StableResult ==
  /\ phase = "done"
  /\ Returned
  /\ held' \in IF outcome = Raised THEN {held} ELSE {held, outcome}
  /\ IF outcome.kind = "stable"
       THEN last' = Kept(fresh) /\ given' = Kept(fresh) /\ missed' = FALSE
       ELSE missed' = TRUE /\ UNCHANGED <<last, given>>
  /\ passed' = NoPass
  /\ UNCHANGED <<judged, calls>>

\* The alias is connected again or another session selected: no reading yet.
OtherSession ==
  /\ Call
  /\ last' = NoReading /\ given' = NoReading /\ missed' = FALSE /\ passed' = NoPass
  /\ UNCHANGED <<svars, held, judged>>
-----------------------------------------------------------------------------
(* Assertions.  One that does not hold raises.                             *)

Between(v, low, high) == low <= v /\ v <= high
CloseTo(v, expected, tolerance) == tolerance >= 0 /\ Size(v - expected) <= tolerance
HoldsFor(v) ==
  \E x, y \in Limits : Between(v, x, y) \/ CloseTo(v, x, y) \/ v > x \/ v < y

\* _value_for_assertion(): a last reading that is valid and no overload.
AssertLast ==
  /\ Call
  /\ passed' = IF last # NoReading /\ ~IsOverload(last) /\ HoldsFor(last.v)
                 THEN [about |-> "last", v |-> last.v] ELSE NoPass
  /\ UNCHANGED <<svars, last, held, given, missed, judged>>

\* Stable Resistance Should Be Between
AssertStable ==
  /\ Call
  /\ passed' = IF held.kind = "stable" /\ \E x, y \in Limits : Between(held.v, x, y)
                 THEN [about |-> "result", v |-> held.v] ELSE NoPass
  /\ UNCHANGED <<svars, last, held, given, missed, judged>>
-----------------------------------------------------------------------------
(* Production.                                                             *)

\* Mutant: a limit of 0 is taken for none.
Bug_CheckLimits(v, s) ==
  IF \/ s.lower # NoLimit /\ s.lower # 0 /\ v < s.lower
     \/ s.upper # NoLimit /\ s.upper # 0 /\ v > s.upper THEN "FAIL" ELSE "PASS"

CheckLimits(v, s) ==
  IF \/ s.lower # NoLimit /\ v < s.lower
     \/ s.upper # NoLimit /\ v > s.upper THEN "FAIL" ELSE "PASS"

Verdict(s, r) ==
  IF r = NoReading THEN "ERROR"
  ELSE IF IsOverload(r) THEN "FAIL" ELSE CheckLimits(r.v, s)

\* run_measurement_step(): a wrong terminal, a function without a method or a driver
\* that raises is an error of the step, and the sequence goes on.  A production
\* program calls no keywords.
RunStep ==
  /\ calls = MaxCalls /\ Len(judged) < MaxSteps
  /\ \E s \in Steps, r \in {[v |-> v] : v \in Values} \cup {NoReading} :
       /\ s.known \/ r = NoReading
       /\ judged' = Append(judged, [step |-> s, reading |-> r, verdict |-> Verdict(s, r)])
  /\ UNCHANGED <<svars, robot, calls>>

\* TestSequenceResult.pass_fail
PassFail(results) ==
  LET verdicts == {results[i].verdict : i \in DOMAIN results}
  IN IF "ERROR" \in verdicts THEN "ERROR" ELSE IF "FAIL" \in verdicts THEN "FAIL" ELSE "PASS"

VerdictsNext ==
  \/ StabilityNext /\ phase # "idle" /\ UNCHANGED <<robot, judged, calls>>
  \/ Measure \/ MeasureFails \/ TryReadStable \/ StableResult \/ OtherSession
  \/ AssertLast \/ AssertStable \/ RunStep

Spec == VerdictsInit /\ [][VerdictsNext]_vvars
-----------------------------------------------------------------------------
TypeOK ==
  /\ StabilityTypeOK
  /\ {last, given} \subseteq {[v |-> v] : v \in Values} \cup {NoReading}
  /\ held.kind \in {"none", "stable", "not stable"} /\ missed \in BOOLEAN
  /\ passed.about \in {"nothing", "last", "result"}
  /\ Len(judged) <= MaxSteps /\ calls \in 0..MaxCalls

\* An assertion that passes speaks of the last reading the session was given, not of
\* one before an overload, and never of an overload or of another session.
PassIsAboutTheReading ==
  passed.about = "last" => given # NoReading /\ passed.v = given.v /\ ~IsOverload(given)

\* A sequence passes only if every step has a reading, no reading is an overload and
\* none is outside a limit, 0 included; it fails only on readings, and an error of
\* one step is not hidden by the failure of another.
SequenceVerdict ==
  LET within(j) ==
        /\ ~IsOverload(j.reading)
        /\ j.step.lower # NoLimit => j.step.lower <= j.reading.v
        /\ j.step.upper # NoLimit => j.reading.v <= j.step.upper
      unread == {i \in DOMAIN judged : judged[i].reading = NoReading}
  IN /\ PassFail(judged) = "ERROR" <=> unread # {}
     /\ PassFail(judged) = "PASS" <=> unread = {} /\ \A i \in DOMAIN judged : within(judged[i])

\* An assertion does not pass on a reading from before a measurement that failed or
\* was not stable, as README.md says: unstable readings are rejected.
NoPassAfterUnstable == passed.about = "last" => ~missed
=============================================================================
