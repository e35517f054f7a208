-------------------------------- MODULE Journal --------------------------------
(***************************************************************************)
(* What an evidence run promises (evidence.py:3-8): records are added to   *)
(* it, then it is sealed once with a verdict over all of them, and nothing *)
(* of it changes after.  A run in which an operation failed does not pass. *)
(***************************************************************************)
EXTENDS Naturals

CONSTANTS Runs, Open

VARIABLES
  records,   \* changes made to the files of each run
  failed,    \* an operation of the run failed
  verdict    \* Open, or "PASS" or "FAIL" once sealed

jvars == <<records, failed, verdict>>

JInit ==
  /\ records = [r \in Runs |-> 0]
  /\ failed = [r \in Runs |-> FALSE]
  /\ verdict = [r \in Runs |-> Open]

\* A run gets more records, the failure of an operation among them perhaps, and
\* may be sealed.
Record(r) ==
  /\ verdict[r] = Open
  /\ records'[r] > records[r]
  /\ failed[r] => failed'[r]
  /\ verdict'[r] \in IF failed'[r] THEN {Open, "FAIL"} ELSE {Open, "FAIL", "PASS"}

Same(r) == <<records[r], failed[r], verdict[r]>>' = <<records[r], failed[r], verdict[r]>>
JNext == \E r \in Runs : Record(r) /\ \A q \in Runs \ {r} : Same(q)

JSpec == JInit /\ [][JNext]_jvars
=============================================================================
