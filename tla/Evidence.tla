-------------------------------- MODULE Evidence --------------------------------
(***************************************************************************)
(* Evidence of keyword calls: _evidenced() around every keyword            *)
(* (legacy_library.py), the run it writes to (evidence.py), the bundle     *)
(* (library.py) and the listener's close() (runtime_library.py).           *)
(*                                                                         *)
(* The files of a run are a count of the changes made to them; a manifest  *)
(* is the count it was generated at.  Keywords call keywords, so a call is *)
(* a frame on a stack, entered, run and returned from in steps.            *)
(***************************************************************************)
EXTENDS Naturals, Sequences, FiniteSets

CONSTANTS
  Aliases,
  MaxRuns,      \* bound on the runs of a suite
  MaxCalls,     \* bound on the keywords a suite calls
  Keywords,     \* kinds of keywords the suite calls
  WritesFail    \* writing the summary or the manifest may fail

ASSUME EvidenceAssumption ==
  /\ MaxRuns \in Nat /\ MaxCalls \in Nat /\ WritesFail \in BOOLEAN
  /\ Keywords \subseteq {"driver", "outer", "open", "close", "disconnectDmm", "closeAll",
                         "export"}

Runs == 1..MaxRuns
NoRun == 0
Open == "open"
Verdicts == {Open, "PASS", "FAIL"}
NoBundle == [records |-> 0, manifest |-> 0, completed |-> 0]

VARIABLES
  enabled,   \* evidence_enabled; NullEvidenceRun writes nothing
  sessions,  \* aliases with a session
  traced,    \* the run that each session's trace_callback writes to
  current,   \* _evidence
  made,      \* runs created
  run,       \* what each run has written
  calls,     \* the keywords being executed, the innermost last
  raised,    \* the innermost keyword raised
  bundle,    \* the last diagnostic bundle
  left,      \* keywords the suite still calls
  alive      \* the listener's close() has not been called

state == <<sessions, traced, current, made, run, calls, raised, bundle>>
vars == <<enabled, state, left, alive>>

EmptyRun == [records |-> 0, manifest |-> 0, failed |-> FALSE, verdict |-> Open,
             unwritten |-> FALSE]

Init ==
  /\ enabled \in BOOLEAN
  /\ sessions = {} /\ traced = [a \in Aliases |-> NoRun]
  /\ current = NoRun /\ made = 0
  /\ run = [r \in Runs |-> EmptyRun]
  /\ calls = <<>> /\ raised = FALSE
  /\ bundle = NoBundle
  /\ left = MaxCalls
  /\ alive = TRUE
-----------------------------------------------------------------------------
(* The run.                                                                *)

\* emit_event(), log_protocol() and the other writers: n more changes.
Written(u, n) == [u EXCEPT !.records = @ + n]
WriteTo(runs, r, n) == IF r = NoRun THEN runs ELSE [runs EXCEPT ![r] = Written(@, n)]

\* record_error()
Failed(u) == [Written(u, 1) EXCEPT !.failed = TRUE]

\* _write_manifest()
WriteManifest(u) == [u EXCEPT !.manifest = u.records]

\* Mutant: the status that is asked for decides alone.
Bug_FinalizeTrusts(u, status) ==
  IF u.verdict # Open THEN {u}
  ELSE LET finishing == Written(u, 2)
       IN {WriteManifest([finishing EXCEPT !.verdict = status])}

\* finalize(): once; the run is sealed when the manifest is written.
Finalize(u, status) ==
  IF u.verdict # Open THEN {u}
  ELSE LET finishing == Written(u, 2)
           effective == IF u.failed \/ status = "FAIL" THEN "FAIL" ELSE status
       IN {WriteManifest([finishing EXCEPT !.verdict = effective])}
            \cup (IF WritesFail THEN {[Written(u, 1) EXCEPT !.unwritten = TRUE]} ELSE {})

\* _ensure_evidence(): a new run has written its environment and RUN_STARTED.
Ensured == IF current # NoRun \/ ~enabled THEN current ELSE made + 1
NewRun == Ensured # current
Started == IF NewRun THEN [run EXCEPT ![Ensured] = Written(EmptyRun, 2)] ELSE run
-----------------------------------------------------------------------------
(* Keyword calls.                                                          *)

top == calls[Len(calls)]
Running(kw) == calls # <<>> /\ top.kw = kw /\ ~top.ran
Ran(frames) == [frames EXCEPT ![Len(frames)].ran = TRUE]

\* record_operation() up to its yield.
Enter(kw) ==
  /\ NewRun => made < MaxRuns
  /\ current' = Ensured
  /\ made' = IF NewRun THEN made + 1 ELSE made
  /\ run' = WriteTo(Started, Ensured, 1)
  /\ calls' = Append(calls, [kw |-> kw, run |-> Ensured, ran |-> FALSE])
  /\ raised' = FALSE
  /\ UNCHANGED <<enabled, sessions, traced, bundle, alive>>

CallKeyword(kw) ==
  /\ alive /\ calls = <<>> /\ left > 0
  /\ left' = left - 1
  /\ Enter(kw)

\* Get Device Error, Connect and others call a keyword, Disconnect DMM calls Close DMM.
Calls == [outer |-> {"driver", "open"}, disconnectDmm |-> {"close"}]
CallNested ==
  /\ \E outer \in DOMAIN Calls : Running(outer) /\ \E kw \in Calls[outer] : Enter(kw)
  /\ UNCHANGED left

Body(kw) == Running(kw) /\ calls' = Ran(calls)

\* A keyword that uses a driver: no session, or its traffic and an error or not.
UseDriver(a) ==
  /\ Body("driver")
  /\ IF a \in sessions THEN run' = WriteTo(run, traced[a], 1) /\ raised' \in BOOLEAN
                       ELSE raised' = TRUE /\ UNCHANGED run
  /\ UNCHANGED <<enabled, sessions, traced, current, made, bundle, left, alive>>

\* _register_connected(): the trace is wired before the driver connects; a session
\* of the alias is replaced, or the keyword raises.
OpenSession(a) ==
  /\ Body("open")
  /\ \/ /\ raised' = TRUE
        /\ run' = WriteTo(run, current, 1)
        /\ UNCHANGED <<sessions, traced>>
     \/ /\ raised' = FALSE
        /\ run' = WriteTo(run, current, 2)
        /\ sessions' = sessions \cup {a}
        /\ traced' = [traced EXCEPT ![a] = current]
  /\ UNCHANGED <<enabled, current, made, bundle, left, alive>>

\* Close DMM and Disconnect, of a session or of none.
CloseSession(a) ==
  /\ Body("close")
  /\ run' = IF a \in sessions THEN WriteTo(run, traced[a], 1) ELSE run
  /\ raised' \in BOOLEAN
  /\ sessions' = sessions \ {a}
  /\ UNCHANGED <<enabled, traced, current, made, bundle, left, alive>>

CloseAll ==
  /\ Body("closeAll")
  /\ run' = WriteTo(run, current, Cardinality(sessions))
  /\ raised' \in (IF sessions = {} THEN {FALSE} ELSE BOOLEAN)
  /\ sessions' = {}
  /\ UNCHANGED <<enabled, traced, current, made, bundle, left, alive>>

\* Mutant: the keyword keeps the archive of the inner export.
Bug_Exported(u) ==
  LET snapshot == WriteManifest(Written(u, 2))
  IN [run |-> Written(snapshot, 2),
      bundle |-> [records |-> snapshot.records, manifest |-> snapshot.manifest,
                  completed |-> snapshot.records + 2]]

\* The inner export writes its event, a manifest and an archive; the keyword writes
\* manifest and archive again when its own completion is recorded.
Exported(u) ==
  LET snapshot == WriteManifest(Written(WriteManifest(Written(u, 2)), 2))
  IN [run |-> snapshot,
      bundle |-> [records |-> snapshot.records, manifest |-> snapshot.manifest,
                  completed |-> snapshot.records]]

\* Export Diagnostic Bundle is not decorated: it records itself, and refuses a
\* destination inside the run before it does.
ExportDiagnosticBundle ==
  /\ alive /\ calls = <<>> /\ left > 0 /\ "export" \in Keywords
  /\ left' = left - 1
  /\ NewRun => made < MaxRuns
  /\ current' = Ensured
  /\ made' = IF NewRun THEN made + 1 ELSE made
  /\ \/ run' = Started /\ UNCHANGED bundle
     \/ /\ enabled
        /\ run' = [Started EXCEPT ![Ensured] = Exported(@).run]
        /\ bundle' = Exported(Started[Ensured]).bundle
     \/ /\ enabled
        /\ run' = [Started EXCEPT ![Ensured] = Written(Failed(Written(@, 2)), 2)]
        /\ UNCHANGED bundle
  /\ UNCHANGED <<enabled, sessions, traced, calls, raised, alive>>

Closing == {"close", "disconnectDmm", "closeAll"}

\* Mutant: a closing keyword always seals.
Bug_Seals(kw) == kw \in Closing

Seals(kw) == kw \in Closing /\ sessions = {}

\* record_operation() after its yield.
Recorded(u) == IF raised THEN Written(Failed(u), 2) ELSE Written(u, 2)

\* Mutant: the run is sealed before the closing operation is recorded.
Bug_Ended(u, kw) ==
  IF Seals(kw) THEN {Recorded(f) : f \in Finalize(u, IF raised THEN "FAIL" ELSE "PASS")}
  ELSE {Recorded(u)}

\* What a run may be when the keyword has been recorded and has sealed it or not.
Ended(u, kw) ==
  IF Seals(kw) THEN Finalize(Recorded(u), IF raised THEN "FAIL" ELSE "PASS")
  ELSE {Recorded(u)}

\* The keyword returns or raises to the one that called it; an outer keyword may
\* raise on what the inner one returned.
Return ==
  /\ calls # <<>> /\ top.ran
  /\ LET r == top.run
         outer == SubSeq(calls, 1, Len(calls) - 1)
     IN \E u \in IF r = NoRun THEN {EmptyRun} ELSE Ended(run[r], top.kw) :
          LET done == Seals(top.kw) /\ (r = NoRun \/ u.verdict # Open)
              error == raised \/ (Seals(top.kw) /\ ~done)
          IN /\ run' = IF r = NoRun THEN run ELSE [run EXCEPT ![r] = u]
             /\ current' = IF done THEN NoRun ELSE current
             /\ calls' = IF outer = <<>> THEN outer ELSE Ran(outer)
             /\ raised' \in IF outer = <<>> THEN {FALSE}
                            ELSE IF outer[Len(outer)].kw = "outer" THEN {error, TRUE}
                            ELSE {error}
  /\ UNCHANGED <<enabled, sessions, traced, made, bundle, left, alive>>

\* Mutant: the listener's close() forgets a run without sealing it when there was
\* nothing to close.
Bug_ListenerSeals(u) == IF sessions = {} THEN {u} ELSE Finalize(u, "PASS")

\* Listener close(), at the end of the suite: whatever fails is swallowed.
ListenerSeals(u) ==
  LET closed == Written(u, Cardinality(sessions))
  IN Finalize(closed, "PASS")
       \cup (IF sessions = {} THEN {} ELSE Finalize(Failed(closed), "FAIL"))

ListenerClose ==
  /\ alive /\ calls = <<>>
  /\ alive' = FALSE
  /\ IF current = NoRun THEN UNCHANGED run
     ELSE \E u \in ListenerSeals(run[current]) : run' = [run EXCEPT ![current] = u]
  /\ sessions' = {}
  /\ current' = NoRun
  /\ UNCHANGED <<enabled, traced, made, calls, raised, bundle, left>>

Next ==
  \/ \E kw \in Keywords \ {"export"} : CallKeyword(kw)
  \/ CallNested \/ ExportDiagnosticBundle
  \/ \E a \in Aliases : UseDriver(a) \/ OpenSession(a) \/ CloseSession(a)
  \/ CloseAll \/ Return \/ ListenerClose

Spec == Init /\ [][Next]_vars
-----------------------------------------------------------------------------
TypeOK ==
  /\ enabled \in BOOLEAN /\ raised \in BOOLEAN /\ alive \in BOOLEAN
  /\ sessions \subseteq Aliases
  /\ traced \in [Aliases -> Runs \cup {NoRun}]
  /\ current \in 0..made /\ made \in 0..MaxRuns /\ left \in 0..MaxCalls
  /\ \A r \in Runs :
       /\ run[r].manifest \in 0..run[r].records
       /\ run[r].failed \in BOOLEAN /\ run[r].verdict \in Verdicts
  /\ \A i \in 1..Len(calls) : calls[i].run \in 0..made
  /\ bundle \in [records : Nat, manifest : Nat, completed : Nat]

\* The traffic of every open session goes into the run that is being written, not
\* into one that is sealed: what the sealing waits for the last session for.
TrafficReachesTheRun ==
  enabled => \A a \in sessions : traced[a] = current \/ calls # <<>>

\* An archive and the manifest in it are of the same moment, and the record that
\* the export completed is in both.
BundleIsASnapshot ==
  bundle.manifest = bundle.records /\ bundle.records >= bundle.completed

\* What validate_evidence.py asks of a run: every file and every size and hash.
Validates(u) == u.manifest = u.records

\* A sealed run validates for ever: its manifest covers everything it ever writes.
ManifestIsWhole == \A r \in Runs : run[r].verdict # Open => Validates(run[r])

\* When the suite has ended every run is sealed, except one whose summary or
\* manifest could not be written.
SuiteEndSeals ==
  ~alive => \A r \in 1..made : run[r].verdict # Open \/ run[r].unwritten

\* Every run is a Journal.
Abstract == INSTANCE Journal WITH
  records <- [r \in Runs |-> run[r].records],
  failed <- [r \in Runs |-> run[r].failed],
  verdict <- [r \in Runs |-> run[r].verdict]
ImplementsJournal == Abstract!JSpec
=============================================================================
