----------------------------- MODULE EvidenceProofs -----------------------------
(***************************************************************************)
(* For any aliases, runs and keywords: where traffic goes, that the end of *)
(* the suite seals; and, for suites that do not call Disconnect DMM, that  *)
(* a manifest is whole and every run is a Journal.  With Disconnect DMM    *)
(* the last two are false (run disconnect_seals).                          *)
(*                                                                         *)
(* A keyword's end is recorded in the run that was current when it began,  *)
(* so the invariant follows the stack (StackShape, FramesAreCurrent): the  *)
(* run of every frame is the current one, and the current one is open.     *)
(* TracedIsCurrent says the same of sessions, OthersAreOver that no        *)
(* earlier run was left open.                                              *)
(***************************************************************************)
EXTENDS Evidence, FiniteSetTheorems, SequenceTheorems, TLAPS

RunStates ==
  [records : Nat, manifest : Nat, failed : BOOLEAN, verdict : Verdicts, unwritten : BOOLEAN]
KeywordKinds == {"driver", "outer", "open", "close", "disconnectDmm", "closeAll", "export"}
Frames == [kw : KeywordKinds, run : Runs \cup {NoRun}, ran : BOOLEAN]

Types ==
  /\ enabled \in BOOLEAN /\ raised \in BOOLEAN /\ alive \in BOOLEAN
  /\ sessions \subseteq Aliases /\ IsFiniteSet(sessions)
  /\ traced \in [Aliases -> Runs \cup {NoRun}]
  /\ made \in 0..MaxRuns /\ current \in 0..made
  /\ run \in [Runs -> RunStates]
  /\ calls \in Seq(Frames)

\* A keyword that is called by another one calls none.
StackShape ==
  /\ Len(calls) <= 2
  /\ Len(calls) > 0 => calls[1].kw \in Keywords
  /\ Len(calls) = 2 =>
       /\ ~calls[1].ran
       /\ \/ calls[1].kw = "outer" /\ calls[2].kw \in {"driver", "open"}
          \/ calls[1].kw = "disconnectDmm" /\ calls[2].kw = "close"

\* The run that is being written is open, and those not yet made are empty.
CurrentIsOpen ==
  /\ current # NoRun => run[current].verdict = Open
  /\ \A r \in Runs : r > made => run[r] = EmptyRun

\* Disconnect DMM, when the Close DMM that it called has sealed the run.
SealedUnder(f) ==
  /\ current = NoRun /\ f.kw = "disconnectDmm" /\ f.ran
  /\ f.run # NoRun /\ f.run <= made /\ run[f.run].verdict # Open

\* A keyword is recorded in the run that is being written.
FramesAreCurrent ==
  /\ \A i \in 1..Len(calls) :
       calls[i].run = current \/ (Len(calls) = 1 /\ SealedUnder(calls[i]))
  /\ enabled => \A i \in 1..Len(calls) : calls[i].run # NoRun

\* Sessions write to the run that is being written, and there is one while there
\* are sessions; a library without evidence has neither.
TracedIsCurrent ==
  /\ enabled => /\ \A a \in sessions : traced[a] = current
                /\ current = NoRun => sessions = {}
  /\ ~enabled => current = NoRun /\ \A a \in Aliases : traced[a] = NoRun

\* A run that is no longer written was sealed, or could not be.
OthersAreOver ==
  /\ \A r \in 1..made : r = current \/ run[r].verdict # Open \/ run[r].unwritten
  /\ ~alive => current = NoRun /\ calls = <<>>

IInv ==
  /\ Types /\ StackShape /\ CurrentIsOpen /\ FramesAreCurrent /\ TracedIsCurrent
  /\ OthersAreOver

USE EvidenceAssumption DEF NoRun, Open, Runs
-----------------------------------------------------------------------------
(* What is done to one run.                                                *)

\* A run goes on: it has more records, and no failure of it is forgotten.  Only an
\* open run is sealed, over all its records, and not as passed when it failed.
GoesOn(u, v) ==
  /\ v.records > u.records
  /\ u.failed => v.failed
  /\ u.unwritten => v.unwritten
  /\ IF u.verdict = Open
       THEN \/ v.verdict = Open
            \/ /\ v.manifest = v.records
               /\ v.verdict \in IF v.failed THEN {"FAIL"} ELSE {"PASS", "FAIL"}
       ELSE v.verdict = u.verdict

LEMMA WrittenGoesOn ==
  ASSUME NEW u \in RunStates, NEW n \in Nat
  PROVE  LET v == Written(u, n)
         IN /\ v \in RunStates /\ v.records = u.records + n
            /\ v.manifest = u.manifest /\ v.failed = u.failed /\ v.verdict = u.verdict
            /\ v.unwritten = u.unwritten
            /\ n = 0 => v = u
            /\ n > 0 => GoesOn(u, v)
BY DEF Written, RunStates, GoesOn, Verdicts

LEMMA FailedGoesOn ==
  ASSUME NEW u \in RunStates
  PROVE  LET v == Failed(u)
         IN /\ v \in RunStates /\ v.records = u.records + 1 /\ v.failed
            /\ v.verdict = u.verdict /\ v.unwritten = u.unwritten /\ GoesOn(u, v)
<1>1. ASSUME NEW w \in RunStates
      PROVE  LET v == [w EXCEPT !.failed = TRUE]
             IN /\ v \in RunStates /\ v.records = w.records /\ v.failed
                /\ v.manifest = w.manifest /\ v.verdict = w.verdict
                /\ v.unwritten = w.unwritten
  BY DEF RunStates
<1> DEFINE w == Written(u, 1)
<1>2. /\ w \in RunStates /\ w.records = u.records + 1 /\ w.verdict = u.verdict
      /\ w.unwritten = u.unwritten
  BY WrittenGoesOn
<1>3. Failed(u) = [w EXCEPT !.failed = TRUE]
  BY DEF Failed
<1> HIDE DEF w
<1> QED BY <1>1, <1>2, <1>3 DEF GoesOn, RunStates

LEMMA GoesOnIsTransitive ==
  ASSUME NEW u \in RunStates, NEW v \in RunStates, NEW w \in RunStates,
         GoesOn(u, v), GoesOn(v, w), v.verdict = u.verdict
  PROVE  GoesOn(u, w)
BY DEF GoesOn, RunStates

\* So does a run in which a keyword is recorded.
LEMMA RecordedGoesOn ==
  ASSUME NEW u \in RunStates
  PROVE  LET v == Recorded(u)
         IN v \in RunStates /\ v.verdict = u.verdict /\ GoesOn(u, v)
<1>1. CASE raised
  <2> DEFINE f == Failed(u)
             w == Written(f, 2)
  <2>1. f \in RunStates /\ f.verdict = u.verdict /\ GoesOn(u, f)
    BY FailedGoesOn
  <2>2. w \in RunStates /\ w.verdict = f.verdict /\ GoesOn(f, w)
    <3> HIDE DEF f
    <3> QED BY <2>1, WrittenGoesOn
  <2>3. Recorded(u) = w
    BY <1>1 DEF Recorded
  <2> HIDE DEF f, w
  <2> QED BY <2>1, <2>2, <2>3, GoesOnIsTransitive
<1>2. CASE ~raised
  <2>1. Recorded(u) = Written(u, 2)
    BY <1>2 DEF Recorded
  <2> QED BY <2>1, WrittenGoesOn
<1> QED BY <1>1, <1>2

\* finalize() leaves a sealed run alone; an open one it seals, or could not write.
LEMMA FinalizeGoesOn ==
  ASSUME NEW u \in RunStates, NEW status \in {"PASS", "FAIL"}, NEW v \in Finalize(u, status)
  PROVE  /\ v \in RunStates
         /\ u.verdict # Open => v = u
         /\ u.verdict = Open => GoesOn(u, v) /\ (v.verdict # Open \/ v.unwritten)
<1>1. CASE u.verdict # Open
  BY <1>1 DEF Finalize
<1>2. CASE u.verdict = Open
  <2> DEFINE e == IF u.failed \/ status = "FAIL" THEN "FAIL" ELSE status
             w == Written(u, 2)
             x == [w EXCEPT !.verdict = e]
             s == WriteManifest(x)
             o == Written(u, 1)
             n == [o EXCEPT !.unwritten = TRUE]
  <2>0. v \in {s} \cup (IF WritesFail THEN {n} ELSE {})
    BY <1>2 DEF Finalize
  <2>1. e \in {"PASS", "FAIL"} /\ (u.failed => e = "FAIL")
    OBVIOUS
  <2>2. /\ w \in RunStates /\ w.records = u.records + 2 /\ w.failed = u.failed
        /\ w.unwritten = u.unwritten
    BY WrittenGoesOn
  <2>3. /\ o \in RunStates /\ o.records = u.records + 1 /\ o.failed = u.failed
        /\ o.verdict = u.verdict
    BY WrittenGoesOn
  <2> HIDE DEF e, w, o
  <2>4. /\ n \in RunStates /\ n.records = u.records + 1 /\ n.failed = u.failed
        /\ n.verdict = u.verdict /\ n.unwritten
    BY <2>3 DEF RunStates
  <2>5. /\ x \in RunStates /\ x.records = u.records + 2 /\ x.failed = u.failed
        /\ x.unwritten = u.unwritten /\ x.verdict = e
    BY <2>1, <2>2 DEF RunStates, Verdicts
  <2> HIDE DEF x, n
  <2>6. /\ s \in RunStates /\ s.records = u.records + 2 /\ s.failed = u.failed
        /\ s.unwritten = u.unwritten /\ s.verdict = e /\ s.manifest = s.records
    BY <2>5 DEF RunStates, WriteManifest
  <2> HIDE DEF s
  <2>7. CASE v = s
    BY <2>7, <2>6, <2>1, <1>2 DEF GoesOn, RunStates
  <2>8. CASE v = n
    BY <2>8, <2>4, <1>2 DEF GoesOn, RunStates
  <2> QED BY <2>0, <2>7, <2>8
<1> QED BY <1>1, <1>2 DEF RunStates

\* So does a run that is exported, or could not be.
LEMMA ExportedGoesOn ==
  ASSUME NEW u \in RunStates
  PROVE  /\ LET v == Exported(u).run
            IN v \in RunStates /\ v.verdict = u.verdict /\ GoesOn(u, v)
         /\ LET v == Written(Failed(Written(u, 2)), 2)
            IN v \in RunStates /\ v.verdict = u.verdict /\ GoesOn(u, v)
<1>1. ASSUME NEW w \in RunStates
      PROVE  LET v == WriteManifest(w)
             IN /\ v \in RunStates /\ v.records = w.records /\ v.failed = w.failed
                /\ v.verdict = w.verdict /\ v.unwritten = w.unwritten
  BY DEF RunStates, WriteManifest
<1> DEFINE a == Written(u, 2)
           b == WriteManifest(a)
           c == Written(b, 2)
           d == WriteManifest(c)
           f == Failed(a)
           g == Written(f, 2)
<1>2. a \in RunStates /\ a.verdict = u.verdict /\ GoesOn(u, a)
  BY WrittenGoesOn
<1>3. Exported(u).run = d
  BY DEF Exported
<1> HIDE DEF a
<1>4. b \in RunStates /\ b.verdict = u.verdict /\ GoesOn(u, b)
  BY <1>1, <1>2 DEF GoesOn
<1>5. f \in RunStates /\ f.verdict = u.verdict /\ GoesOn(u, f)
  BY <1>2, FailedGoesOn, GoesOnIsTransitive
<1> HIDE DEF b, f
<1>6. c \in RunStates /\ c.verdict = u.verdict /\ GoesOn(u, c)
  BY <1>4, WrittenGoesOn, GoesOnIsTransitive
<1>7. g \in RunStates /\ g.verdict = u.verdict /\ GoesOn(u, g)
  BY <1>5, WrittenGoesOn, GoesOnIsTransitive
<1> HIDE DEF c
<1>8. d \in RunStates /\ d.verdict = u.verdict /\ GoesOn(u, d)
  BY <1>1, <1>6 DEF GoesOn
<1> QED BY <1>3, <1>7, <1>8 DEF a, f

\* Listener close() seals the run or could not write it.
LEMMA ListenerGoesOn ==
  ASSUME NEW u \in RunStates, u.verdict = Open, Cardinality(sessions) \in Nat,
         NEW v \in ListenerSeals(u)
  PROVE  v \in RunStates /\ GoesOn(u, v) /\ (v.verdict # Open \/ v.unwritten)
<1> DEFINE c == Written(u, Cardinality(sessions))
           f == Failed(c)
<1>1. v \in Finalize(c, "PASS") \/ v \in Finalize(f, "FAIL")
  BY DEF ListenerSeals
<1>2. c \in RunStates /\ c.verdict = u.verdict /\ (c = u \/ GoesOn(u, c))
  BY WrittenGoesOn DEF RunStates
<1> HIDE DEF c
<1>3. f \in RunStates /\ f.verdict = u.verdict /\ GoesOn(u, f)
  BY <1>2, FailedGoesOn, GoesOnIsTransitive
<1> HIDE DEF f
<1>4. CASE v \in Finalize(c, "PASS")
  <2>1. v \in RunStates /\ GoesOn(c, v) /\ (v.verdict # Open \/ v.unwritten)
    BY <1>2, <1>4, FinalizeGoesOn
  <2> QED BY <2>1, <1>2, GoesOnIsTransitive
<1>5. CASE v \in Finalize(f, "FAIL")
  <2>1. v \in RunStates /\ GoesOn(f, v) /\ (v.verdict # Open \/ v.unwritten)
    BY <1>3, <1>5, FinalizeGoesOn
  <2> QED BY <2>1, <1>3, GoesOnIsTransitive
<1> QED BY <1>1, <1>4, <1>5

\* A run that is recorded in, and then sealed or not.
LEMMA EndedGoesOn ==
  ASSUME NEW u \in RunStates, NEW kw, NEW v \in Ended(u, kw)
  PROVE  /\ v \in RunStates /\ GoesOn(u, v)
         /\ ~Seals(kw) \/ u.verdict # Open => v.verdict = u.verdict
         /\ Seals(kw) => v.verdict # Open \/ v.unwritten
<1> DEFINE w == Recorded(u)
           status == IF raised THEN "FAIL" ELSE "PASS"
<1>1. w \in RunStates /\ w.verdict = u.verdict /\ GoesOn(u, w)
  BY RecordedGoesOn
<1>2. status \in {"PASS", "FAIL"}
  OBVIOUS
<1>3. IF Seals(kw) THEN v \in Finalize(w, status) ELSE v = w
  BY DEF Ended
<1> HIDE DEF w, status
<1>4. CASE ~Seals(kw)
  BY <1>1, <1>3, <1>4
<1>5. CASE Seals(kw)
  <2>1. v \in RunStates /\ (w.verdict # Open => v = w)
    BY <1>1, <1>2, <1>3, <1>5, FinalizeGoesOn
  <2>2. w.verdict = Open => GoesOn(w, v) /\ (v.verdict # Open \/ v.unwritten)
    BY <1>1, <1>2, <1>3, <1>5, FinalizeGoesOn
  <2> QED BY <1>1, <1>5, <2>1, <2>2, GoesOnIsTransitive
<1> QED BY <1>4, <1>5
-----------------------------------------------------------------------------
(* What a step does to the runs.                                           *)

\* One run at most goes on.
OnlyRun(old, new, r) ==
  /\ new \in [Runs -> RunStates]
  /\ \A q \in Runs : q # r => new[q] = old[q]
  /\ r \in Runs => new[r] = old[r] \/ GoesOn(old[r], new[r])

LEMMA WriteToIsOnlyRun ==
  ASSUME NEW runs \in [Runs -> RunStates], NEW r \in Runs \cup {NoRun}, NEW n \in Nat
  PROVE  LET w == WriteTo(runs, r, n)
         IN /\ OnlyRun(runs, w, r)
            /\ \A q \in Runs : w[q].verdict = runs[q].verdict
                            /\ w[q].unwritten = runs[q].unwritten
<1>1. CASE r = NoRun
  BY <1>1 DEF WriteTo, OnlyRun
<1>2. CASE r \in Runs
  <2> DEFINE v == Written(runs[r], n)
  <2>1. /\ v \in RunStates /\ v.verdict = runs[r].verdict
        /\ v.unwritten = runs[r].unwritten /\ (v = runs[r] \/ GoesOn(runs[r], v))
    BY <1>2, WrittenGoesOn
  <2>2. WriteTo(runs, r, n) = [runs EXCEPT ![r] = v]
    BY <1>2 DEF WriteTo
  <2> HIDE DEF v
  <2> QED BY <1>2, <2>1, <2>2 DEF OnlyRun
<1> QED BY <1>1, <1>2

\* A step makes at most one run go on, and a sealed one only when Disconnect DMM
\* returns after the Close DMM it called has sealed it.
RunMoves ==
  \E r \in Runs \cup {NoRun} :
    /\ OnlyRun(run, run', r)
    /\ \/ r \in Runs => run[r].verdict = Open
       \/ calls # <<>> /\ top.kw = "disconnectDmm"

LEMMA FreshRun ==
  /\ EmptyRun \in RunStates /\ EmptyRun.verdict = Open
  /\ Written(EmptyRun, 2) \in RunStates /\ Written(EmptyRun, 2).verdict = Open
  /\ GoesOn(EmptyRun, Written(EmptyRun, 2))
<1>1. EmptyRun \in RunStates /\ EmptyRun.verdict = Open
  BY DEF EmptyRun, RunStates, Verdicts
<1> HIDE DEF EmptyRun
<1> QED BY <1>1, WrittenGoesOn

\* _ensure_evidence() leaves the current run alone or starts the next one.
LEMMA EnsuredRun ==
  ASSUME IInv, NewRun => made < MaxRuns
  PROVE  LET most == IF NewRun THEN made + 1 ELSE made
         IN /\ most \in 0..MaxRuns /\ Ensured \in 0..most
            /\ Ensured # NoRun <=> enabled
            /\ NewRun => current = NoRun /\ enabled /\ Ensured = made + 1
            /\ OnlyRun(run, Started, Ensured)
            /\ Ensured # NoRun => Started[Ensured].verdict = Open
            /\ \A r \in Runs : r > most => Started[r] = EmptyRun
            /\ Ensured # NoRun => run[Ensured].verdict = Open
<1> USE DEF IInv
<1>0. run \in [Runs -> RunStates] /\ made \in 0..MaxRuns /\ current \in 0..made
  BY DEF Types
<1>1. CASE NewRun
  <2>1. current = NoRun /\ enabled /\ Ensured = made + 1
    BY <1>1 DEF NewRun, Ensured
  <2>2. Started = [run EXCEPT ![made + 1] = Written(EmptyRun, 2)]
    BY <1>1, <2>1 DEF Started
  <2>3. made + 1 \in Runs /\ run[made + 1] = EmptyRun
    BY <1>0, <1>1, <2>1 DEF CurrentIsOpen
  <2>4. OnlyRun(run, Started, Ensured)
    BY <1>0, <2>1, <2>2, <2>3, FreshRun DEF OnlyRun
  <2>5. Started[Ensured].verdict = Open /\ run[Ensured].verdict = Open
    BY <1>0, <2>1, <2>2, <2>3, FreshRun
  <2>6. \A r \in Runs : r > made + 1 => Started[r] = EmptyRun
    BY <1>0, <2>2 DEF CurrentIsOpen
  <2> QED BY <1>0, <1>1, <2>1, <2>3, <2>4, <2>5, <2>6
<1>2. CASE ~NewRun
  <2>1. Started = run /\ Ensured = current
    BY <1>2 DEF Started, NewRun
  <2>2. Ensured # NoRun <=> enabled
    BY <1>0, <2>1 DEF Ensured, TracedIsCurrent
  <2> QED BY <1>0, <1>2, <2>1, <2>2 DEF OnlyRun, CurrentIsOpen
<1> QED BY <1>1, <1>2
-----------------------------------------------------------------------------
(* The steps.                                                              *)

\* At the start there is no run and no keyword.
LEMMA InitOK == Init => IInv
<1> SUFFICES ASSUME Init PROVE IInv
  OBVIOUS
<1> USE DEF Init
<1>1. Types
  <2>1. run \in [Runs -> RunStates]
    BY FreshRun
  <2>2. calls \in Seq(Frames) /\ IsFiniteSet(sessions)
    BY FS_EmptySet
  <2>3. enabled \in BOOLEAN /\ raised \in BOOLEAN /\ alive \in BOOLEAN
    OBVIOUS
  <2> QED BY <2>1, <2>2, <2>3 DEF Types
<1>2. StackShape /\ FramesAreCurrent /\ CurrentIsOpen
  BY DEF StackShape, FramesAreCurrent, CurrentIsOpen
<1>3. TracedIsCurrent /\ OthersAreOver
  BY DEF TracedIsCurrent, OthersAreOver
<1> QED BY <1>1, <1>2, <1>3 DEF IInv

\* Writes to the run that is being written, or to none, keep what is said of runs.
LEMMA RunsKeep ==
  ASSUME IInv, current' = current, made' = made,
         OnlyRun(run, run', current),
         \A q \in Runs : run'[q].verdict = run[q].verdict
                      /\ run'[q].unwritten = run[q].unwritten,
         alive' = alive, ~alive => calls' = <<>>
  PROVE  CurrentIsOpen' /\ OthersAreOver' /\ RunMoves
<1> USE DEF IInv
<1>1. made \in 0..MaxRuns /\ current \in 0..made
  BY DEF Types
<1>2. CurrentIsOpen'
  BY <1>1 DEF CurrentIsOpen, OnlyRun
<1>3. OthersAreOver'
  BY <1>1 DEF OthersAreOver
<1>4. RunMoves
  BY <1>1 DEF RunMoves, CurrentIsOpen
<1> QED BY <1>2, <1>3, <1>4

\* The innermost call has run.
LEMMA RanFrames ==
  ASSUME NEW frames \in Seq(Frames), Len(frames) > 0
  PROVE  /\ Ran(frames) \in Seq(Frames) /\ Len(Ran(frames)) = Len(frames)
         /\ \A i \in 1..Len(frames) :
              /\ Ran(frames)[i].kw = frames[i].kw /\ Ran(frames)[i].run = frames[i].run
              /\ i = Len(frames) => Ran(frames)[i].ran
         /\ \A i \in 1..Len(frames) : i # Len(frames) => Ran(frames)[i] = frames[i]
<1> DEFINE n == Len(frames)
           f == [frames[n] EXCEPT !.ran = TRUE]
<1>1. n \in Nat /\ n > 0 /\ frames[n] \in Frames
  BY LenProperties, ElementOfSeq
<1>2. f \in Frames /\ f.kw = frames[n].kw /\ f.run = frames[n].run /\ f.ran = TRUE
  BY <1>1 DEF Frames
<1>3. Ran(frames) = [frames EXCEPT ![n] = f]
  BY DEF Ran
<1> HIDE DEF f
<1>4. /\ Ran(frames) \in Seq(Frames) /\ Len(Ran(frames)) = n /\ Ran(frames)[n] = f
      /\ \A i \in 1..n : i # n => Ran(frames)[i] = frames[i]
  BY <1>1, <1>2, <1>3, ExceptSeq
<1> QED BY <1>1, <1>2, <1>4

\* The body of a keyword writes to the run that is being written, and leaves the
\* sessions to it.
LEMMA BodyKeeps ==
  ASSUME IInv, NEW kw, Body(kw), NEW n \in Nat,
         raised' \in BOOLEAN, UNCHANGED <<enabled, current, made, alive>>,
         run' = WriteTo(run, current, n),
         sessions' \subseteq Aliases, IsFiniteSet(sessions'),
         traced' \in [Aliases -> Runs \cup {NoRun}],
         enabled => \A a \in sessions' : traced'[a] = current,
         ~enabled => \A a \in Aliases : traced'[a] = NoRun
  PROVE  IInv' /\ RunMoves
<1> USE DEF IInv
<1>0. /\ made \in 0..MaxRuns /\ current \in 0..made /\ calls \in Seq(Frames)
      /\ run \in [Runs -> RunStates] /\ Len(calls) \in 1..2
  <2>1. calls \in Seq(Frames) /\ calls # <<>> /\ Len(calls) <= 2
    BY DEF Types, StackShape, Body, Running
  <2>2. Len(calls) \in Nat \ {0}
    BY <2>1, EmptySeq
  <2>3. Len(calls) \in 1..2
    <3>1. \A m \in Nat \ {0} : m <= 2 => m \in 1..2
      OBVIOUS
    <3> QED BY <2>1, <2>2, <3>1
  <2>4. made \in 0..MaxRuns /\ current \in 0..made /\ run \in [Runs -> RunStates]
    BY DEF Types
  <2> QED BY <2>1, <2>3, <2>4
<1>1. /\ calls' \in Seq(Frames) /\ Len(calls') = Len(calls) /\ ~calls[Len(calls)].ran
      /\ \A i \in 1..Len(calls) : calls'[i].kw = calls[i].kw /\ calls'[i].run = calls[i].run
      /\ \A i \in 1..Len(calls) : i # Len(calls) => calls'[i] = calls[i]
  <2>1. Len(calls) > 0 /\ calls' = Ran(calls) /\ ~calls[Len(calls)].ran
    BY <1>0 DEF Body, Running, top
  <2> QED BY <1>0, <2>1, RanFrames
<1>2. /\ OnlyRun(run, run', current)
      /\ \A q \in Runs : run'[q].verdict = run[q].verdict
                      /\ run'[q].unwritten = run[q].unwritten
  BY <1>0, WriteToIsOnlyRun
<1>3. \A i \in 1..Len(calls) : calls[i].run = current
  BY <1>0, <1>1 DEF FramesAreCurrent, SealedUnder
<1>4. alive
  <2>1. calls # <<>>
    BY DEF Body, Running
  <2> QED BY <2>1 DEF OthersAreOver
<1>5. CurrentIsOpen' /\ OthersAreOver' /\ RunMoves
  BY <1>2, <1>4, RunsKeep
<1>6. Types'
  BY <1>0, <1>1, <1>2 DEF Types, OnlyRun
<1>7. StackShape'
  BY <1>0, <1>1 DEF StackShape
<1>8. FramesAreCurrent'
  BY <1>0, <1>1, <1>3 DEF FramesAreCurrent
<1>9. enabled => current # NoRun
  BY <1>0, <1>3 DEF FramesAreCurrent
<1>10. TracedIsCurrent'
  BY <1>9 DEF TracedIsCurrent
<1> QED BY <1>5, <1>6, <1>7, <1>8, <1>10

\* A keyword is recorded in the current run, or in a new one.
LEMMA EnterKeeps ==
  ASSUME IInv, NEW kw \in KeywordKinds, Enter(kw), alive,
         \/ calls = <<>> /\ kw \in Keywords
         \/ /\ Len(calls) = 1 /\ ~calls[1].ran
            /\ \/ calls[1].kw = "outer" /\ kw \in {"driver", "open"}
               \/ calls[1].kw = "disconnectDmm" /\ kw = "close"
  PROVE  IInv' /\ RunMoves
<1> USE DEF IInv
<1> DEFINE most == IF NewRun THEN made + 1 ELSE made
<1>0. /\ made \in 0..MaxRuns /\ current \in 0..made /\ calls \in Seq(Frames)
      /\ run \in [Runs -> RunStates] /\ Len(calls) \in {0, 1}
  BY DEF Types
<1>1. /\ NewRun => made < MaxRuns
      /\ current' = Ensured /\ made' = most /\ run' = WriteTo(Started, Ensured, 1)
      /\ calls' = Append(calls, [kw |-> kw, run |-> Ensured, ran |-> FALSE])
      /\ raised' = FALSE /\ UNCHANGED <<enabled, sessions, traced, bundle, alive>>
  BY DEF Enter
<1>2. /\ most \in 0..MaxRuns /\ Ensured \in 0..most
      /\ Ensured # NoRun <=> enabled
      /\ NewRun => current = NoRun /\ enabled /\ Ensured = made + 1
      /\ OnlyRun(run, Started, Ensured)
      /\ Ensured # NoRun => Started[Ensured].verdict = Open
      /\ \A r \in Runs : r > most => Started[r] = EmptyRun
      /\ Ensured # NoRun => run[Ensured].verdict = Open
  BY <1>1, EnsuredRun
<1>3. most >= made /\ (~NewRun => most = made /\ Ensured = current)
  BY <1>0 DEF NewRun
<1> HIDE DEF most
<1>4. Ensured \in Runs \cup {NoRun} /\ Started \in [Runs -> RunStates]
  BY <1>2 DEF OnlyRun
<1>5. /\ OnlyRun(Started, run', Ensured)
      /\ \A q \in Runs : run'[q].verdict = Started[q].verdict
                      /\ run'[q].unwritten = Started[q].unwritten
  <2> DEFINE w == WriteTo(Started, Ensured, 1)
  <2>1. run' = w
    BY <1>1
  <2>2. /\ OnlyRun(Started, w, Ensured)
        /\ \A q \in Runs : w[q].verdict = Started[q].verdict
                        /\ w[q].unwritten = Started[q].unwritten
    <3>1. 1 \in Nat
      OBVIOUS
    <3> HIDE DEF IInv
    <3> QED BY <1>4, <3>1, WriteToIsOnlyRun
  <2> HIDE DEF w
  <2> QED BY <2>1, <2>2
<1>6. OnlyRun(run, run', Ensured)
  <2>1. CASE Ensured = NoRun
    BY <2>1, <1>2, <1>5 DEF OnlyRun
  <2>2. CASE Ensured \in Runs
    <3>1. Started[Ensured].verdict = run[Ensured].verdict
      BY <1>2, <2>2
    <3>2. run'[Ensured] = run[Ensured] \/ GoesOn(run[Ensured], run'[Ensured])
      BY <1>0, <1>2, <1>4, <1>5, <2>2, <3>1, GoesOnIsTransitive DEF OnlyRun
    <3> QED BY <1>2, <1>5, <3>2 DEF OnlyRun
  <2> QED BY <1>4, <2>1, <2>2
<1>7. RunMoves
  BY <1>2, <1>4, <1>6 DEF RunMoves
<1>8. /\ calls' \in Seq(Frames) /\ Len(calls') = Len(calls) + 1
      /\ \A i \in 1..Len(calls) : calls'[i] = calls[i]
      /\ calls'[Len(calls')].kw = kw /\ calls'[Len(calls')].run = Ensured
      /\ ~calls'[Len(calls')].ran
  BY <1>0, <1>1, <1>4 DEF Frames
<1>9. Types'
  BY <1>0, <1>1, <1>2, <1>5, <1>8 DEF Types, OnlyRun
<1>10. StackShape'
  BY <1>0, <1>8 DEF StackShape
<1>11. CurrentIsOpen'
  BY <1>0, <1>1, <1>2, <1>3, <1>5 DEF CurrentIsOpen, OnlyRun
<1>12. FramesAreCurrent'
  <2>1. \A i \in 1..Len(calls) : calls[i].run = current /\ Ensured = current
    BY <1>0, <1>2, <1>3 DEF FramesAreCurrent, SealedUnder
  <2>2. \A i \in 1..Len(calls') : calls'[i].run = Ensured
    BY <1>0, <1>8, <2>1
  <2> QED BY <1>1, <1>2, <2>2 DEF FramesAreCurrent
<1>13. TracedIsCurrent'
  BY <1>1, <1>2, <1>3 DEF TracedIsCurrent
<1>14. OthersAreOver'
  <2>1. \A r \in 1..most : r # Ensured => r \in 1..made /\ r # current /\ Started[r] = run[r]
    <3>1. CASE NewRun
      BY <3>1, <1>0, <1>2 DEF OnlyRun, most
    <3>2. CASE ~NewRun
      BY <3>2, <1>0, <1>2, <1>3 DEF OnlyRun
    <3> QED BY <3>1, <3>2
  <2>2. \A r \in 1..most : r = Ensured \/ Started[r].verdict # Open \/ Started[r].unwritten
    BY <2>1 DEF OthersAreOver
  <2>3. 1..most \subseteq Runs
    BY <1>2
  <2> QED BY <1>1, <1>5, <2>2, <2>3 DEF OthersAreOver
<1> QED BY <1>7, <1>9, <1>10, <1>11, <1>12, <1>13, <1>14

\* Nothing is written to a run.
LEMMA NoWrite ==
  ASSUME NEW runs \in [Runs -> RunStates], NEW r \in Runs \cup {NoRun}
  PROVE  WriteTo(runs, r, 0) = runs
<1>1. CASE r = NoRun
  BY <1>1 DEF WriteTo
<1>2. CASE r \in Runs
  <2> DEFINE v == Written(runs[r], 0)
  <2>1. v = runs[r]
    BY <1>2, WrittenGoesOn
  <2>2. WriteTo(runs, r, 0) = [runs EXCEPT ![r] = v]
    BY <1>2 DEF WriteTo
  <2> HIDE DEF v
  <2> QED BY <2>1, <2>2
<1> QED BY <1>1, <1>2

\* The bodies of the keywords that use, open and close sessions.
LEMMA BodiesKeep ==
  ASSUME IInv,
         \/ \E a \in Aliases : UseDriver(a) \/ OpenSession(a) \/ CloseSession(a)
         \/ CloseAll
  PROVE  IInv' /\ RunMoves
<1>0. /\ run \in [Runs -> RunStates] /\ current \in Runs \cup {NoRun}
      /\ sessions \subseteq Aliases /\ IsFiniteSet(sessions)
      /\ traced \in [Aliases -> Runs \cup {NoRun}]
      /\ enabled => \A a \in sessions : traced[a] = current
      /\ ~enabled => current = NoRun /\ \A a \in Aliases : traced[a] = NoRun
  BY DEF IInv, Types, TracedIsCurrent
<1>1. run = WriteTo(run, current, 0)
  BY <1>0, NoWrite
<1>2. \A a \in sessions : traced[a] = current
  BY <1>0, Zenon DEF IInv, Types
<1>3. Cardinality(sessions) \in Nat
  BY <1>0, FS_CardinalityType
<1>4. ASSUME NEW a \in Aliases, UseDriver(a) PROVE IInv' /\ RunMoves
  <2>1. /\ Body("driver") /\ UNCHANGED <<enabled, sessions, traced, current, made, alive>>
        /\ raised' \in BOOLEAN
    BY <1>4 DEF UseDriver
  <2>2. PICK n \in {0, 1} : run' = WriteTo(run, current, n)
    BY <1>1, <1>2, <1>4 DEF UseDriver
  <2> QED BY <1>0, <2>1, <2>2, BodyKeeps
<1>5. ASSUME NEW a \in Aliases, OpenSession(a) PROVE IInv' /\ RunMoves
  <2>1. Body("open") /\ UNCHANGED <<enabled, current, made, alive>> /\ raised' \in BOOLEAN
    BY <1>5, Zenon DEF OpenSession
  <2>2. PICK n \in {1, 2} : run' = WriteTo(run, current, n)
    BY <1>5 DEF OpenSession
  <2>3. /\ sessions' \subseteq Aliases /\ sessions' \in {sessions, sessions \cup {a}}
        /\ traced' \in [Aliases -> Runs \cup {NoRun}]
        /\ enabled => \A b \in sessions' : traced'[b] = current
        /\ ~enabled => \A b \in Aliases : traced'[b] = NoRun
    BY <1>0, <1>5 DEF OpenSession
  <2>4. IsFiniteSet(sessions')
    BY <1>0, <2>3, FS_AddElement
  <2> QED BY <2>1, <2>2, <2>3, <2>4, BodyKeeps
<1>6. ASSUME NEW a \in Aliases, CloseSession(a) PROVE IInv' /\ RunMoves
  <2>1. /\ Body("close") /\ UNCHANGED <<enabled, traced, current, made, alive>>
        /\ raised' \in BOOLEAN /\ sessions' = sessions \ {a}
    BY <1>6 DEF CloseSession
  <2>2. PICK n \in {0, 1} : run' = WriteTo(run, current, n)
    BY <1>1, <1>2, <1>6 DEF CloseSession
  <2>3. IsFiniteSet(sessions') /\ sessions' \subseteq Aliases
    BY <1>0, <2>1, FS_RemoveElement
  <2> QED BY <1>0, <2>1, <2>2, <2>3, BodyKeeps
<1>7. ASSUME CloseAll PROVE IInv' /\ RunMoves
  <2>1. /\ Body("closeAll") /\ UNCHANGED <<enabled, traced, current, made, alive>>
        /\ raised' \in BOOLEAN /\ sessions' = {}
        /\ run' = WriteTo(run, current, Cardinality(sessions))
    BY <1>7 DEF CloseAll
  <2>2. IsFiniteSet(sessions') /\ sessions' \subseteq Aliases
    BY <2>1, FS_EmptySet
  <2> QED BY <1>0, <1>3, <2>1, <2>2, BodyKeeps
<1> QED BY <1>4, <1>5, <1>6, <1>7

\* Export Diagnostic Bundle writes to the current run, or to a new one.
LEMMA ExportKeeps ==
  ASSUME IInv, ExportDiagnosticBundle
  PROVE  IInv' /\ RunMoves
<1> USE DEF IInv
<1> DEFINE most == IF NewRun THEN made + 1 ELSE made
<1>0. /\ made \in 0..MaxRuns /\ current \in 0..made /\ calls = <<>> /\ alive
      /\ run \in [Runs -> RunStates] /\ (NewRun => made < MaxRuns)
      /\ current' = Ensured /\ made' = most
      /\ UNCHANGED <<enabled, sessions, traced, calls, raised, alive>>
  BY DEF Types, ExportDiagnosticBundle
<1>1. /\ most \in 0..MaxRuns /\ Ensured \in 0..most
      /\ Ensured # NoRun <=> enabled
      /\ NewRun => current = NoRun /\ enabled /\ Ensured = made + 1
      /\ OnlyRun(run, Started, Ensured)
      /\ Ensured # NoRun => Started[Ensured].verdict = Open
      /\ \A r \in Runs : r > most => Started[r] = EmptyRun
      /\ Ensured # NoRun => run[Ensured].verdict = Open
  BY <1>0, EnsuredRun
<1>2. most >= made /\ (~NewRun => most = made /\ Ensured = current)
  BY <1>0 DEF NewRun
<1>3. \A r \in 1..most : r # Ensured => r \in 1..made /\ r # current /\ Started[r] = run[r]
  <2>1. CASE NewRun
    BY <2>1, <1>0, <1>1 DEF OnlyRun, most
  <2>2. CASE ~NewRun
    BY <2>2, <1>0, <1>1, <1>2 DEF OnlyRun
  <2> QED BY <2>1, <2>2
<1> HIDE DEF most
<1>4. Ensured \in Runs \cup {NoRun} /\ Started \in [Runs -> RunStates]
  BY <1>1 DEF OnlyRun
<1>5. /\ OnlyRun(Started, run', Ensured)
      /\ \A q \in Runs : run'[q].verdict = Started[q].verdict
  <2>1. CASE run' = Started
    BY <2>1, <1>4 DEF OnlyRun
  <2>2. CASE enabled /\ \/ run' = [Started EXCEPT ![Ensured] = Exported(@).run]
                        \/ run' = [Started EXCEPT
                                     ![Ensured] = Written(Failed(Written(@, 2)), 2)]
    <3> DEFINE u == Started[Ensured]
               v == Exported(u).run
               w == Written(Failed(Written(u, 2)), 2)
    <3>1. Ensured \in Runs /\ u \in RunStates
      BY <2>2, <1>1, <1>4
    <3>2. v \in RunStates /\ v.verdict = u.verdict /\ GoesOn(u, v)
      BY <3>1, ExportedGoesOn
    <3>3. w \in RunStates /\ w.verdict = u.verdict /\ GoesOn(u, w)
      BY <3>1, ExportedGoesOn
    <3>4. run' = [Started EXCEPT ![Ensured] = v] \/ run' = [Started EXCEPT ![Ensured] = w]
      BY <2>2
    <3> HIDE DEF v, w
    <3> QED BY <1>4, <3>1, <3>2, <3>3, <3>4 DEF OnlyRun
  <2> QED BY <2>1, <2>2 DEF ExportDiagnosticBundle
<1>6. OnlyRun(run, run', Ensured)
  <2>1. CASE Ensured = NoRun
    BY <2>1, <1>1, <1>5 DEF OnlyRun
  <2>2. CASE Ensured \in Runs
    <3>1. Started[Ensured].verdict = run[Ensured].verdict
      BY <1>1, <2>2
    <3>2. run'[Ensured] = run[Ensured] \/ GoesOn(run[Ensured], run'[Ensured])
      BY <1>0, <1>1, <1>4, <1>5, <2>2, <3>1, GoesOnIsTransitive DEF OnlyRun
    <3> QED BY <1>1, <1>5, <3>2 DEF OnlyRun
  <2> QED BY <1>4, <2>1, <2>2
<1>7. RunMoves
  BY <1>1, <1>4, <1>6 DEF RunMoves
<1>8. Types' /\ StackShape' /\ FramesAreCurrent'
  BY <1>0, <1>1, <1>5 DEF Types, OnlyRun, StackShape, FramesAreCurrent
<1>9. CurrentIsOpen'
  BY <1>0, <1>1, <1>2, <1>5 DEF CurrentIsOpen, OnlyRun
<1>10. TracedIsCurrent'
  BY <1>0, <1>1, <1>2 DEF TracedIsCurrent
<1>11. OthersAreOver'
  <2>1. \A r \in 1..most : r = Ensured \/ run'[r].verdict # Open \/ run'[r].unwritten
    BY <1>1, <1>3, <1>5 DEF OthersAreOver, OnlyRun
  <2> QED BY <1>0, <2>1 DEF OthersAreOver
<1> QED BY <1>7, <1>8, <1>9, <1>10, <1>11

\* The end of the suite seals the run that is being written, or could not write it.
LEMMA ListenerKeeps ==
  ASSUME IInv, ListenerClose
  PROVE  IInv' /\ RunMoves
<1> USE DEF IInv
<1>0. /\ made \in 0..MaxRuns /\ current \in 0..made /\ calls = <<>>
      /\ run \in [Runs -> RunStates] /\ alive' = FALSE /\ sessions' = {} /\ current' = NoRun
      /\ UNCHANGED <<enabled, traced, made, calls, raised>>
  BY DEF Types, ListenerClose
<1>1. Cardinality(sessions) \in Nat
  BY FS_CardinalityType DEF Types
<1>2. /\ OnlyRun(run, run', current)
      /\ current # NoRun => run'[current].verdict # Open \/ run'[current].unwritten
  <2>1. CASE current = NoRun
    BY <1>0, <2>1 DEF ListenerClose, OnlyRun
  <2>2. CASE current # NoRun
    <3>1. PICK u \in ListenerSeals(run[current]) : run' = [run EXCEPT ![current] = u]
      BY <2>2 DEF ListenerClose
    <3>2. current \in Runs /\ run[current] \in RunStates /\ run[current].verdict = Open
      BY <1>0, <2>2 DEF CurrentIsOpen
    <3>3. /\ u \in RunStates /\ GoesOn(run[current], u)
          /\ u.verdict # Open \/ u.unwritten
      BY <1>1, <3>1, <3>2, ListenerGoesOn
    <3> QED BY <1>0, <3>1, <3>2, <3>3 DEF OnlyRun
  <2> QED BY <2>1, <2>2
<1>3. RunMoves
  BY <1>0, <1>2 DEF RunMoves, CurrentIsOpen
<1>4. Types'
  <2>1. sessions' \subseteq Aliases /\ IsFiniteSet(sessions') /\ alive' \in BOOLEAN
    BY <1>0, FS_EmptySet
  <2> QED BY <1>0, <1>2, <2>1 DEF Types, OnlyRun
<1>5. StackShape' /\ FramesAreCurrent' /\ TracedIsCurrent'
  BY <1>0 DEF StackShape, FramesAreCurrent, TracedIsCurrent
<1>6. CurrentIsOpen' /\ OthersAreOver'
  BY <1>0, <1>2 DEF CurrentIsOpen, OthersAreOver, OnlyRun
<1> QED BY <1>3, <1>4, <1>5, <1>6

\* What is left of the calls when the innermost has returned.
LEMMA OuterCalls ==
  ASSUME NEW frames \in Seq(Frames), Len(frames) \in 1..2,
         NEW rest, LET outer == SubSeq(frames, 1, Len(frames) - 1)
                   IN rest = IF outer = <<>> THEN outer ELSE Ran(outer)
  PROVE  /\ rest \in Seq(Frames) /\ Len(rest) = Len(frames) - 1
         /\ Len(frames) = 1 => rest = <<>>
         /\ Len(frames) = 2 => rest[1].kw = frames[1].kw /\ rest[1].run = frames[1].run
                               /\ rest[1].ran
<1> DEFINE outer == SubSeq(frames, 1, Len(frames) - 1)
           n == Len(frames)
<1>0. n = 1 \/ n = 2
  OBVIOUS
<1>1. \A i \in 1..(n - 1) : frames[i] \in Frames
  BY ElementOfSeq
<1>2. /\ outer \in Seq(Frames) /\ Len(outer) = IF 1 <= n - 1 THEN n - 1 - 1 + 1 ELSE 0
      /\ \A i \in 1..(n - 1 - 1 + 1) : outer[i] = frames[1 + i - 1]
  BY <1>1, SubSeqProperties
<1>3. rest = IF outer = <<>> THEN outer ELSE Ran(outer)
  OBVIOUS
<1> HIDE DEF outer
<1>4. CASE n = 1
  <2>1. Len(outer) = 0
    BY <1>2, <1>4
  <2>2. outer = <<>>
    BY <1>2, <2>1, EmptySeq
  <2> QED BY <1>2, <1>3, <1>4, <2>1, <2>2
<1>5. CASE n = 2
  <2>1. Len(outer) = 1 /\ outer[1] = frames[1]
    BY <1>2, <1>5
  <2>2. outer # <<>>
    <3>1. Len(<<>>) = 0
      OBVIOUS
    <3> QED BY <2>1, <3>1
  <2>3. rest = Ran(outer)
    BY <1>3, <2>2
  <2>4. /\ rest \in Seq(Frames) /\ Len(rest) = 1
        /\ rest[1].kw = outer[1].kw /\ rest[1].run = outer[1].run /\ rest[1].ran
    BY <1>2, <2>1, <2>3, RanFrames
  <2> QED BY <1>5, <2>1, <2>4
<1> QED BY <1>0, <1>4, <1>5

\* A keyword that returns is recorded, and seals the run when it closed the last
\* session; the keyword that called it goes on in the same run, or, when it is
\* Disconnect DMM, in the sealed one.
LEMMA ReturnKeeps ==
  ASSUME IInv, Return
  PROVE  IInv' /\ RunMoves
<1> USE DEF IInv
<1> DEFINE r == top.run
<1>0. /\ made \in 0..MaxRuns /\ current \in 0..made /\ calls \in Seq(Frames)
      /\ run \in [Runs -> RunStates] /\ calls # <<>> /\ top.ran
      /\ UNCHANGED <<enabled, sessions, traced, made, bundle, alive>>
      /\ alive /\ alive' = alive
  BY DEF Types, Return, OthersAreOver
<1>1. Len(calls) \in 1..2 /\ top = calls[Len(calls)]
  <2>1. Len(calls) \in Nat \ {0} /\ Len(calls) <= 2
    BY <1>0, EmptySeq DEF StackShape
  <2>2. \A n \in Nat \ {0} : n <= 2 => n \in 1..2
    OBVIOUS
  <2> QED BY <2>1, <2>2 DEF top
<1>2. top \in Frames
  BY <1>0, <1>1, ElementOfSeq
<1>3. /\ calls' \in Seq(Frames) /\ Len(calls') = Len(calls) - 1
      /\ Len(calls) = 1 => calls' = <<>>
      /\ Len(calls) = 2 => calls'[1].kw = calls[1].kw /\ calls'[1].run = calls[1].run
                           /\ calls'[1].ran
  <2> DEFINE outer == SubSeq(calls, 1, Len(calls) - 1)
  <2>1. calls' = IF outer = <<>> THEN outer ELSE Ran(outer)
    BY DEF Return
  <2> HIDE DEF IInv
  <2> QED BY <1>0, <1>1, <2>1, OuterCalls
<1>4. raised' \in BOOLEAN
  <2>1. raised \in BOOLEAN
    BY DEF Types
  <2>2. \E error \in BOOLEAN : raised' \in {FALSE} \/ raised' \in {error, TRUE}
                               \/ raised' \in {error}
    BY <2>1, Zenon DEF Return
  <2> QED BY <2>2
<1>5. PICK u \in IF r = NoRun THEN {EmptyRun} ELSE Ended(run[r], top.kw) :
        /\ run' = IF r = NoRun THEN run ELSE [run EXCEPT ![r] = u]
        /\ current' = IF Seals(top.kw) /\ (r = NoRun \/ u.verdict # Open)
                      THEN NoRun ELSE current
  BY DEF Return
<1>6. StackShape'
  <2>1. CASE Len(calls) = 1
    BY <1>3, <2>1 DEF StackShape
  <2>2. CASE Len(calls) = 2
    BY <1>3, <2>2 DEF StackShape
  <2> QED BY <1>1, <2>1, <2>2
<1> HIDE DEF r
<1>7. CASE r = NoRun
  <2>1. current = NoRun /\ ~enabled /\ \A i \in 1..Len(calls) : calls[i].run = NoRun
    BY <1>1, <1>7 DEF FramesAreCurrent, SealedUnder, r
  <2>2. run' = run /\ current' = NoRun
    BY <1>5, <1>7, <2>1
  <2>3. RunMoves
    BY <1>0, <2>2 DEF RunMoves, OnlyRun
  <2>4. Types'
    BY <1>0, <1>3, <1>4, <2>2 DEF Types
  <2>5. FramesAreCurrent'
    BY <1>0, <1>1, <1>3, <2>1, <2>2 DEF FramesAreCurrent
  <2>6. CurrentIsOpen' /\ TracedIsCurrent' /\ OthersAreOver'
    BY <1>0, <2>1, <2>2 DEF CurrentIsOpen, TracedIsCurrent, OthersAreOver
  <2> QED BY <1>6, <2>3, <2>4, <2>5, <2>6
<1>8. CASE r # NoRun
  <2>0. r \in Runs /\ u \in Ended(run[r], top.kw) /\ run' = [run EXCEPT ![r] = u]
        /\ r \in 0..made
    BY <1>0, <1>1, <1>2, <1>5, <1>8 DEF Frames, r, FramesAreCurrent, SealedUnder
  <2>1. /\ u \in RunStates /\ GoesOn(run[r], u)
        /\ ~Seals(top.kw) \/ run[r].verdict # Open => u.verdict = run[r].verdict
        /\ Seals(top.kw) => u.verdict # Open \/ u.unwritten
    BY <1>0, <2>0, EndedGoesOn
  <2>2. OnlyRun(run, run', r)
    BY <1>0, <2>0, <2>1 DEF OnlyRun
  <2>3. current' = IF Seals(top.kw) /\ u.verdict # Open THEN NoRun ELSE current
    BY <1>5, <1>8
  <2>4. Types'
    <3>1. current' \in 0..made
      BY <1>0, <2>3
    <3>2. run' \in [Runs -> RunStates]
      BY <2>2 DEF OnlyRun
    <3> QED BY <1>0, <1>3, <1>4, <3>1, <3>2 DEF Types
  <2>5. TracedIsCurrent'
    BY <1>0, <2>3 DEF TracedIsCurrent, Seals
  <2>6. CASE r = current
    <3>1. run[r].verdict = Open
      BY <1>8, <2>6 DEF CurrentIsOpen
    <3>2. RunMoves
      BY <2>0, <2>2, <3>1 DEF RunMoves
    <3>3. CurrentIsOpen'
      BY <1>0, <2>0, <2>1, <2>3, <2>6, <3>1 DEF CurrentIsOpen
    <3>4. OthersAreOver'
      BY <1>0, <2>0, <2>1, <2>3, <2>6, <3>1 DEF OthersAreOver
    <3>5. FramesAreCurrent'
      <4>1. CASE Len(calls) = 1
        BY <1>3, <4>1 DEF FramesAreCurrent
      <4>2. CASE Len(calls) = 2
        <5>1. calls'[1].run = r /\ Len(calls') = 1 /\ calls'[1].ran
              /\ calls'[1].kw = calls[1].kw
          BY <1>3, <2>6, <4>2 DEF FramesAreCurrent
        <5>2. current' # current => SealedUnder(calls[1])'
          <6>1. ASSUME current' # current
                PROVE  Seals(top.kw) /\ u.verdict # Open /\ current' = NoRun
            BY <2>3, <6>1
          <6>2. Seals(top.kw) => calls[1].kw = "disconnectDmm"
            BY <1>1, <4>2 DEF Seals, Closing, StackShape
          <6> QED BY <1>0, <1>8, <2>0, <5>1, <6>1, <6>2 DEF SealedUnder
        <5>3. \A i \in 1..Len(calls') : i = 1
          BY <5>1
        <5> QED BY <1>8, <2>6, <5>1, <5>2, <5>3 DEF FramesAreCurrent
      <4> QED BY <1>1, <4>1, <4>2
    <3> QED BY <1>6, <2>4, <2>5, <3>2, <3>3, <3>4, <3>5
  <2>7. CASE r # current
    <3>1. Len(calls) = 1 /\ SealedUnder(top)
      BY <1>1, <2>7 DEF FramesAreCurrent, r
    <3>2. current' = NoRun /\ current = NoRun /\ run[r].verdict # Open
      BY <2>3, <3>1 DEF SealedUnder, r
    <3>3. u.verdict = run[r].verdict
      BY <2>1, <3>2
    <3>4. RunMoves
      BY <1>0, <2>0, <2>2, <3>1 DEF RunMoves, SealedUnder
    <3>5. CurrentIsOpen' /\ OthersAreOver'
      BY <1>0, <2>0, <3>2, <3>3 DEF CurrentIsOpen, OthersAreOver
    <3>6. FramesAreCurrent'
      BY <1>3, <3>1 DEF FramesAreCurrent
    <3> QED BY <1>6, <2>4, <2>5, <3>4, <3>5, <3>6
  <2> QED BY <2>6, <2>7
<1> QED BY <1>7, <1>8

\* Every step preserves the invariant and makes one run at most go on.
LEMMA StepKeeps == IInv /\ Next => IInv' /\ RunMoves
<1> SUFFICES ASSUME IInv, Next PROVE IInv' /\ RunMoves
  OBVIOUS
<1>1. ASSUME NEW kw \in Keywords \ {"export"}, CallKeyword(kw) PROVE IInv' /\ RunMoves
  <2>1. kw \in KeywordKinds /\ alive /\ calls = <<>> /\ Enter(kw)
    BY <1>1 DEF KeywordKinds, CallKeyword
  <2> QED BY <2>1, EnterKeeps
<1>2. ASSUME CallNested PROVE IInv' /\ RunMoves
  <2>1. PICK outer \in DOMAIN Calls : Running(outer) /\ \E kw \in Calls[outer] : Enter(kw)
    BY <1>2 DEF CallNested
  <2> PICK kw \in Calls[outer] : Enter(kw)
    BY <2>1
  <2>2. \/ outer = "outer" /\ kw \in {"driver", "open"}
        \/ outer = "disconnectDmm" /\ kw = "close"
    BY DEF Calls
  <2>3. calls \in Seq(Frames) /\ calls # <<>> /\ Len(calls) <= 2 /\ top.kw = outer /\ ~top.ran
    BY <2>1 DEF Running, IInv, Types, StackShape
  <2>4. Len(calls) \in Nat \ {0}
    BY <2>3, EmptySeq
  <2>5. Len(calls) # 2
    BY <2>2, <2>3 DEF IInv, StackShape, top
  <2>6. Len(calls) = 1
    <3>1. \A n \in Nat \ {0} : n <= 2 /\ n # 2 => n = 1
      OBVIOUS
    <3> QED BY <2>3, <2>4, <2>5, <3>1
  <2>7. top = calls[1] /\ alive /\ kw \in KeywordKinds
    BY <2>2, <2>3, <2>6 DEF top, IInv, OthersAreOver, KeywordKinds
  <2> QED BY <2>1, <2>2, <2>3, <2>6, <2>7, EnterKeeps
<1>3. CASE \/ \E a \in Aliases : UseDriver(a) \/ OpenSession(a) \/ CloseSession(a)
           \/ CloseAll
  BY <1>3, BodiesKeep
<1>4. CASE ExportDiagnosticBundle \/ Return \/ ListenerClose
  BY <1>4, ExportKeeps, ReturnKeeps, ListenerKeeps
<1> QED BY <1>1, <1>2, <1>3, <1>4 DEF Next

\* A stutter changes nothing.
LEMMA StutterKeeps == IInv /\ UNCHANGED vars => IInv'
BY DEF IInv, vars, state, Types, StackShape, CurrentIsOpen, FramesAreCurrent, SealedUnder,
       TracedIsCurrent, OthersAreOver

LEMMA Inductive == Spec => []IInv
<1>1. IInv /\ [Next]_vars => IInv'
  BY StepKeeps, StutterKeeps
<1> QED BY InitOK, <1>1, PTL DEF Spec
-----------------------------------------------------------------------------
(* The theorems.                                                           *)

\* However keywords open, replace and close sessions, the traffic of each goes into
\* the run that is being written.
THEOREM TrafficIsRecorded == Spec => []TrafficReachesTheRun
<1>1. IInv => TrafficReachesTheRun
  BY DEF IInv, TracedIsCurrent, TrafficReachesTheRun
<1> QED BY Inductive, <1>1, PTL

\* When the listener's close() has ended the suite, no run is left open but one that
\* could not be written.
THEOREM EndSeals == Spec => []SuiteEndSeals
<1>1. IInv => SuiteEndSeals
  BY DEF IInv, Types, OthersAreOver, SuiteEndSeals
<1> QED BY Inductive, <1>1, PTL

\* Without Disconnect DMM only an open run goes on.
LEMMA OnlyOpenRunsGoOn ==
  ASSUME "disconnectDmm" \notin Keywords, IInv, RunMoves
  PROVE  \E r \in Runs \cup {NoRun} :
           OnlyRun(run, run', r) /\ (r \in Runs => run[r].verdict = Open)
<1>1. PICK r \in Runs \cup {NoRun} :
        /\ OnlyRun(run, run', r)
        /\ \/ r \in Runs => run[r].verdict = Open
           \/ calls # <<>> /\ top.kw = "disconnectDmm"
  BY DEF RunMoves
<1>2. ASSUME calls # <<>>, top.kw = "disconnectDmm" PROVE FALSE
  <2>1. calls \in Seq(Frames) /\ Len(calls) \in Nat \ {0} /\ Len(calls) <= 2
    BY <1>2, EmptySeq DEF IInv, Types, StackShape
  <2>2. \A n \in Nat \ {0} : n <= 2 => n = 1 \/ n = 2
    OBVIOUS
  <2>3. Len(calls) = 1 \/ Len(calls) = 2
    BY <2>1, <2>2
  <2> QED BY <1>2, <2>3 DEF IInv, StackShape, top
<1> QED BY <1>1, <1>2

\* In a suite that does not call Disconnect DMM, the manifest of a sealed run covers
\* everything that was ever written to it.
THEOREM SealedRunsValidate ==
  ASSUME "disconnectDmm" \notin Keywords
  PROVE  Spec => []ManifestIsWhole
<1>1. Init => ManifestIsWhole
  BY FreshRun DEF Init, ManifestIsWhole
<1>2. IInv /\ ManifestIsWhole /\ [Next]_vars => ManifestIsWhole'
  <2>1. ASSUME IInv, ManifestIsWhole, Next PROVE ManifestIsWhole'
    <3>1. PICK r \in Runs \cup {NoRun} :
            OnlyRun(run, run', r) /\ (r \in Runs => run[r].verdict = Open)
      BY <2>1, StepKeeps, OnlyOpenRunsGoOn
    <3>2. ASSUME NEW q \in Runs, run'[q].verdict # Open PROVE Validates(run'[q])
      BY <2>1, <3>1, <3>2 DEF OnlyRun, GoesOn, ManifestIsWhole, Validates
    <3> QED BY <3>2 DEF ManifestIsWhole, Validates
  <2>2. ASSUME ManifestIsWhole, UNCHANGED vars PROVE ManifestIsWhole'
    BY <2>2 DEF ManifestIsWhole, Validates, vars, state
  <2> QED BY <2>1, <2>2
<1> QED BY Inductive, <1>1, <1>2, PTL DEF Spec

\* Such a suite's runs are Journals: records are added to one that is open, it is
\* sealed once, not as passed when an operation failed, and nothing of it changes
\* after.
THEOREM RunsAreJournals ==
  ASSUME "disconnectDmm" \notin Keywords
  PROVE  Spec => ImplementsJournal
<1>1. Init => Abstract!JInit
  BY DEF Init, Abstract!JInit, EmptyRun
<1>2. IInv /\ [Next]_vars => [Abstract!JNext]_(Abstract!jvars)
  <2>1. ASSUME IInv, Next PROVE Abstract!JNext \/ UNCHANGED Abstract!jvars
    <3>1. PICK r \in Runs \cup {NoRun} :
            OnlyRun(run, run', r) /\ (r \in Runs => run[r].verdict = Open)
      BY <2>1, StepKeeps, OnlyOpenRunsGoOn
    <3>2. CASE r \in Runs /\ GoesOn(run[r], run'[r])
      <4>1. Abstract!Record(r)
        BY <3>1, <3>2 DEF Abstract!Record, GoesOn
      <4>2. \A q \in Runs \ {r} : Abstract!Same(q)
        BY <3>1 DEF Abstract!Same, OnlyRun
      <4> QED BY <3>2, <4>1, <4>2 DEF Abstract!JNext
    <3>3. CASE ~(r \in Runs /\ GoesOn(run[r], run'[r]))
      <4>1. \A q \in Runs : run'[q] = run[q]
        BY <3>1, <3>3 DEF OnlyRun
      <4> QED BY <4>1 DEF Abstract!jvars
    <3> QED BY <3>2, <3>3
  <2>2. ASSUME UNCHANGED vars PROVE UNCHANGED Abstract!jvars
    BY <2>2 DEF Abstract!jvars, vars, state
  <2> QED BY <2>1, <2>2
<1> QED BY Inductive, <1>1, <1>2, PTL DEF Spec, ImplementsJournal, Abstract!JSpec

\* An archive holds the manifest of its own moment, and the record of its export.
THEOREM ArchivesAreSnapshots == Spec => []BundleIsASnapshot
<1> DEFINE Inv == BundleIsASnapshot /\ bundle.records \in Nat
<1>1. Init => Inv
  BY DEF Init, NoBundle, BundleIsASnapshot
<1>2. IInv /\ Inv /\ [Next]_vars => Inv'
  <2> SUFFICES ASSUME IInv, Inv, [Next]_vars PROVE Inv'
    OBVIOUS
  <2>1. CASE bundle' = bundle
    BY <2>1 DEF BundleIsASnapshot
  <2>2. CASE ExportDiagnosticBundle /\ enabled /\ bundle' = Exported(Started[Ensured]).bundle
    <3> DEFINE u == Started[Ensured]
               c == Written(WriteManifest(Written(u, 2)), 2)
    <3>1. u \in RunStates
      BY <2>2, EnsuredRun DEF ExportDiagnosticBundle, OnlyRun
    <3>2. c \in RunStates
      <4> DEFINE a == Written(u, 2)
                 b == WriteManifest(a)
      <4>1. a \in RunStates
        BY <3>1, WrittenGoesOn
      <4> HIDE DEF a
      <4>2. b \in RunStates
        BY <4>1 DEF RunStates, WriteManifest
      <4> HIDE DEF b
      <4> QED BY <4>2, WrittenGoesOn DEF b, a
    <3>3. bundle' = LET s == WriteManifest(c)
                    IN [records |-> s.records, manifest |-> s.manifest,
                        completed |-> s.records]
      BY <2>2 DEF Exported
    <3> HIDE DEF c
    <3> QED BY <3>2, <3>3 DEF BundleIsASnapshot, WriteManifest, RunStates
  <2> QED BY <2>1, <2>2
      DEF Next, vars, state, CallKeyword, CallNested, Enter, UseDriver, OpenSession,
          CloseSession, CloseAll, ExportDiagnosticBundle, Return, ListenerClose
<1> QED BY Inductive, <1>1, <1>2, PTL DEF Spec
=============================================================================
