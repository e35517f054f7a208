# Verification of the HP 34401A driver

TLA+ models of the driver for the HP/Agilent/Keysight 34401A multimeter
(`src/hp34401a_dmm`, `src/rf_hp34401a`, `src/hp34401a_gui`), their TLC runs and
TLAPS proofs. The driver's hard part is not arithmetic: an instrument that
answers late, or has obeyed a command whose write timed out, a driver that
remembers what it believes about the instrument, and threads that share both.

## The system

| Component | State | Operations | Correct when |
|---|---|---|---|
| Transport (`transports.py`, serial/VISA variants) | open, `_has_unread_output`, lock, timeout | open, close, write, query, read_raw, write_raw, clear, set_timeout | no query is given the answer to another one |
| Driver, queries and recovery (`legacy_driver.py`) | `_state`, `_in_recovery`, `_op_lock` | query with retry, `_transport_recover`, recover, self_test, write | retries never pick up old answers; recoveries end and leave nothing temporary behind; success means usable |
| Driver, measuring (`legacy_driver.py`) | `_last_configure`, `_active_*`, `_trigger_source`, `_state` | configure_*, measure_*, read_once, read_once_bus, trigger operations, reset, connect, close | a reading is what its label and its caller say; READ? never meets BUS |
| Driver policy (`driver.py`, `config.py`) | `_cfg` | set_communication_timeout, apply_runtime_policy | all or nothing |
| Arithmetic (`legacy_driver.py`, `enums.py`) | none | timeout estimate, range and count validation | not modelled |
| Stability (`stability.py`) | sliding window | read_stable_resistance | reports stable only for a full window inside all limits; ends by max_wait |
| Production (`production.py`, `measurement.py`) | results so far | run_measurement_step, run_sequence, pass_fail | PASS only if all steps passed |
| Parser (`parser.py`) | none | numbers, errors, identity | garbled text never becomes a number |
| Evidence (`evidence.py`) | sequence number, counters, files, finalized | emit_event, record_*, finalize, bundle | manifest agrees with the event log, finalized once |
| Sessions (`sessions.py`) | sessions, active alias, generations | add, select, close, close_all | the active alias names an open session; no driver is lost open |
| Robot library (`*library.py`) | sessions, health cache, policy, evidence | connect, disconnect, keywords, listener close | caches agree with the sessions; cleanup always finishes |
| Configuration (`configuration.py`) | effective document, profiles on disk | apply, import, save, load, reset | invalid documents change nothing; a profile file is whole |
| GUI worker (`legacy_app.py`) | driver, worker lock, stop event, event queue | connect, disconnect, start, stop, close | stop stops; no driver is left open; the status settles |
| CLI, converters, exceptions, capabilities, plugin, logging, scripts | none that changes | | not modelled |
| `scpi-driver-core` | byte transports, framing | | external; modelled as "the line" |

**How they interact.** A Robot keyword (or GUI button, or CLI command) finds a
driver in the session table and calls it. The driver's public operations call
each other and its `query`/`write`; these call the transport, one call at a time
under the transport's lock. Sequences of calls are to be protected by the
operation lock `_op_lock`, a reentrant lock. `recover()` and `self_test()` do
not take it, and `configure_*`, `reset` and `set_trigger_source` assign what they
remember outside it. A trace callback feeds the evidence run.

**What is hard.** Late answers; writes that time out but take effect; failures
between the parts of a sequence; recovery code whose own queries fail; fields
changed without the lock; `_state`, which any successful query sets back to
`CONNECTED_REMOTE`. Above the driver: caches that several keywords keep, evidence
that must be sealed after the last record and not before, files that processes
share, and a window that stops threads it does not wait for. `PROJECT.json` lists these hazards at their lines.

## The modules

| Module | Role |
|---|---|
| `Transport` | `BaseTransport`, one action per method and outcome; `query()` is two steps, since its lock is held while the instrument works |
| `Exchange` | what the transport promises, without flag, line and sessions |
| `TransportImplements` | the refinement mapping Transport -> Exchange |
| `Recovery` | the driver's query, retry and recovery code on top of `Transport` (INSTANCE), with a stack of activations per thread |
| `Measurement` | configure, measure, trigger and what the driver believes, over a model of the instrument; the transport is reduced to its unread flag |
| `Stability` | the stable-resistance algorithm, reading by reading |
| `Verdicts` | what is concluded from readings: keywords and assertions over the session's last reading, with `Stability` inside one of them (EXTENDS), and production sequences |
| `Sessions` | the session table as a value, its methods as operators |
| `Library` | the keywords that change sessions, health, policy and raw gate, over `Sessions` (EXTENDS) |
| `Evidence` | keyword calls as evidence sees them, nested, and the runs they write |
| `Journal` | what a run promises; `Evidence` is shown to implement it |
| `Configuration` | effective documents of the processes and the profile files they share |
| `GuiWorker` | the window's thread and its workers |
| `MCLibrary`, `MCEvidence`, `MCVerdicts` | the values and symmetries that TLC uses |
| `TransportProofs`, `RecoveryProofs`, `MeasurementProofs`, `ConfigurationProofs`, `GuiWorkerProofs`, `EvidenceProofs`, `LibraryProofs`, `VerdictsProofs` | theorems about the module each extends, with their proofs |

Definitions named `Bug_...` are not part of the model. Each is a plausible wrong
version of the definition after it, and shows that some property would notice.

### Transport

`unread` is `_has_unread_output`, `holder` the thread that is inside `query()`
with the lock, `line` the questions whose answers have not been read. Questions
are numbers in sending order; the instrument answers in that order, whenever it
likes or never. Three variables are history: `asked`, `result`, and `unguarded`,
the questions whose answer may come although the flag is down. An answer gets
there in three ways only: the question came through `write()`, its session was
closed, or a clear or raw read did not drain it. `ClearDrains` says whether a
device clear discards answers in flight; for RS-232 (Ctrl-C and a buffer flush)
the runs allow that it does not.

### Recovery

An activation on a thread's stack is a running method; its steps are the calls
it makes. `query()`, `write()` and `read_once()` wait for `opLock`; the rest do
not. `timeout` is the transport's timeout, one of four values, and `since`
records what a thread has done since its last question. The writes of a
configure, and the three before READ?, are one write here. An exception that is
not an `Hp34401AError` (an answer that does not decode) passes all the handlers:
`QueryEscapes`, `RecoverEscapes`, `RecoverDrainEscapes`. `FlushWaits` states the
assumption on which recovery rests: an answer still in flight after a clear
arrives within the 0.2 s of the flush read. The error-queue queries are named
`SYST:ERR?`; their answers only matter for whether the drain goes on. What the driver
promises is `Exchange` once more, with no strays (`Strict`): where the transport may
let an answer go, a recovery takes it off the line before anybody asks again.
`Cost` is the price of an activation: the steps it may take, with those of all it may
call.

### Measurement

`dmm` is the instrument: function and setting, trigger source, armed, memory
filled. `active`, `recipe`, `trigger` and `state` are what the driver believes.
`active` is the function and the setting that `_build_reading()` writes on a label;
either may be `None`, and `reset()` clears the function only.
A failed sequence of writes leaves the instrument in any state its prefix leads
to, the last write included, because a write that timed out may have been
obeyed. FREQ and PERIOD are "late" functions: their aperture is written after
the bookkeeping and outside the lock. Each assignment made without the lock is
a step of its own, and so is the label of `fetch()`, which is built after the lock of
its query is released. Exceptions: `initiate()` with its state, `recover()`'s test
of `_last_configure` with its use, and the tests of `_trigger_source` in
`trigger_bus()` and `read_query()` with what they send. Not modelled here:
garbled answers, counts and ranges (a range is valid or `Rejected`), and
`thread_safe=False`, which removes the lock. `torn` is history: the instrument
was left half-way or switched off and no configure has succeeded since.

### Stability and Verdicts

Time is counted in ticks and readings are integers; limits are fractions, and
the comparisons with them are multiplied out, so that no rounding decides.
`_linear_slope()` and `_evaluate()` are operators over the window, their sums
recursive functions; the property says the same limits by pairs of readings, each
pair counted twice, which is another formula for variance and slope. A reading takes `Takes` ticks, of which one is the longest (the transport's
timeout bounds it), may be an overload, and may raise.
`Verdicts` keeps of a session only its last reading. An assertion may compare
with any pair of `Limits`; whether it passes is chosen by whether one holds. A
program that runs production sequences calls no keywords, so the two do not mix.

### Sessions and Library

A suite calls one keyword at a time, so a keyword is one step, and what may fail
inside (connecting, closing the replaced driver, the check, the policy) is chosen
in it. Drivers are numbered as they connect; `table.open` holds those whose
transport is open. A driver's timeout and the rest of its policy are named by
where they come from, a document or the keyword that opened it (`Own`). The
schema requires the sections of a document but not their members; `Lacks` says
which section of a document is empty, and reading it raises `KeyError` where the
code reads it. `foreign`, `names`, `applied` and `say` are history.

### Evidence

The files of a run are a count of the changes made to them, a manifest is the
count it was made at. A keyword is a frame on a stack: `Enter` records its
start, its body is one step, `Return` records its end and may seal the run.
Keywords that call keywords (`Connect`, `Get Device Error`) are one kind,
`outer`. `Export Diagnostic Bundle` records itself. `WritesFail` lets the writing
of summary or manifest fail: the run stays open and unsealed.

### Configuration

Saving is: look, open a temporary file, write it, replace; each is a step that
may fail or be the process's last. Two processes of one user share the files, and
people edit them. A document is a body and a profile name.

### GuiWorker

Each button starts a thread that gets `worker_lock` at once or gives up. The
loop's test of the flag and its reading are two steps; so are the release of the
lock and the `Ready` after it. The window's thread polls, sets and clears the
flag, and closes the driver itself when the window is closed, which waits for the
driver's operation lock (`op`). Of the event queue the model keeps only the last
label, since a poll takes everything.

## The runs

The runs of `Transport`, `Recovery` and `Measurement` also check for deadlock;
`Done` and the open-ended `Transport` keep a finished system from counting as
one. The others turn it off: a suite, an operator or a user may stop whenever
they like, and calls are bounded.

| Run | Instance | Shows |
|---|---|---|
| `transport` | 2 threads, 4 questions, clear incomplete, query text in write() | FlagCoversLine, OneOutstanding, NoStaleAnswer, ImplementsExchange |
| `recovery_single` | 1 thread, RS-232, 2 calls, 2 retries, drain 2, clear incomplete | the order and the timeouts that retries and second measurements need; a ready driver is not blocked; own answers, as an exchange without strays |
| `recovery_unlocked` | 2 threads, query/measure/recover, clear complete | nothing left behind, own answers, every call returns and has boundedly many steps to do so |
| `measurement_single` | 1 thread, all 14 operations, 4 calls, 3 functions (one late), 2 settings | TypeOK, ReadingIsLabelled, BusIsNotForgotten |
| `measurement_shared` | 2 threads, 3 calls, 2 functions, 2 settings; measure_*, read_once, read_once_bus, queries, recover | MeasureIsAsked |
| `library` | 2 aliases, 2 resources, 3 drivers, a whole document and two with an empty section, any number of keywords | no driver is forgotten, something is selected, session ids are unique, health is of this driver, policy is uniform |
| `evidence` | 2 aliases, 3 runs, 6 keywords, writes that fail | every run implements `Journal`; traffic, bundle, manifest, end of suite |
| `gui` | 2 worker threads, 5 clicks, 2 drivers | no driver is lost, one more reading, the status settles, Stop ends the loop |
| `configuration` | 2 processes, 1 profile, 1 exported file, 4 keywords or edits | what is effective is valid, profiles are whole, no litter |
| `verdicts` | 4 keywords or 3 steps, 5 values, 4 profiles | a stable result is steady and in time, a pass is about the reading, the verdict of a sequence |

`measurement_shared` leaves out `configure_*`, `set_trigger_source` and `reset`:
these work outside the lock, and with them the property fails (below).
`recovery_unlocked` takes a clear to be complete; with an incomplete one
(`ClearDrains = FALSE`), `NothingLeftBehind` and `OwnAnswersOnly` hold for two
threads only without `recover()` (`Ops = {"query", "write", "measure"}`).

**Bounds.** Two threads show every pairwise race; the properties speak of one
thread and its disturber. Four questions are one more than an answered, a
late and a lost one. Two calls of `Recovery` are an operation and one that meets
what it left; each contains up to a dozen transport calls, and two retries and
two drained errors make the second round of each loop. `MaxQuestions = 30` is
never reached in `Recovery`. Three or four calls of `Measurement` are configure, failure,
a query that hides it, and a read. In `Library` three drivers are one that is
replaced, its successor, and another alias; the keywords are not bounded. Six
keywords of `Evidence` open two sessions, close both and begin another run. Five
clicks of `GuiWorker` are Connect, Start, Stop, Start and one that interferes; a
third thread would only lose the race for the lock. Four calls of
`Configuration` are two saves that meet a load and an edit. Waits of two and three ticks let windows of
two and three readings fill and slide; the values are two of opposite sign, 0, a
neighbour and the overload.

**Fairness.** `CallsReturn` needs weak fairness of each thread's steps, and
`StopEndsTheLoop` that of each worker, of polling and of closing. Every wait on
the instrument ends by a timeout, which is one of the outcomes of a step, and
Python's locks are released by whoever holds them. That a waiting thread gets
the lock is not assumed: calls are finitely many, and workers do not wait. That
anybody presses a button, stops or closes is not assumed.

**Disagreements.** Two runs expect a violation. Each shows a trace in which the
code does what a comment or a document says it does not; the findings in
`PROJECT.json` quote both.

| Run | What happens |
|---|---|
| `half_configured` | a failed configure, a successful query, and a reading with the old label |
| `disconnect_seals` | `Disconnect DMM` calls `Close DMM`, which seals the run; its own end is recorded after, and the manifest no longer fits |

More disagreements can be shown by changing a configuration as given here:

- The drain of `recover()` times out, the report says success, every command is
  refused (`legacy_driver.py:526`): the action property `RecoveredMeansUsable` of
  `Recovery` with `Ops = {"recover"}`.
- A query between `recover()`'s clear and flush gets an old answer (`:501`):
  `OwnAnswersOnly` with two threads, `ClearDrains = FALSE`, `MaxCalls = 3` and
  `Ops = {"query", "recover"}`.
- `measure_*()` measures another thread's configuration (`:655`): `MeasureIsAsked`
  of `Measurement` with two threads and `Ops = {"measure", "configure"}`.
- A rejected range becomes the recipe of the next recovery (`:655`):
  `RecipeIsActive` with `Rejected` added to `Settings` and `Ops = {"configure"}`.
- Query text given to `write()` raises no flag, so the next query is not refused
  (`transports.py:128`); the models do it with `RawQuestions = TRUE`.
- `recover()` sends another thread's READ? out under its 0.2 s (`:506`):
  `ReadHasItsTimeout` with two threads and `Ops = {"measure", "recover"}`.
- `reset()` forgets the active function after its lock is released (`:444`), so
  another thread's measurement is labelled VOLT_DC: `NoFalseLabel` with two
  threads and `Ops = {"measure", "reset"}`.
- `reset()` says that the "state is unconfigured" (`:441`) and keeps `_active_nplc` and
  `_active_aperture` (`:442-445`): after configure at 100 NPLC, `reset()` and
  `initiate()`, `fetch()` returns a reading of the *RST default that says 100
  (`:738`). `ResetForgetsSetting` of `Measurement` with one thread and
  `Ops = {"configure", "reset", "initiate", "fetch"}`. `ReadingIsLabelled` claims
  only the function of such a reading.
- `fetch()` builds its label after the lock is released (`:891-893`), so a configure
  of another thread relabels what was read before it: `ReadingIsLabelled` with two
  threads and `Ops = {"configure", "initiate", "fetch"}`.
- `set_trigger_source(BUS)` times out although the instrument obeyed; `read_query()`
  still believes IMMediate (`:874`, `:923`) and sends READ? to an instrument that
  waits for `*TRG`, which `docs/safety.md:3` excludes: `NoReadInBus` with
  `Ops = {"set_trigger", "read_query"}`.
- `read_once()` selects IMMediate without updating `_trigger_source` (`:774`), so
  after `read_once_bus()` the driver sends `*TRG` to an instrument at IMMEDIATE.
- Closing the window waits for the driver operation that is running
  (`hp34401a_gui/legacy_app.py:617`), although `:11-13` says that I/O on a worker
  keeps the window responsive: `WindowNeverWaits` of `GuiWorker`.
- Closing the window while a Connect is in progress closes the old driver, and
  the process may end with the new one open: `hurried` in `NoDriverIsLost`.
- `Import Driver Configuration` of a document without a member that the policy
  reads makes it effective, then raises `KeyError` (`runtime_library.py:106`):
  `ImportIsTransactional` of `Library`.
- The health that `List Connections` shows is that of an earlier driver of the
  alias after `Open DMM Via VISA` and the like, and `True` without a check after
  Connect to an alias that is open: `ListedHealthIsLastKnown`.
- After an unstable result, or a measurement that raised, an assertion about the
  last reading passes on the reading before (`legacy_library.py:1854`):
  `NoPassAfterUnstable` of `Verdicts`. README.md of the repository says that
  unstable readings are rejected.
- `check_limits()` passes a NaN, and a window with a NaN raises out of
  `statistics.pstdev`; NaN is not a value of the models.

The library contract says that concurrent calls to one *library* instance are
not qualified (`ai/hp34401a_ai_contract.yaml:17-21`). The races matter because
the *driver* offers `thread_safe=True` and documents what its lock is for.

## The proofs

Each `...Proofs` module defines an inductive invariant `IInv`, proves that it holds
initially and is kept by every action, and derives the theorems. The constants are
arbitrary: any sets of threads, aliases, documents or readings and any bounds that
satisfy the `ASSUME` of the module. Those ASSUMEs say that the special values
(`Nobody`, `NoConfig`, the packaged default, ...) are none of the ordinary ones and
that sets have the types one expects; TLC evaluates them in the runs. Where a
theorem has a further hypothesis, it is one the code needs: without it the property
fails, most often as the disagreements above show.

| Component | Proved | Hypotheses |
|---|---|---|
| Transport | `TypeOK`, `FlagCoversLine`, `OneOutstanding`, `NoStaleAnswer`, `ImplementsExchange` | none |
| Recovery | `TypeOK`, `NothingLeftBehind`, `RetryFollowsClear`, `RereadIsConfigured` | none |
| | `CallsAreBounded` | none |
| | `OwnAnswersOnly`, `ImplementsStrictExchange` | `Cleared`: a clear drains, or the flush waits and no other thread calls `recover()` |
| | `ReadyMeansUnblocked` | no `recover()`, whose drain may time out unnoticed |
| | `ReadHasItsTimeout` | one thread, or no `recover()` and `self_test()`, which change the timeout outside the lock |
| Measurement | `TypeOK` | none |
| | `MeasureIsAsked` | one thread, or no plain `configure_*()`, which assigns the recipe before it has the lock |
| | `ReadingIsLabelled` | one thread, or no late function, no `reset()` and no plain `fetch()`, which forget and label after the lock is released |
| | `BusIsNotForgotten` | one thread, or no `set_trigger_source()` and no `reset()`, which assign the source after the lock is released |
| Configuration | `EffectiveIsValid`, `ProfilesAreWhole`, `NoLitter` | none |
| GUI worker | `TypeOK`, `NoDriverIsLost`, `OneMoreReading`, `StatusSettles` | none |
| Evidence | `TrafficReachesTheRun`, `SuiteEndSeals`, `BundleIsASnapshot` | none |
| | `ManifestIsWhole`, `ImplementsJournal` | no `Disconnect DMM` (run `disconnect_seals`) |
| Library | `NoForgottenDriver`, `SomethingIsSelected`, `SessionIdsAreUnique`, `HealthIsOfThisDriver`, `PolicyIsUniform` | none |
| Verdicts | `PassIsAboutTheReading`, `SequenceVerdict`, `EndsInTime`, `StableIsSteady` | none |

The hypotheses on `Recovery` and `Measurement` are wider than the runs: for
instance `MeasureIsAsked` is proved with `reset()`, `close()` and
`set_trigger_source()` beside the measurement, and `OwnAnswersOnly` for any number
of threads on a line that loses nothing in a clear as long as the flush waits.

**Transport.** `FlagCoversLine` is not inductive. When a query is answered the flag
goes down, and one must know that the only guarded answer on the line was this one.
`Waiting` says so while a thread is inside `query()`, `OneOutstanding` after the
query failed. Steps that touch nothing (`QuietStep`) and that lower the flag
(`ReleasingStep`) have a lemma each. The refinement needs only types and `Waiting`.

**Recovery.** The properties speak of the moments between calls, or of the moment of
one send; the invariant has to say how the stack gets there. `Sound` and `CalledBy`
give for every activation its step and its caller, `Locking` the one that took the
operation lock, `Temporary` the one that will restore the timeout and the recovery
mark, `Remembers` what has been done since the last question: a clear, a flush
read after it, a configuration. Every step of the
driver is a step of `Transport` or leaves it alone, so `TransportProofs` is
instantiated and its `IInv` holds of the driver's link. `Fresh`, `Ready` and `Timed`
are then inductive relative to it, for own answers, readiness and the timeout.

`ImplementsStrictExchange` combines two refinements: a step of the driver is a step of
`Transport`, that is one of `Exchange` with strays (`L!ExchangeStep`), and since answers
are own, one without (`StrictStep`). Nobody asks unheard, because the only question is
`query()`'s (`AskersWait`).

`CallsAreBounded` is the argument why calls return. `Cost` gives a query its retries
with their recoveries, a recovery its drain, a measurement its second try. A move is
paid for (`Lowers`): what goes on costs less than before, with what it calls. The costs
on a stack are added up, which needs that it has at most four activations (`DepthIs`):
a query that drains errors may itself be retried when another thread ends its own
recovery and lowers `_in_recovery` for both. `Counted` says that the drain counts to its
limit. With the defaults, one retry and 25 errors, a call takes 416 steps at most.

**Measurement.** `Types` and `Locking` first. `Asked` follows a `measure_*()` from its
configure to READ?: the recipe is its own or forgotten, and then what the instrument
has. `Labels` says that what the driver believes is in force, except between the two
writes of a late function, and that it still is when `fetch()` labels what it read.
Where no function is active, only the function is believed, namely VOLT_DC. Both rest on `ChangesAre`: the configuration of the
instrument changes only under the lock. For `BusIsNotForgotten`, `Kept` relates the
trigger source of the instrument to `_trigger_source`, and `SelectsIs` goes through what
every step does to the two: only a write that raised although it arrived parts them.

**Configuration.** A file is replaced by what a process is writing, so `TextIsReady`
says that this is a valid document of the path's name; `TempIsOfTheWriter` ties each
temporary file to the step of its living writer.

**GUI worker.** `WindowCloses` says what closing knows of threads that connect,
`StopIsSeen` where the one reading after Stop can still be, `SomebodyWillSayReady`
which thread has its `Ready` to come when the label is another one.

**Evidence.** A keyword's end goes into the run that was current at its beginning, so
the invariant ties frames (`FramesAreCurrent`) and sessions (`TracedIsCurrent`) to the
current run, which is open (`CurrentIsOpen`), while earlier ones are over
(`OthersAreOver`). `RunMoves` says how each step moves one run; the manifest and the
refinement of `Journal` follow from it, `Disconnect DMM` being the only keyword that
writes to a run after it was sealed.

**Library.** A keyword is a composition of the operators of `Sessions`, so each
operator is shown to keep a table `Good`: closed aliases hold no driver, drivers are
numbered below the next, the order has no repetitions, the selection is in it.
`Named` says that generations count beyond every id given. Health and policy are
added in the same step, since a keyword that fails half-way must keep all of them.

**Verdicts.** `InTime` bounds the clock in each phase of a stable reading; `Windowed`
says that the window is the end of the readings taken; `Keeps` that the reading a
session keeps is the one given last; `JudgedIsRight` is the sequence. With
`StableIsEvaluated` the result is the last reading, and the readings just before it, none
left out, passed `_evaluate()`. That its sums mean the limits said pair by pair is an
identity over windows of any length: n times the sum of products less the product of the
sums is half the sum over all pairs (`PairsAreCross`). A sum is linear
(`SumOfCombination`), which is shown by induction on its length: not with the library's
rule, whose parameter is an operator, but from the least element of the set of lengths
for which it fails (`Least`, `Induct`). `AcceptedIsWithinLimits` then goes through the
three limits, with equal times as a case of its own.

TLC finds each `IInv`, and `Fresh`, `Ready`, `Timed`, `Asked` and `Labels`, to be
invariants of the runs as well. Not proved:

- `CallsReturn` and `StopEndsTheLoop`: liveness, beyond the prover. Of `CallsReturn`
  the part about safety is proved (`CallsAreBounded`): a thread cannot move for ever.
  That it can always move is the deadlock check of the runs.
- The properties named under the disagreements: they are false.

## Not modelled

- `FakeTransport` (a test double) and the Prologix stub (it raises).
- The arithmetic of the driver: `estimate_measurement_timeout_s()` is a formula
  with one caller, ranges are a table (a range is valid or `Rejected`), and
  `_validate_counts()` is called by a test only.
- The texts of the parser: identity, error records, redaction, JSON and Markdown.
- Keywords that only read or forward: capabilities, metadata, information.
- A failed append to an evidence stream, which leaves a gap in its sequence
  numbers; only failures of `finalize()` are modelled.
- A profile that a second process creates between the test for it and the
  replacement is overwritten without `overwrite`; the model does it, no property
  forbids it.
- The CLI, converters, logging, static capability data, the widgets, plot and CSV
  log of the GUI, and the release and generation scripts, which have no state of
  their own to get wrong.

## Plan

1. Done: the transport with its proofs; recovery and measurement; sessions and
   library; evidence; GUI; configuration; stability and verdicts.
2. Done: the theorems above, in the order `Configuration`, `GuiWorker`, `Evidence`,
   `Recovery`, `Measurement`, `Library`, `Verdicts`.
3. Left: the cases of `RecoveryProofs` that differ only in the step they name
   could share lemmas; and the hazards without a property in `PROJECT.json`, each
   of which says why it has none.
