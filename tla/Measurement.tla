------------------------------ MODULE Measurement ------------------------------
(***************************************************************************)
(* Configuring and reading: what Hp34401A (legacy_driver.py) believes      *)
(* about the instrument, what the instrument really does, and the label a  *)
(* reading carries.                                                        *)
(*                                                                         *)
(* A configuration is a function and one setting (NPLC or aperture).  A    *)
(* command may be delivered, lost with an exception, or delivered although *)
(* it timed out, so a sequence of writes that fails leaves any prefix of   *)
(* its effects in the instrument.  Transport and recovery are modules of   *)
(* their own; here the unread flag is "blocked" and a recovery two steps.  *)
(*                                                                         *)
(* Steps are cut where another thread may interfere: at the operation      *)
(* lock, and around what is read or assigned without it: the recipe, the   *)
(* late setting, what reset() forgets, a trigger source, and the label     *)
(* fetch() puts on a reading.  initiate() is one step, and                 *)
(* reset_on_connect is off.                                                *)
(***************************************************************************)
EXTENDS Naturals, FiniteSets

CONSTANTS
  Threads, Nobody,
  Functions,      \* measurement functions
  LateFunctions,  \* those whose setting is written after the bookkeeping (FREQ, PERIOD)
  Settings,       \* values of NPLC or aperture
  Default,        \* the setting CONFigure selects
  PowerOn,        \* the function after *RST, and of a reading when none is active: VOLT_DC
  NoConfig,       \* None
  Rejected,       \* a configure whose range is refused by _validate_range
  RetryQueries,   \* DriverConfig.retry_queries
  Ops,            \* the public operations the threads call
  MaxCalls        \* bound on the number of public calls

ASSUME MeasurementAssumption ==
  /\ Nobody \notin Threads
  /\ LateFunctions \subseteq Functions
  /\ PowerOn \in Functions
  /\ Default \in Settings
  /\ RetryQueries \in BOOLEAN
  /\ MaxCalls \in Nat

Configs == [func : Functions, setting : Settings]
Config(f, s) == [func |-> f, setting |-> s]
Late(r) == r \in Configs /\ r.func \in LateFunctions

ASSUME NoConfigAssumption ==
  /\ NoConfig \notin Configs /\ Rejected \notin Configs
  /\ NoConfig \notin Functions \cup Settings
  /\ NoConfig # Rejected

VARIABLES
  dmm,      \* the instrument: configuration, trigger source, armed, memory filled
  open,     \* the transport is open
  blocked,  \* the transport's unread flag
  state,    \* _state
  active,   \* what a label says: _active_function, and _active_nplc or _active_aperture
  recipe,   \* _last_configure
  trigger,  \* _trigger_source
  opLock,   \* owner of _op_lock
  pc,       \* where each thread is
  want,     \* the configuration its call asks for
  chosen,   \* the configuration it is about to apply
  reading,  \* the latest reading each thread was given
  torn,     \* the instrument was left half-way or switched off (history)
  stuck,    \* READ? was sent to an instrument waiting for *TRG (history)
  calls     \* number of public calls made

link == <<open, blocked>>
believed == <<active, recipe, trigger>>
control == <<pc, opLock>>
vars == <<dmm, link, state, believed, control, want, chosen, reading, torn, stuck, calls>>

\* _active_function and _active_nplc, each of which may be None.
Beliefs == [func : Functions \cup {NoConfig}, setting : Settings \cup {NoConfig}]
Unconfigured == [func |-> NoConfig, setting |-> NoConfig]
NoReading == [op |-> "none", label |-> Unconfigured, taken |-> NoConfig,
              asked |-> NoConfig, torn |-> FALSE]
Usable == {"CONFIGURED", "CONNECTED_REMOTE"}

Init ==
  /\ dmm = [conf |-> Config(PowerOn, Default), trig |-> "IMM", armed |-> FALSE,
            stored |-> FALSE]
  /\ open = TRUE
  /\ blocked = FALSE
  /\ state = "CONNECTED_REMOTE"
  /\ active = Unconfigured
  /\ recipe = NoConfig
  /\ trigger = "IMM"
  /\ opLock = Nobody
  /\ pc = [c \in Threads |-> "idle"]
  /\ want = [c \in Threads |-> NoConfig]
  /\ chosen = [c \in Threads |-> NoConfig]
  /\ reading = [c \in Threads |-> NoReading]
  /\ torn = FALSE
  /\ stuck = FALSE
  /\ calls = 0
-----------------------------------------------------------------------------
(* The instrument (external): what the commands do to it.  A change of the *)
(* configuration, INITiate and READ? empty the reading memory.             *)

AfterConf(r) == [conf |-> r, trig |-> "IMM", armed |-> FALSE, stored |-> FALSE]
AfterReset == AfterConf(Config(PowerOn, Default))
AfterTrigger(src) == [dmm EXCEPT !.trig = src]
AfterClear == [dmm EXCEPT !.armed = FALSE]
AfterInit(d) == [d EXCEPT !.armed = (d.trig = "BUS"), !.stored = (d.trig # "BUS")]
AfterTrg == IF dmm.armed THEN [dmm EXCEPT !.armed = FALSE, !.stored = TRUE] ELSE dmm
AfterRead(d) == [d EXCEPT !.armed = FALSE, !.stored = FALSE]
-----------------------------------------------------------------------------
(* The link and the control of a thread.                                   *)

Reaches == open /\ ~blocked
Sends(d) == Reaches /\ dmm' = d
\* A write failed: the instrument is in one of the states D, or not reached.
Breaks(D) == (IF Reaches THEN dmm' \in D ELSE dmm' = dmm) /\ state' = "ERROR_RECOVERY"

\* A query failed.  An unanswered one leaves the flag up unless a retry
\* cleared it, and a query on a closed transport raises it.
QueryFailed ==
  /\ state' = "ERROR_RECOVERY"
  /\ \/ blocked' = TRUE /\ dmm' \in IF Reaches THEN {dmm, AfterClear} ELSE {dmm}
     \/ Reaches /\ blocked' = FALSE /\ dmm' = AfterClear
  /\ UNCHANGED open

Goto(c, where) == pc' = [pc EXCEPT ![c] = where] /\ UNCHANGED opLock
\* A call returns or raises, and with it the lock it holds.
Ends(c) ==
  /\ pc' = [pc EXCEPT ![c] = "idle"]
  /\ opLock' = IF opLock = c THEN Nobody ELSE opLock

LockFree(c) == opLock \in {Nobody, c}
Begins(c, op) == pc[c] = "idle" /\ op \in Ops /\ calls < MaxCalls /\ calls' = calls + 1
Asks(c, r) == want' = [want EXCEPT ![c] = r]

\* A call that takes the lock and keeps it.
Takes(c, op, r, where) ==
  /\ Begins(c, op)
  /\ LockFree(c)
  /\ opLock' = c
  /\ pc' = [pc EXCEPT ![c] = where]
  /\ Asks(c, r)

\* A call that is over within one step.
Briefly(c, op) ==
  /\ Begins(c, op)
  /\ LockFree(c)
  /\ UNCHANGED <<believed, control, want, chosen, reading, torn>>

Gives(c, op) ==
  reading' = [reading EXCEPT ![c] =
    [op |-> op, label |-> active, taken |-> dmm.conf, asked |-> want[c], torn |-> torn]]
-----------------------------------------------------------------------------
(* configure_*(): the recipe is assigned, read back and called before the  *)
(* lock is taken and the range validated.  FREQ and PERIOD call their own  *)
(* function, the others what _last_configure holds.                        *)

\* Mutant: the configure of a measure_*() does not take the lock.
Bug_MeasureUnlocked(c, r) ==
  /\ Begins(c, "measure")
  /\ ~Late(r)
  /\ recipe' = r
  /\ Asks(c, r)
  /\ Goto(c, "m_load")
  /\ UNCHANGED <<dmm, link, state, active, trigger, chosen, reading, torn, stuck>>

\* measure_*(): the same under the lock, then read_once().
Measure(c, r) ==
  /\ Takes(c, "measure", r, "m_load")
  /\ ~Late(r)
  /\ recipe' = r
  /\ UNCHANGED <<dmm, link, state, active, trigger, chosen, reading, torn, stuck>>

Configure(c, r) ==
  /\ Begins(c, "configure")
  /\ recipe' = r
  /\ Asks(c, r)
  /\ Goto(c, "load")
  /\ UNCHANGED <<dmm, link, state, active, trigger, chosen, reading, torn, stuck>>

Load(c) ==
  /\ pc[c] \in {"load", "m_load"}
  /\ chosen' = [chosen EXCEPT ![c] = IF Late(want[c]) THEN want[c] ELSE recipe]
  /\ Goto(c, IF pc[c] = "load" THEN "apply" ELSE "m_apply")
  /\ UNCHANGED <<dmm, link, state, believed, want, reading, torn, stuck, calls>>

Keeps(r) ==  \* the bookkeeping at the end of _apply_configure
  /\ active' = r
  /\ trigger' = "IMM"
  /\ state' = "CONFIGURED"

\* All writes delivered.
Applied(r) ==
  /\ r \in Configs
  /\ Sends(AfterConf(r))
  /\ Keeps(r)
  /\ torn' = FALSE

\* A write failed, before the bookkeeping.
ApplyFails(r) ==
  /\ r \in Configs
  /\ Breaks({dmm, AfterConf(Config(r.func, Default)), AfterConf(r)})
  /\ torn' = (torn \/ dmm' # dmm)
  /\ UNCHANGED <<active, trigger>>

\* ValueError from _validate_range, or TypeError because another thread's reset
\* has set the recipe to None: no write, no change of state.
ApplyRejected(r) ==
  /\ r \in {Rejected, NoConfig}
  /\ UNCHANGED <<dmm, state, active, trigger, torn>>

\* The first part for a late function: the setting is still to be written.
AppliedEarly(r) ==
  /\ Late(r)
  /\ Sends(AfterConf(Config(r.func, Default)))
  /\ Keeps(r)
  /\ torn' = FALSE

ApplyConfigure(c) ==
  /\ pc[c] = "apply"
  /\ LockFree(c)
  /\ LET r == chosen[c] IN
     \/ ~Late(r) /\ Applied(r) /\ Ends(c)
     \/ AppliedEarly(r) /\ Goto(c, "late")
     \/ (ApplyFails(r) \/ ApplyRejected(r)) /\ Ends(c)
  /\ UNCHANGED <<link, recipe, want, chosen, reading, stuck, calls>>

\* SENSe:FREQuency:APERture, after the lock was released.
ApplyLate(c) ==
  /\ pc[c] = "late"
  /\ LockFree(c)
  /\ LET set == IF dmm.conf.func = chosen[c].func THEN [dmm EXCEPT !.conf = chosen[c]] ELSE dmm
     IN \/ Sends(set) /\ UNCHANGED <<state, torn>>
        \/ Breaks({dmm, set}) /\ torn' = TRUE
  /\ Ends(c)
  /\ UNCHANGED <<link, believed, want, chosen, reading, stuck, calls>>

MeasureApply(c) ==
  /\ pc[c] = "m_apply"
  /\ LockFree(c)
  /\ LET r == chosen[c] IN
     \/ Applied(r) /\ Goto(c, "read")
     \/ (ApplyFails(r) \/ ApplyRejected(r)) /\ Ends(c)
  /\ UNCHANGED <<link, recipe, want, chosen, reading, stuck, calls>>
-----------------------------------------------------------------------------
(* read_once(): immediate trigger, READ?, and one fresh measurement after  *)
(* a timeout.                                                              *)

ReadOnce(c) ==
  /\ Takes(c, "read_once", NoConfig, "read")
  /\ UNCHANGED <<dmm, link, state, believed, chosen, reading, torn, stuck>>

Ready == open /\ state \in Usable /\ active.func # NoConfig

ReadRefused(c) ==
  /\ pc[c] \in {"read", "bus"}
  /\ ~Ready
  /\ Ends(c)
  /\ UNCHANGED <<dmm, link, state, believed, want, chosen, reading, torn, stuck, calls>>

Op(c) == IF want[c] = NoConfig THEN "read_once" ELSE "measure"

\* TRIGger:SOURce IMMediate, the counts, READ?, and its answer.
ReadAnswered(c) ==
  /\ Sends(AfterRead(AfterTrigger("IMM")))
  /\ Gives(c, Op(c))
  /\ state' = "CONNECTED_REMOTE"
  /\ UNCHANGED <<link, stuck>>

\* A write failed, or READ? was not answered.
ReadFails ==
  /\ \/ Breaks({dmm, AfterTrigger("IMM")}) /\ UNCHANGED blocked
     \/ /\ Reaches
        /\ Breaks({AfterTrigger("IMM"), AfterRead(AfterTrigger("IMM"))})
        /\ blocked' = TRUE
  /\ UNCHANGED <<open, stuck>>

ReadAllowed(c) ==
  /\ pc[c] = "read"
  /\ Ready
  /\ Goto(c, "ask")
  /\ UNCHANGED <<dmm, link, state, believed, want, chosen, reading, torn, stuck, calls>>

ReadFirst(c) ==
  /\ pc[c] = "ask"
  /\ \/ ReadAnswered(c) /\ Ends(c)
     \/ ReadFails /\ Ends(c) /\ UNCHANGED reading
     \/ Reaches /\ RetryQueries /\ ReadFails /\ Goto(c, "clear") /\ UNCHANGED reading
  /\ UNCHANGED <<believed, want, chosen, torn, calls>>

\* _transport_recover(): the clear, and the error-queue drain, whose failure
\* is swallowed.  "r_" is recover(), which does not hold the lock.
RecoverClear(c) ==
  /\ pc[c] \in {"clear", "r_clear"}
  /\ \/ /\ open
        /\ dmm' = AfterClear
        /\ blocked' = FALSE
        /\ Goto(c, IF pc[c] = "clear" THEN "drain" ELSE "r_drain")
     \/ Ends(c) /\ UNCHANGED <<dmm, blocked>>
  /\ UNCHANGED <<open, state, believed, want, chosen, reading, torn, stuck, calls>>

RecoverDrain(c) ==
  /\ pc[c] \in {"drain", "r_drain"}
  /\ LockFree(c)
  /\ \/ Sends(dmm) /\ state' = "CONNECTED_REMOTE" /\ UNCHANGED link
     \/ QueryFailed
  /\ Goto(c, IF pc[c] = "drain" THEN "reapply" ELSE "r_load")
  /\ UNCHANGED <<believed, want, chosen, reading, torn, stuck, calls>>

ReadReapply(c) ==
  /\ pc[c] = "reapply"
  /\ \/ recipe = NoConfig /\ Goto(c, "reread") /\ UNCHANGED <<dmm, state, active, trigger, torn>>
     \/ Applied(recipe) /\ Goto(c, "reread")
     \/ (ApplyFails(recipe) \/ ApplyRejected(recipe)) /\ Ends(c)
  /\ UNCHANGED <<link, recipe, want, chosen, reading, stuck, calls>>

ReadAgain(c) ==
  /\ pc[c] = "reread"
  /\ ReadAnswered(c) \/ (ReadFails /\ UNCHANGED reading)
  /\ Ends(c)
  /\ UNCHANGED <<believed, want, chosen, torn, calls>>

\* recover(): the recipe is called, not under the lock.
Recover(c) ==
  /\ Begins(c, "recover")
  /\ Goto(c, "r_clear")
  /\ UNCHANGED <<dmm, link, state, believed, want, chosen, reading, torn, stuck>>

RecoverLoad(c) ==
  /\ pc[c] = "r_load"
  /\ IF recipe = NoConfig
     THEN Ends(c) /\ state' = "CONNECTED_REMOTE" /\ UNCHANGED chosen
     ELSE Goto(c, "apply") /\ chosen' = [chosen EXCEPT ![c] = recipe] /\ UNCHANGED state
  /\ UNCHANGED <<dmm, link, believed, want, reading, torn, stuck, calls>>
-----------------------------------------------------------------------------
(* BUS triggering: read_once_bus(), and its parts as operations.           *)

ReadOnceBus(c) ==
  /\ Takes(c, "read_once_bus", NoConfig, "bus")
  /\ UNCHANGED <<dmm, link, state, believed, chosen, reading, torn, stuck>>

\* Mutant: the source is selected without set_trigger_source(), which keeps it.
Bug_BusArm(c) ==
  /\ pc[c] = "bus"
  /\ Ready
  /\ LET bus == AfterTrigger("BUS") IN
     \/ Sends(AfterInit(bus)) /\ state' = "WAITING_FOR_TRIGGER" /\ Goto(c, "bus_trigger")
     \/ Breaks({dmm, bus, AfterInit(bus)}) /\ Ends(c)
  /\ UNCHANGED <<link, believed, want, chosen, reading, torn, stuck, calls>>

\* TRIGger:SOURce BUS, the counts, DATA:FEED and INITiate.
BusArm(c) ==
  /\ pc[c] = "bus"
  /\ Ready
  /\ LET bus == AfterTrigger("BUS") IN
     \/ /\ Sends(AfterInit(bus))
        /\ trigger' = "BUS"
        /\ state' = "WAITING_FOR_TRIGGER"
        /\ Goto(c, "bus_trigger")
     \/ Breaks({dmm, bus}) /\ Ends(c) /\ UNCHANGED trigger
     \/ Reaches /\ Breaks({bus, AfterInit(bus)}) /\ Ends(c) /\ trigger' = "BUS"
  /\ UNCHANGED <<link, active, recipe, want, chosen, reading, torn, stuck, calls>>

\* *TRG, refused unless the driver believes the source is BUS.
BusTrigger(c) ==
  /\ pc[c] = "bus_trigger"
  /\ \/ trigger # "BUS" /\ Ends(c) /\ UNCHANGED <<dmm, state>>
     \/ trigger = "BUS" /\ Sends(AfterTrg) /\ Goto(c, "bus_fetch") /\ UNCHANGED state
     \/ trigger = "BUS" /\ Breaks({dmm, AfterTrg}) /\ Ends(c)
  /\ UNCHANGED <<link, believed, want, chosen, reading, torn, stuck, calls>>

\* FETCh? returns what is in memory, without measuring, and the label is built.
Fetched(c, op) ==
  /\ Sends(dmm)
  /\ dmm.stored
  /\ Gives(c, op)
  /\ state' = "CONNECTED_REMOTE"
  /\ UNCHANGED link

BusFetch(c) ==
  /\ pc[c] = "bus_fetch"
  /\ Fetched(c, "read_once_bus") \/ (QueryFailed /\ UNCHANGED reading)
  /\ Ends(c)
  /\ UNCHANGED <<believed, want, chosen, torn, stuck, calls>>

\* fetch() as a call of its own: FETCh? under the lock, the label after it.
Fetch(c) ==
  /\ Begins(c, "fetch")
  /\ LockFree(c)
  /\ \/ /\ Sends(dmm)
        /\ dmm.stored
        /\ reading' = [reading EXCEPT ![c] = [NoReading EXCEPT !.taken = dmm.conf, !.torn = torn]]
        /\ state' = "CONNECTED_REMOTE"
        /\ Goto(c, "label")
        /\ UNCHANGED link
     \/ QueryFailed /\ UNCHANGED <<control, reading>>
  /\ UNCHANGED <<believed, want, chosen, torn, stuck>>

FetchLabel(c) ==
  /\ pc[c] = "label"
  /\ reading' = [reading EXCEPT ![c] =
       [op |-> "fetch", label |-> active, taken |-> @.taken, asked |-> NoConfig, torn |-> @.torn]]
  /\ Ends(c)
  /\ UNCHANGED <<dmm, link, state, believed, want, chosen, torn, stuck, calls>>

\* set_trigger_source(): the write under the lock, the assignment after it.
SetTrigger(c, src) ==
  /\ Begins(c, "set_trigger")
  /\ LockFree(c)
  /\ \/ /\ Sends(AfterTrigger(src))
        /\ Goto(c, IF src = "BUS" THEN "keep_bus" ELSE "keep_imm")
        /\ UNCHANGED state
     \/ Breaks({dmm, AfterTrigger(src)}) /\ UNCHANGED control
  /\ UNCHANGED <<link, believed, want, chosen, reading, torn, stuck>>

KeepTrigger(c) ==
  /\ pc[c] \in {"keep_bus", "keep_imm"}
  /\ trigger' = IF pc[c] = "keep_bus" THEN "BUS" ELSE "IMM"
  /\ Ends(c)
  /\ UNCHANGED <<dmm, link, state, active, recipe, want, chosen, reading, torn, stuck, calls>>

Initiate(c) ==
  /\ Briefly(c, "initiate")
  /\ \/ Sends(AfterInit(dmm)) /\ state' = "WAITING_FOR_TRIGGER"
     \/ Breaks({dmm, AfterInit(dmm)})
  /\ UNCHANGED <<link, stuck>>

TriggerBus(c) ==
  /\ Briefly(c, "trigger_bus")
  /\ trigger = "BUS"
  /\ \/ Sends(AfterTrg) /\ UNCHANGED state
     \/ Breaks({dmm, AfterTrg})
  /\ UNCHANGED <<link, stuck>>

\* READ? through query(), refused while the driver believes the source is BUS.
ReadQuery(c) ==
  /\ Briefly(c, "read_query")
  /\ trigger # "BUS"
  /\ stuck' = (stuck \/ (Reaches /\ dmm.trig = "BUS"))
  /\ \/ dmm.trig # "BUS" /\ Sends(AfterRead(dmm)) /\ state' = "CONNECTED_REMOTE" /\ UNCHANGED link
     \/ QueryFailed
-----------------------------------------------------------------------------
(* Other queries, reset, close and connect.                                *)

\* Any query that measures nothing: *IDN?, SYSTem:ERRor?, ROUTe:TERMinals?.
Identify(c) ==
  /\ Briefly(c, "identify")
  /\ \/ Reaches /\ dmm' \in {dmm, AfterClear} /\ state' = "CONNECTED_REMOTE" /\ UNCHANGED link
     \/ QueryFailed
  /\ UNCHANGED stuck

\* *RST under the lock; what the driver forgets, it forgets after it: the function and
\* the recipe, but not the setting of the label.
Reset(c) ==
  /\ Begins(c, "reset")
  /\ LockFree(c)
  /\ \/ Sends(AfterReset) /\ torn' = TRUE /\ Goto(c, "forget") /\ UNCHANGED state
     \/ Breaks({dmm, AfterReset}) /\ torn' = (torn \/ dmm' # dmm) /\ UNCHANGED control
  /\ UNCHANGED <<link, believed, want, chosen, reading, stuck>>

\* Mutant: the active function survives the reset.
Bug_ResetKeepsFunction(c) ==
  /\ pc[c] = "forget"
  /\ state' = "CONNECTED_REMOTE"
  /\ trigger' = "IMM"
  /\ recipe' = NoConfig
  /\ torn' = FALSE
  /\ Ends(c)
  /\ UNCHANGED <<dmm, link, active, want, chosen, reading, stuck, calls>>

ResetForget(c) ==
  /\ pc[c] = "forget"
  /\ state' = "CONNECTED_REMOTE"
  /\ trigger' = "IMM"
  /\ active' = [active EXCEPT !.func = NoConfig]
  /\ recipe' = NoConfig
  /\ torn' = FALSE
  /\ Ends(c)
  /\ UNCHANGED <<dmm, link, want, chosen, reading, stuck, calls>>

\* close() and connect() forget nothing of what the driver believes about the
\* instrument, which may be switched off in between.
Close(c) ==
  /\ Briefly(c, "close")
  /\ open' = FALSE
  /\ blocked' = FALSE
  /\ state' = "CLOSED"
  /\ UNCHANGED <<dmm, stuck>>

Connect(c) ==
  /\ Briefly(c, "connect")
  /\ blocked' = FALSE
  /\ \/ open' = TRUE /\ dmm' \in {dmm, AfterClear} /\ state' = "CONNECTED_REMOTE"
     \/ open' = FALSE /\ dmm' \in {dmm, AfterClear} /\ state' = "CLOSED"
  /\ UNCHANGED stuck

PowerCycle ==
  /\ ~open
  /\ dmm' = AfterReset
  /\ torn' = TRUE
  /\ UNCHANGED <<link, state, believed, control, want, chosen, reading, stuck, calls>>
-----------------------------------------------------------------------------
Step(c) ==
  \/ Load(c) \/ ApplyConfigure(c) \/ ApplyLate(c) \/ MeasureApply(c)
  \/ ReadRefused(c) \/ ReadAllowed(c) \/ ReadFirst(c) \/ ReadReapply(c) \/ ReadAgain(c)
  \/ RecoverClear(c) \/ RecoverDrain(c) \/ RecoverLoad(c)
  \/ BusArm(c) \/ BusTrigger(c) \/ BusFetch(c) \/ FetchLabel(c) \/ KeepTrigger(c)
  \/ ResetForget(c)

Call(c) ==
  \/ \E r \in Configs \cup {Rejected} : Configure(c, r) \/ Measure(c, r)
  \/ ReadOnce(c) \/ ReadOnceBus(c) \/ Recover(c)
  \/ \E src \in {"IMM", "BUS"} : SetTrigger(c, src)
  \/ Initiate(c) \/ TriggerBus(c) \/ Fetch(c) \/ ReadQuery(c)
  \/ Identify(c) \/ Reset(c) \/ Close(c) \/ Connect(c)

AtRest == \A c \in Threads : pc[c] = "idle"
Done == AtRest /\ calls = MaxCalls /\ UNCHANGED vars

Next == (\E c \in Threads : Step(c) \/ Call(c)) \/ PowerCycle \/ Done

Spec == Init /\ [][Next]_vars
-----------------------------------------------------------------------------
(* Properties.                                                             *)

Places == {"idle", "load", "m_load", "apply", "m_apply", "late", "read", "ask", "clear",
           "drain", "reapply", "reread", "r_clear", "r_drain", "r_load", "bus",
           "bus_trigger", "bus_fetch", "label", "keep_bus", "keep_imm", "forget"}
Recipes == Configs \cup {NoConfig, Rejected}
States == Usable \cup {"CLOSED", "ERROR_RECOVERY", "WAITING_FOR_TRIGGER"}

\* Every variable has its type, and a thread that is inside a sequence that
\* must not be interleaved (measure_*, read_once, read_once_bus) owns the lock.
TypeOK ==
  /\ dmm \in [conf : Configs, trig : {"IMM", "BUS"}, armed : BOOLEAN, stored : BOOLEAN]
  /\ {open, blocked, torn, stuck} \subseteq BOOLEAN
  /\ state \in States
  /\ active \in Beliefs
  /\ recipe \in Recipes
  /\ trigger \in {"IMM", "BUS"}
  /\ opLock \in Threads \cup {Nobody}
  /\ pc \in [Threads -> Places]
  /\ {want[c] : c \in Threads} \cup {chosen[c] : c \in Threads} \subseteq Recipes
  /\ \A c \in Threads :
       pc[c] \in {"m_load", "m_apply", "read", "ask", "clear", "drain", "reapply",
                  "reread", "bus", "bus_trigger", "bus_fetch"} => opLock = c

\* A label is that of a configuration, or names none and stands for PowerOn
\* (_build_reading() writes VOLT_DC when no function is active).
Fits(label, conf) == label = conf \/ (label.func = NoConfig /\ conf.func = PowerOn)
Labelled(r) == r.op = "none" \/ Fits(r.label, r.taken)

\* The function and setting a reading is labelled with are the ones the
\* instrument measured with, unless a configure or reset failed half-way, or
\* the instrument was switched off, and no configure has succeeded since.  A
\* reading after a reset is of the function *RST selects, as its label says; the
\* setting on it may be that of before the reset, which is not forgotten.
ReadingIsLabelled == \A c \in Threads : reading[c].torn \/ Labelled(reading[c])

\* The setting on a label is that of the measurement, or none is given.
TrueSetting(r) == r.op # "none" => r.label.setting \in {NoConfig, r.taken.setting}

\* reset() leaves the driver unconfigured, as its comment says (legacy_driver.py:441): what
\* is read after it carries no setting of before.  False: _active_nplc and
\* _active_aperture stay, and fetch() labels a reading of the *RST default with them.
ResetForgetsSetting == \A c \in Threads : reading[c].torn \/ TrueSetting(reading[c])

\* The same without the exceptions: no reading is ever passed off as one of
\* another function or integration time.  False after a configure that failed
\* half-way, which leaves the old label on the new function, and after a reset.
NoFalseLabel == \A c \in Threads : Labelled(reading[c]) /\ TrueSetting(reading[c])

\* measure_*() returns a measurement made with the configuration it was asked
\* for, whatever the other threads do between its configure and its READ?.
MeasureIsAsked ==
  \A c \in Threads : reading[c].op = "measure" => reading[c].taken = reading[c].asked

\* The instrument is at BUS, and the guards of read_query() and trigger_bus(), which
\* look at _trigger_source, are not to know it.
BusUnseen == dmm.trig = "BUS" /\ trigger # "BUS" /\ \A c \in Threads : pc[c] # "keep_bus"

\* The driver loses sight of an instrument at BUS only when a call has failed, whose write
\* of the source arrived although it raised: never by an assignment of _trigger_source,
\* after a configure, a reset or another source, that the instrument has not followed.
BusIsNotForgotten ==
  [][~BusUnseen /\ BusUnseen' => state' = "ERROR_RECOVERY" /\ trigger' = trigger]_vars

\* READ? never reaches an instrument that waits for a bus trigger, where it could not be
\* answered (docs/safety.md:3).  False after a set_trigger_source(BUS) that timed out
\* although it arrived: read_query() believes the source is still IMMediate.
NoReadInBus == ~stuck

\* In CONFIGURED the recipe is the one of the active configuration: recover()
\* and the second measurement of read_once() would restore what is in force.
\* False after a configure whose range was rejected.
RecipeIsActive == AtRest /\ state = "CONFIGURED" => recipe = active
=============================================================================
