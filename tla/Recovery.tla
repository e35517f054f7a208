------------------------------- MODULE Recovery -------------------------------
(***************************************************************************)
(* The query, retry and recovery machinery of Hp34401A                     *)
(* (hp34401a_dmm/legacy_driver.py) on top of Transport: query() and its    *)
(* retry loop, _transport_recover(), recover(), self_test(), write() and   *)
(* the timeout path of read_once().                                        *)
(*                                                                         *)
(* Each thread has a stack of activations, the innermost first.  A step is *)
(* one call of the transport or one assignment another thread could see.   *)
(* query(), write() and read_once() hold the operation lock; recover() and *)
(* self_test() do not, so their steps interleave with everything.          *)
(*                                                                         *)
(* The session is open and quiet at the start.  The writes of one          *)
(* configure, and the three that arm a reading, are one write here (module *)
(* Measurement takes them apart).                                          *)
(***************************************************************************)
EXTENDS Naturals, FiniteSets, Sequences

CONSTANTS
  Threads, Nobody,
  ClearDrains,      \* as in Transport
  FlushWaits,       \* an answer in flight during a clear arrives within the
                    \* 0.2 s of the flush read that follows it
  IsSerial,         \* RS-232: SYSTem:REMote after a clear
  RetryQueries,     \* DriverConfig.retry_queries
  MaxRetries,       \* DriverConfig.max_query_retries
  MaxDrain,         \* bound of drain_error_queue (25 in the code)
  Ops,              \* the public operations the threads call
  MaxCalls,         \* bound on the number of public calls
  MaxQuestions      \* bound of Transport, too large to be reached

ASSUME RecoveryAssumption ==
  /\ Nobody \notin Threads
  /\ {ClearDrains, FlushWaits, IsSerial, RetryQueries} \subseteq BOOLEAN
  /\ {MaxRetries, MaxCalls, MaxQuestions} \subseteq Nat
  /\ MaxDrain \in Nat \ {0}
  /\ Ops \subseteq {"query", "read", "write", "measure", "recover", "self_test"}

VARIABLES
  open, unread, holder, line, asked, unguarded, result,  \* the transport
  timeout,      \* _timeout_s of the transport
  state,        \* _state
  inRecovery,   \* _in_recovery
  opLock,       \* owner of _op_lock
  configured,   \* _last_configure is not None
  stack,        \* the activations of each thread
  raised,       \* how the activation that ended last did end: "ok", or what it raised
  report,       \* RecoveryReport.succeeded of the latest recover()
  since,        \* what a thread did since it last sent a question (history)
  calls         \* number of public calls made

T == INSTANCE Transport WITH Callers <- Threads, RawQuestions <- FALSE

\* The exchange of Exchange without strays: no answer is ever let go.
Strict == INSTANCE Exchange WITH
  Callers <- Threads,
  asker <- holder,
  blocked <- (unread /\ holder = Nobody),
  issued <- asked,
  strays <- {}

link == <<open, unread, holder, line, asked, unguarded, result>>
driver == <<timeout, state, inRecovery, opLock, configured>>
control == <<stack, raised, report, since, calls>>
vars == <<link, driver, control>>

\* A thread's innermost activation, and whether it is at a given step.
Top(c) == stack[c][1]
At(c, op, step) == stack[c] # <<>> /\ Top(c).op = op /\ Top(c).step = step
Idle(c) == stack[c] = <<>>

Activation(op, cmd, step) ==
  [op |-> op, cmd |-> cmd, step |-> step, left |-> 0, took |-> FALSE, drain |-> FALSE]

Goto(c, step) == stack' = [stack EXCEPT ![c][1].step = step]
Enter(c, step, new) ==
  stack' = [stack EXCEPT ![c] = <<new, [Top(c) EXCEPT !.step = step]>> \o Tail(@)]

\* Mutant: the lock is released although an outer activation took it.
Bug_LeaveReleases(c, how) ==
  /\ stack' = [stack EXCEPT ![c] = Tail(@)]
  /\ raised' = [raised EXCEPT ![c] = how]
  /\ opLock' = IF opLock = c THEN Nobody ELSE opLock

\* Return or raise; the activation that took the lock releases it.
Leave(c, how) ==
  /\ stack' = [stack EXCEPT ![c] = Tail(@)]
  /\ raised' = [raised EXCEPT ![c] = how]
  /\ opLock' = IF Top(c).took THEN Nobody ELSE opLock

QueryCall(cmd) == Activation("query", cmd, "lock")
RecoverCall(drain) == [Activation("transport_recover", "", "begin") EXCEPT !.drain = drain]

Usable == {"CONFIGURED", "CONNECTED_REMOTE"}

Init ==
  /\ open = TRUE
  /\ unread = FALSE
  /\ holder = Nobody
  /\ line = {}
  /\ asked = 0
  /\ unguarded = {}
  /\ result = [c \in Threads |-> T!Outcome("none", 0, 0)]
  /\ timeout = "default"
  /\ state \in Usable
  /\ inRecovery = FALSE
  /\ opLock = Nobody
  /\ configured \in BOOLEAN
  /\ state = "CONFIGURED" => configured
  /\ stack = [c \in Threads |-> <<>>]
  /\ raised = [c \in Threads |-> "ok"]
  /\ report = [c \in Threads |-> "none"]
  /\ since = [c \in Threads |-> {}]
  /\ calls = 0
-----------------------------------------------------------------------------
(* Public calls and the operation lock.                                    *)

Begin(c, op) ==
  CASE op = "query"     -> QueryCall("*IDN?")
    [] op = "read"      -> QueryCall("READ?")
    [] op = "write"     -> Activation("write", "", "lock")
    [] op = "measure"   -> Activation("read_once", "", "lock")
    [] op = "recover"   -> Activation("recover", "", "begin")
    [] op = "self_test" -> Activation("self_test", "", "begin")

Call(c, op) ==
  /\ Idle(c)
  /\ calls < MaxCalls
  /\ calls' = calls + 1
  /\ stack' = [stack EXCEPT ![c] = <<Begin(c, op)>>]
  /\ UNCHANGED <<link, driver, raised, report, since>>

LockFree(c) == opLock \in {Nobody, c}

Take(c, step, left) ==
  /\ LockFree(c)
  /\ opLock' = c
  /\ stack' = [stack EXCEPT ![c][1] =
                 [@ EXCEPT !.step = step, !.left = left, !.took = (opLock = Nobody)]]
-----------------------------------------------------------------------------
(* query().                                                                *)

\* READ? and *TST? are never retried; nothing is while a recovery runs.
ShouldRetry(cmd) ==
  /\ RetryQueries
  /\ MaxRetries > 0
  /\ ~inRecovery
  /\ cmd \notin {"READ?", "*TST?"}

QueryBegin(c) ==
  /\ At(c, "query", "lock")
  /\ Take(c, "send", IF ShouldRetry(Top(c).cmd) THEN MaxRetries ELSE 0)
  /\ UNCHANGED <<link, timeout, state, inRecovery, configured, raised, report, since, calls>>

QuerySend(c) ==
  /\ At(c, "query", "send") \/ At(c, "query", "resend")
  /\ \E delivered \in BOOLEAN : T!QuerySend(c, delivered)
  /\ state' = "HAS_UNREAD_OUTPUT"
  /\ Goto(c, "wait")
  /\ since' = [since EXCEPT ![c] = {}]
  /\ UNCHANGED <<timeout, inRecovery, opLock, configured, raised, report, calls>>

QueryRefused(c) ==
  /\ At(c, "query", "send") \/ At(c, "query", "resend")
  /\ T!Refuse(c)
  /\ state' = "ERROR_RECOVERY"
  /\ Leave(c, "error")
  /\ UNCHANGED <<timeout, inRecovery, configured, report, since, calls>>

QueryReply(c) ==
  /\ At(c, "query", "wait")
  /\ T!QueryReply(c)
  /\ state' = "CONNECTED_REMOTE"
  /\ Leave(c, "ok")
  /\ UNCHANGED <<timeout, inRecovery, configured, report, since, calls>>

QueryTimeout(c) ==
  /\ At(c, "query", "wait")
  /\ T!QueryFails(c, "timeout")
  /\ state' = "ERROR_RECOVERY"
  /\ IF Top(c).left = 0
     THEN Leave(c, "timeout")
     ELSE /\ stack' = [stack EXCEPT ![c] =
                 <<RecoverCall(FALSE),
                   [Top(c) EXCEPT !.step = "retry", !.left = @ - 1]>> \o Tail(@)]
          /\ UNCHANGED <<raised, opLock>>
  /\ UNCHANGED <<timeout, inRecovery, configured, report, since, calls>>

\* Mutant: the state is set to CONNECTED_REMOTE whatever the query did.
Bug_ReadyAfterError(c) ==
  /\ At(c, "query", "wait")
  /\ T!QueryFails(c, "error")
  /\ state' = "CONNECTED_REMOTE"
  /\ Leave(c, "error")
  /\ UNCHANGED <<timeout, inRecovery, configured, report, since, calls>>

QueryError(c) ==
  /\ At(c, "query", "wait")
  /\ T!QueryFails(c, "error")
  /\ state' = "ERROR_RECOVERY"
  /\ Leave(c, "error")
  /\ UNCHANGED <<timeout, inRecovery, configured, report, since, calls>>

\* An exception that is no Hp34401AError, such as an answer that does not
\* decode, passes _call() and query() without a change of state.
QueryEscapes(c) ==
  /\ At(c, "query", "wait")
  /\ T!QueryFails(c, "error")
  /\ Leave(c, "escape")
  /\ UNCHANGED <<timeout, state, inRecovery, configured, report, since, calls>>

\* Mutant: a recovery that fails is tried again instead of being given up.
Bug_RecoverAgain(c) ==
  /\ At(c, "query", "retry")
  /\ IF raised[c] = "ok"
     THEN Goto(c, "resend")
     ELSE Enter(c, "retry", RecoverCall(FALSE))
  /\ UNCHANGED <<link, driver, raised, report, since, calls>>

\* What _transport_recover() raises leaves query() as well.
QueryRetry(c) ==
  /\ At(c, "query", "retry")
  /\ IF raised[c] = "ok"
     THEN Goto(c, "resend") /\ UNCHANGED <<raised, opLock>>
     ELSE Leave(c, raised[c])
  /\ UNCHANGED <<link, timeout, state, inRecovery, configured, report, since, calls>>
-----------------------------------------------------------------------------
(* write().                                                                *)

\* The transport's part of a write: sent, failed, or refused by the flag.
Sent(c) == T!WriteCommand(c, "ok")
NotSent(c, how) ==
  \/ how \in {"timeout", "error"} /\ T!WriteCommand(c, how)
  \/ how = "error" /\ T!Refuse(c)

Write(c) ==
  /\ At(c, "write", "lock")
  /\ LockFree(c)
  /\ \/ Sent(c) /\ Leave(c, "ok") /\ UNCHANGED state
     \/ \E how \in {"timeout", "error"} :
          NotSent(c, how) /\ Leave(c, how) /\ state' = "ERROR_RECOVERY"
  /\ UNCHANGED <<timeout, inRecovery, configured, report, since, calls>>
-----------------------------------------------------------------------------
(* _transport_recover(): clear, short flush read, restore, and, unless a   *)
(* query is being retried, drain the error queue.                          *)

RecoverBegin(c) ==
  /\ At(c, "transport_recover", "begin")
  /\ inRecovery' = TRUE
  /\ Goto(c, "clear")
  /\ UNCHANGED <<link, timeout, state, opLock, configured, raised, report, since, calls>>

\* Mutant: the flush read alone has to bring the link in order.
Bug_FlushOnly(c) ==
  /\ At(c, "transport_recover", "clear")
  /\ Goto(c, "shorten")
  /\ UNCHANGED <<link, driver, raised, report, since, calls>>

RecoverClear(c) ==
  /\ At(c, "transport_recover", "clear")
  /\ T!ClearOk(c)
  /\ Goto(c, "shorten")
  /\ since' = [since EXCEPT ![c] = (@ \ {"flush"}) \cup {"clear"}]
  /\ UNCHANGED <<driver, raised, report, calls>>

\* The exception passes the "finally" and leaves.
RecoverClearFails(c, how) ==
  /\ At(c, "transport_recover", "clear")
  /\ T!ClearFails(c, how)
  /\ inRecovery' = FALSE
  /\ Leave(c, how)
  /\ UNCHANGED <<timeout, state, configured, report, since, calls>>

SetTimeout(value) == T!Free /\ timeout' = value

\* Mutant: the flush read is skipped.
Bug_NoFlush(c) ==
  /\ At(c, "transport_recover", "shorten")
  /\ SetTimeout("short")
  /\ Goto(c, "restore")
  /\ UNCHANGED <<link, state, inRecovery, opLock, configured, raised, report, since, calls>>

RecoverShorten(c) ==
  /\ At(c, "transport_recover", "shorten")
  /\ SetTimeout("short")
  /\ Goto(c, "flush")
  /\ UNCHANGED <<link, state, inRecovery, opLock, configured, raised, report, since, calls>>

\* The read finds a stale answer or nothing; it fails without one only when
\* none is in flight (FlushWaits).
RecoverFlush(c) ==
  /\ At(c, "transport_recover", "flush")
  /\ \/ T!ReadRawOk(c) /\ Goto(c, "restore")
     \/ T!ReadRawOk(c) /\ Goto(c, "undecodable")
     \/ /\ FlushWaits => line \cap unguarded = {}
        /\ \E how \in {"timeout", "error"} : T!ReadRawFails(c, how)
        /\ Goto(c, "restore")
  /\ since' = [since EXCEPT ![c] = @ \cup {"flush"}]
  /\ UNCHANGED <<driver, raised, report, calls>>

\* Both "finally" clauses of an exception the flush read does not swallow.
RecoverEscapes(c) ==
  /\ At(c, "transport_recover", "undecodable")
  /\ SetTimeout("default")
  /\ inRecovery' = FALSE
  /\ Leave(c, "escape")
  /\ UNCHANGED <<link, state, configured, report, since, calls>>

\* Mutant: the short timeout stays.
Bug_NoRestore(c) ==
  /\ At(c, "transport_recover", "restore")
  /\ Goto(c, IF IsSerial THEN "remote" ELSE IF Top(c).drain THEN "drain" ELSE "end")
  /\ UNCHANGED <<link, driver, raised, report, since, calls>>

RecoverRestore(c) ==
  /\ At(c, "transport_recover", "restore")
  /\ SetTimeout("default")
  /\ Goto(c, IF IsSerial THEN "remote" ELSE IF Top(c).drain THEN "drain" ELSE "end")
  /\ UNCHANGED <<link, state, inRecovery, opLock, configured, raised, report, since, calls>>

\* SYSTem:REMote goes to the transport directly; its failure is swallowed.
RecoverRemote(c) ==
  /\ At(c, "transport_recover", "remote")
  /\ Sent(c) \/ \E how \in {"timeout", "error"} : NotSent(c, how)
  /\ Goto(c, IF Top(c).drain THEN "drain" ELSE "end")
  /\ UNCHANGED <<driver, raised, report, since, calls>>

RecoverDrain(c) ==
  /\ At(c, "transport_recover", "drain")
  /\ stack' = [stack EXCEPT ![c] =
        <<QueryCall("SYST:ERR?"),
          [Top(c) EXCEPT !.step = "drained", !.left = @ + 1]>> \o Tail(@)]
  /\ UNCHANGED <<link, driver, raised, report, since, calls>>

\* Mutant: the queue is drained until it is empty, however long that takes.
Bug_DrainToEmpty(c) ==
  /\ At(c, "transport_recover", "drained")
  /\ raised[c] # "escape"
  /\ \/ raised[c] = "ok" /\ Goto(c, "drain")
     \/ Goto(c, "end")
  /\ UNCHANGED <<link, driver, raised, report, since, calls>>

\* Another error to read, or the queue is empty, at its bound, or the query
\* failed with an Hp34401AError, which is swallowed.
RecoverDrained(c) ==
  /\ At(c, "transport_recover", "drained")
  /\ raised[c] # "escape"
  /\ \/ raised[c] = "ok" /\ Top(c).left < MaxDrain /\ Goto(c, "drain")
     \/ Goto(c, "end")
  /\ UNCHANGED <<link, driver, raised, report, since, calls>>

RecoverDrainEscapes(c) ==
  /\ At(c, "transport_recover", "drained")
  /\ raised[c] = "escape"
  /\ inRecovery' = FALSE
  /\ Leave(c, "escape")
  /\ UNCHANGED <<link, timeout, state, configured, report, since, calls>>

RecoverEnd(c) ==
  /\ At(c, "transport_recover", "end")
  /\ inRecovery' = FALSE
  /\ Leave(c, "ok")
  /\ UNCHANGED <<link, timeout, state, configured, report, since, calls>>
-----------------------------------------------------------------------------
(* recover().                                                              *)

RecoverApiBegin(c) ==
  /\ At(c, "recover", "begin")
  /\ Enter(c, "recovered", RecoverCall(TRUE))
  /\ UNCHANGED <<link, driver, raised, report, since, calls>>

Report(c, value) == report' = [report EXCEPT ![c] = value]

\* An Hp34401AError becomes a report, anything else leaves recover().
RecoverApiFails(c) ==
  /\ At(c, "recover", "recovered")
  /\ raised[c] # "ok"
  /\ IF raised[c] = "escape"
     THEN Leave(c, "escape") /\ UNCHANGED report
     ELSE Leave(c, "ok") /\ Report(c, "failed")
  /\ UNCHANGED <<link, timeout, state, inRecovery, configured, since, calls>>

RecoverApiPlain(c) ==
  /\ At(c, "recover", "recovered")
  /\ raised[c] = "ok"
  /\ ~configured
  /\ state' = "CONNECTED_REMOTE"
  /\ Report(c, "succeeded")
  /\ Leave(c, "ok")
  /\ UNCHANGED <<link, timeout, inRecovery, configured, since, calls>>

RecoverApiReconfigure(c) ==
  /\ At(c, "recover", "recovered")
  /\ raised[c] = "ok"
  /\ configured
  /\ LockFree(c)
  /\ \/ Sent(c) /\ state' = "CONFIGURED" /\ Report(c, "succeeded")
     \/ /\ \E how \in {"timeout", "error"} : NotSent(c, how)
        /\ state' = "ERROR_RECOVERY"
        /\ Report(c, "failed")
  /\ Leave(c, "ok")
  /\ UNCHANGED <<timeout, inRecovery, configured, since, calls>>
-----------------------------------------------------------------------------
(* self_test(): a long timeout around *TST?.                               *)

SelfTestBegin(c) ==
  /\ At(c, "self_test", "begin")
  /\ SetTimeout("self_test")
  /\ Enter(c, "end", QueryCall("*TST?"))
  /\ UNCHANGED <<link, state, inRecovery, opLock, configured, raised, report, since, calls>>

SelfTestEnd(c) ==
  /\ At(c, "self_test", "end")
  /\ SetTimeout("default")
  /\ Leave(c, raised[c])
  /\ UNCHANGED <<link, state, inRecovery, configured, report, since, calls>>
-----------------------------------------------------------------------------
(* read_once(): arm, READ?, and after a timeout recover, reconfigure and   *)
(* measure again (R1).  "left" is 1 once the second measurement started.   *)

MeasureRefused(c) ==
  /\ At(c, "read_once", "lock")
  /\ LockFree(c)
  /\ ~configured \/ state \notin Usable
  /\ Leave(c, "error")
  /\ UNCHANGED <<link, timeout, state, inRecovery, configured, report, since, calls>>

MeasureBegin(c) ==
  /\ At(c, "read_once", "lock")
  /\ configured
  /\ state \in Usable
  /\ SetTimeout("active")
  /\ Take(c, "arm", 0)
  /\ UNCHANGED <<link, state, inRecovery, configured, raised, report, since, calls>>

\* The first timeout, of a write or of READ?, is caught; any other exception,
\* and the second timeout, end the call.
MeasureCatch(c, how) ==
  IF how = "timeout" /\ RetryQueries /\ Top(c).left = 0
  THEN /\ Enter(c, "recovered", RecoverCall(TRUE))
       /\ UNCHANGED raised
  ELSE /\ Goto(c, "end")
       /\ raised' = [raised EXCEPT ![c] = how]

MeasureArm(c) ==
  /\ At(c, "read_once", "arm")
  /\ \/ Sent(c) /\ Enter(c, "read", QueryCall("READ?")) /\ UNCHANGED <<state, raised>>
     \/ \E how \in {"timeout", "error"} :
          NotSent(c, how) /\ state' = "ERROR_RECOVERY" /\ MeasureCatch(c, how)
  /\ UNCHANGED <<timeout, inRecovery, opLock, configured, report, since, calls>>

MeasureRead(c) ==
  /\ At(c, "read_once", "read")
  /\ MeasureCatch(c, raised[c])
  /\ UNCHANGED <<link, driver, report, since, calls>>

\* Mutant: the default timeout of the recovery is kept for the second READ?.
Bug_RereadWithDefault(c) ==
  /\ At(c, "read_once", "recovered")
  /\ Goto(c, IF raised[c] = "ok" THEN "reconfigure" ELSE "end")
  /\ UNCHANGED <<link, driver, raised, report, since, calls>>

MeasureRecovered(c) ==
  /\ At(c, "read_once", "recovered")
  /\ IF raised[c] = "ok"
     THEN SetTimeout("active") /\ Goto(c, "reconfigure")
     ELSE Goto(c, "end") /\ UNCHANGED timeout
  /\ UNCHANGED <<link, state, inRecovery, opLock, configured, raised, report, since, calls>>

\* Mutant: the reading is retried without re-applying the configuration.
Bug_NoReconfigure(c) ==
  /\ At(c, "read_once", "reconfigure")
  /\ stack' = [stack EXCEPT ![c][1] = [@ EXCEPT !.step = "arm", !.left = 1]]
  /\ UNCHANGED <<link, driver, raised, report, since, calls>>

MeasureReconfigure(c) ==
  /\ At(c, "read_once", "reconfigure")
  /\ \/ /\ Sent(c)
        /\ state' = "CONFIGURED"
        /\ stack' = [stack EXCEPT ![c][1] = [@ EXCEPT !.step = "arm", !.left = 1]]
        /\ since' = [since EXCEPT ![c] = @ \cup {"reconfigure"}]
        /\ UNCHANGED raised
     \/ \E how \in {"timeout", "error"} :
          /\ NotSent(c, how)
          /\ state' = "ERROR_RECOVERY"
          /\ Goto(c, "end")
          /\ raised' = [raised EXCEPT ![c] = how]
          /\ UNCHANGED since
  /\ UNCHANGED <<timeout, inRecovery, opLock, configured, report, calls>>

\* The "finally", and the state after a reading.  Without retry_queries the
\* state is ERROR_RECOVERY, which the failed query or write already set.
MeasureEnd(c) ==
  /\ At(c, "read_once", "end")
  /\ SetTimeout("default")
  /\ state' = IF raised[c] = "ok" THEN "CONNECTED_REMOTE" ELSE state
  /\ Leave(c, raised[c])
  /\ UNCHANGED <<link, inRecovery, configured, report, since, calls>>
-----------------------------------------------------------------------------
Failure == {"timeout", "error"}

Step(c) ==
  \/ QueryBegin(c) \/ QuerySend(c) \/ QueryRefused(c) \/ QueryReply(c)
  \/ QueryTimeout(c) \/ QueryError(c) \/ QueryEscapes(c) \/ QueryRetry(c)
  \/ Write(c)
  \/ RecoverBegin(c) \/ RecoverClear(c)
  \/ \E how \in Failure : RecoverClearFails(c, how)
  \/ RecoverShorten(c) \/ RecoverFlush(c) \/ RecoverEscapes(c)
  \/ RecoverRestore(c) \/ RecoverRemote(c)
  \/ RecoverDrain(c) \/ RecoverDrained(c) \/ RecoverDrainEscapes(c) \/ RecoverEnd(c)
  \/ RecoverApiBegin(c) \/ RecoverApiFails(c) \/ RecoverApiPlain(c)
  \/ RecoverApiReconfigure(c)
  \/ SelfTestBegin(c) \/ SelfTestEnd(c)
  \/ MeasureRefused(c) \/ MeasureBegin(c) \/ MeasureArm(c) \/ MeasureRead(c)
  \/ MeasureRecovered(c) \/ MeasureReconfigure(c) \/ MeasureEnd(c)

Lose == T!Lose /\ UNCHANGED <<driver, control>>

AtRest == \A c \in Threads : Idle(c)

\* All calls are made and have returned.
Done == AtRest /\ calls = MaxCalls /\ UNCHANGED vars

Next ==
  \/ \E c \in Threads : Step(c) \/ \E op \in Ops : Call(c, op)
  \/ Lose
  \/ Done

\* A thread inside a call keeps running: every wait on the instrument is
\* bounded by a timeout, and the locks are held for bounded work only.
Fairness == \A c \in Threads : WF_vars(Step(c))

Spec == Init /\ [][Next]_vars
FairSpec == Spec /\ Fairness
-----------------------------------------------------------------------------
(* Properties.                                                             *)

States == {"CONNECTED_REMOTE", "CONFIGURED", "HAS_UNREAD_OUTPUT", "ERROR_RECOVERY"}

\* The link keeps its type under the driver's calls, and the driver's own
\* variables theirs; a thread inside an activation that took the lock owns it.
TypeOK ==
  /\ T!TypeOK
  /\ timeout \in {"default", "short", "active", "self_test"}
  /\ state \in States
  /\ inRecovery \in BOOLEAN
  /\ opLock \in Threads \cup {Nobody}
  /\ raised \in [Threads -> {"ok", "timeout", "error", "escape"}]
  /\ report \in [Threads -> {"none", "succeeded", "failed"}]
  /\ \A c \in Threads : (\E i \in DOMAIN stack[c] : stack[c][i].took) => opLock = c

\* query() gives the caller the answer to its own command: no retry, recovery
\* or measurement leaves behind an answer a later query could pick up ("It
\* does not silently return stale readings", docs/safety.md:3).
OwnAnswersOnly ==
  \A c \in Threads : result[c].kind = "answer" => result[c].answer = result[c].question

\* The driver implements an exchange without strays: question by question, the
\* threads get their own answer or a failure, and after a failure nobody asks
\* before a recovery has unblocked the exchange.  The transport alone promises
\* less (module TransportImplements): what clear() leaves behind is a stray
\* until the flush read of _transport_recover() takes it away.
ImplementsStrictExchange == Strict!Spec

\* However the calls end, nothing temporary outlives them: the transport has
\* its default timeout, no recovery is marked as running, no lock is held.
NothingLeftBehind ==
  AtRest => timeout = "default" /\ ~inRecovery /\ opLock = Nobody /\ holder = Nobody

\* Between calls, a driver that says it is ready is ready: the transport would
\* not refuse the next command.
ReadyMeansUnblocked == AtRest /\ state \in Usable => ~unread

\* After a recover() that reports success the transport takes commands again
\* (ai/hp34401a_ai_contract.yaml:55-57).  False when the error-queue drain ran
\* into a timeout, which is swallowed.
RecoveredMeansUsable ==
  [][\A c \in Threads :
       (RecoverApiPlain(c) \/ RecoverApiReconfigure(c)) /\ report'[c] = "succeeded"
         => ~unread]_vars

\* Every attempt after the first follows a completed device clear and, after
\* it, the short flush read, whose outcome does not matter; no other question,
\* such as an error-queue read, is asked in between (R11, _transport_recover()).
RetryFollowsClear ==
  [][\A c \in Threads :
       QuerySend(c) /\ Top(c).step = "resend" => {"clear", "flush"} \subseteq since[c]]_vars

Measuring(c) == Len(stack[c]) > 1 /\ stack[c][2].op = "read_once"

\* The second READ? of read_once() is a new measurement under the
\* configuration, re-applied after the recovery (R1, R6).
RereadIsConfigured ==
  [][\A c \in Threads :
       QuerySend(c) /\ Measuring(c) /\ stack[c][2].left = 1
         => "reconfigure" \in since[c]]_vars

\* A measurement's READ? is sent under the measurement's own timeout, not
\* under the recovery's 0.2 s, the default or another thread's.
ReadHasItsTimeout ==
  [][\A c \in Threads : QuerySend(c) /\ Measuring(c) => timeout = "active"]_vars

(* How many steps an activation may still take, with those of every call it *)
(* may still make: a query with its retries and their recoveries, a recovery *)
(* with the drain, a measurement with its second try.                        *)
QuerySteps == 3 + 10 * MaxRetries
DrainSteps(left) == (MaxDrain - left) * (QuerySteps + 2)
RecoverySteps == 7 + DrainSteps(0)

Cost(a) ==
  CASE a.op = "query" /\ a.step = "lock" -> QuerySteps
    [] a.op = "query" /\ a.step # "lock" ->
         10 * a.left + [send |-> 2, wait |-> 1, retry |-> 3, resend |-> 2][a.step]
    [] a.op = "transport_recover" ->
         [begin |-> 7, clear |-> 6, shorten |-> 5, flush |-> 4, undecodable |-> 1,
          restore |-> 3, remote |-> 2, drain |-> 1, drained |-> 2, end |-> 1][a.step]
         + IF a.drain /\ a.step \notin {"undecodable", "end"} THEN DrainSteps(a.left) ELSE 0
    [] a.op = "read_once" /\ a.step = "lock" -> RecoverySteps + 2 * QuerySteps + 8
    [] a.op = "read_once" /\ a.step = "arm" ->
         QuerySteps + IF a.left = 0 THEN RecoverySteps + QuerySteps + 7 ELSE 3
    [] a.op = "read_once" /\ a.step = "read" ->
         IF a.left = 0 THEN RecoverySteps + QuerySteps + 6 ELSE 2
    [] a.op = "read_once" /\ a.step = "recovered" -> QuerySteps + 5
    [] a.op = "read_once" /\ a.step = "reconfigure" -> QuerySteps + 4
    [] a.op = "recover" /\ a.step = "begin" -> RecoverySteps + 2
    [] a.op = "self_test" /\ a.step = "begin" -> QuerySteps + 2
    [] OTHER -> 1

\* The same for a whole call: no stack is deeper than four.
CostAt(s, i) == IF i \in DOMAIN s THEN Cost(s[i]) ELSE 0
StepsLeft(c) ==
  CostAt(stack[c], 1) + CostAt(stack[c], 2) + CostAt(stack[c], 3) + CostAt(stack[c], 4)

MostSteps == RecoverySteps + 2 * QuerySteps + 8

\* No public call goes on for ever: it has at most MostSteps steps to take, and
\* whatever the instrument and the other threads do, each step of its thread
\* leaves it fewer.  With the defaults (one retry, 25 errors drained) that is
\* 416, although a recovery may start inside the drain of another: a second
\* thread that ends its own recovery lowers _in_recovery for both.
CallsAreBounded ==
  [][\A c \in Threads :
       /\ Step(c) => StepsLeft(c)' < StepsLeft(c)
       /\ \A op \in Ops : Call(c, op) => StepsLeft(c)' <= MostSteps]_vars

\* Every public call returns, whatever the instrument does: retries, drains
\* and recoveries end, and no two threads wait for each other.
CallsReturn == \A c \in Threads : ~Idle(c) ~> Idle(c)
=============================================================================
