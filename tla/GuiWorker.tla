-------------------------------- MODULE GuiWorker --------------------------------
(***************************************************************************)
(* The Tk window and its worker threads (legacy_app.py).  Each button      *)
(* starts a thread; the thread that gets worker_lock without waiting runs  *)
(* the operation, any other only logs.  The window's thread reads the      *)
(* event queue every 100 ms, sets and clears the stop flag, and closes the *)
(* driver itself when the window is closed.                                *)
(***************************************************************************)
EXTENDS Naturals

CONSTANTS
  Workers,      \* bound on the threads alive at once
  Nobody,
  MaxClicks,    \* bound on the buttons pressed
  MaxDrivers    \* bound on the drivers that are built

ASSUME GuiAssumption ==
  Nobody \notin Workers /\ MaxClicks \in Nat /\ MaxDrivers \in Nat

\* "call" is any other operation, most of them on the driver.
Kinds == {"connect", "disconnect", "call", "loop"}
Statuses == Kinds \cup {"Ready"}
Nothing == "nothing"
NoDriver == 0
Idle == [kind |-> "call", pc |-> "idle"]

VARIABLES
  job,      \* what each thread does and where it is
  lock,     \* worker_lock
  stop,     \* continuous_stop
  driver,   \* state.driver, numbered as built
  opened,   \* drivers that are open
  op,       \* the driver whose operation lock a worker holds
  event,    \* label of the last busy event that is not polled yet
  status,   \* the state the window shows
  ui,       \* "running", "closing", "destroyed" or "exited"
  target,   \* the driver that closing the window closes
  clicks,   \* buttons still to be pressed
  pressed,  \* the last of Start and Stop that was pressed (history)
  extra,    \* readings the loop has tried since Stop (history)
  hurried   \* the window was closed before a Connect was over (history)

drivers == <<driver, opened>>
shown == <<event, status>>
history == <<clicks, pressed, extra>>
window == <<ui, target, hurried>>
vars == <<job, lock, stop, drivers, op, shown, window, history>>

Init ==
  /\ job = [w \in Workers |-> Idle]
  /\ lock = Nobody /\ stop = FALSE
  /\ driver = NoDriver /\ opened = {} /\ op = NoDriver
  /\ event = Nothing /\ status = "Ready"
  /\ ui = "running" /\ target = NoDriver
  /\ clicks = MaxClicks /\ pressed = "none" /\ extra = 0 /\ hurried = FALSE

At(w, pc) == job[w].pc = pc /\ ui # "exited"
Does(w, kind, pc) == At(w, pc) /\ job[w].kind = kind
Goes(w, pc) == job' = [job EXCEPT ![w].pc = pc]
-----------------------------------------------------------------------------
(* The window.                                                             *)

Press(w, kind) ==
  /\ ui = "running" /\ clicks > 0 /\ job[w] = Idle
  /\ clicks' = clicks - 1
  /\ job' = [job EXCEPT ![w] = [kind |-> kind, pc |-> "spawned"]]

\* Every button but Start and Stop; Raw Query and Write have been confirmed.
PressButton(w, kind) ==
  /\ kind # "loop"
  /\ Press(w, kind)
  /\ UNCHANGED <<lock, stop, drivers, op, shown, window, pressed, extra>>

\* start_continuous() clears the flag, then converts the interval, which may fail,
\* then starts the thread.
StartContinuous(w) ==
  /\ \/ Press(w, "loop")
     \/ ui = "running" /\ clicks > 0 /\ clicks' = clicks - 1 /\ UNCHANGED job
  /\ stop' = FALSE /\ pressed' = "start" /\ extra' = 0
  /\ UNCHANGED <<lock, drivers, op, shown, window>>

StopContinuous ==
  /\ ui = "running" /\ clicks > 0
  /\ clicks' = clicks - 1
  /\ stop' = TRUE /\ pressed' = "stop" /\ extra' = 0
  /\ UNCHANGED <<job, lock, drivers, op, shown, window>>

\* _poll_events() takes everything that is there; the window shows the last label.
PollEvents ==
  /\ ui = "running" /\ event # Nothing
  /\ status' = event
  /\ event' = Nothing
  /\ UNCHANGED <<job, lock, stop, drivers, op, window, history>>

OnClose ==
  /\ ui = "running"
  /\ stop' = TRUE
  /\ ui' = "closing" /\ target' = driver
  /\ hurried' = (\E w \in Workers : job[w].kind = "connect")
  /\ UNCHANGED <<job, lock, drivers, op, shown, history>>

\* Mutant: the window is destroyed without closing the driver.
Bug_CloseDriver ==
  /\ ui = "closing"
  /\ ui' = "destroyed"
  /\ UNCHANGED <<job, lock, stop, drivers, op, shown, target, hurried, history>>

\* close() waits for the driver's operation lock, in the window's thread.
CloseDriver ==
  /\ ui = "closing" /\ (target = NoDriver \/ op # target)
  /\ opened' = opened \ {target}
  /\ ui' = "destroyed"
  /\ UNCHANGED <<job, lock, stop, driver, op, shown, target, hurried, history>>

\* The threads are daemons: they end with the process.
Exit ==
  /\ ui = "destroyed"
  /\ ui' = "exited"
  /\ UNCHANGED <<job, lock, stop, drivers, op, shown, target, hurried, history>>
-----------------------------------------------------------------------------
(* A worker.                                                               *)

\* Mutant: the loop clears the flag when it begins.
Bug_Acquire(w) ==
  /\ At(w, "spawned") /\ lock = Nobody
  /\ lock' = w
  /\ event' = job[w].kind
  /\ stop' = IF job[w].kind = "loop" THEN FALSE ELSE stop
  /\ Goes(w, "begun")
  /\ UNCHANGED <<drivers, op, status, window, history>>

Acquire(w) ==
  /\ At(w, "spawned") /\ lock = Nobody
  /\ lock' = w
  /\ event' = job[w].kind
  /\ Goes(w, "begun")
  /\ UNCHANGED <<stop, drivers, op, status, window, history>>

\* Mutant: the result of acquire(blocking=False) is not looked at.
Bug_Refuse(w) ==
  /\ At(w, "spawned") /\ lock # Nobody
  /\ event' = job[w].kind
  /\ Goes(w, "begun")
  /\ UNCHANGED <<lock, stop, drivers, op, status, window, history>>

Refuse(w) ==
  /\ At(w, "spawned") /\ lock # Nobody
  /\ job' = [job EXCEPT ![w] = Idle]
  /\ UNCHANGED <<lock, stop, drivers, op, shown, window, history>>

IsConnected == driver \in opened

\* A driver operation holds the operation lock until it returns or raises.
BeginCall(w) ==
  /\ Does(w, "call", "begun") /\ IsConnected /\ op = NoDriver
  /\ op' = driver
  /\ Goes(w, "calling")
  /\ UNCHANGED <<lock, stop, drivers, shown, window, history>>

EndCall(w) ==
  /\ At(w, "calling")
  /\ op' = NoDriver
  /\ Goes(w, IF job[w].kind = "loop" THEN "begun" ELSE "ended")
  /\ UNCHANGED <<lock, stop, drivers, shown, window, history>>

\* Not connected, or an operation without the driver (Refresh VISA list).
EndAtOnce(w) ==
  /\ Does(w, "call", "begun")
  /\ Goes(w, "ended")
  /\ UNCHANGED <<lock, stop, drivers, op, shown, window, history>>

\* Mutant: the loop skips the reading but goes round again.
Bug_LoopStops(w) == Does(w, "loop", "begun") /\ stop /\ UNCHANGED vars

\* The loop looks at the flag, then measures; an error is one more event, and
\* wait() returns when the flag is set or the interval is over.
LoopStops(w) ==
  /\ Does(w, "loop", "begun") /\ stop
  /\ Goes(w, "ended")
  /\ UNCHANGED <<lock, stop, drivers, op, shown, window, history>>

LoopChecks(w) ==
  /\ Does(w, "loop", "begun") /\ ~stop
  /\ Goes(w, "checked")
  /\ UNCHANGED <<lock, stop, drivers, op, shown, window, history>>

LoopMeasures(w) ==
  /\ At(w, "checked")
  /\ IF IsConnected /\ op = NoDriver THEN op' = driver /\ Goes(w, "calling")
                                     ELSE Goes(w, "begun") /\ UNCHANGED op
  /\ extra' = IF pressed = "stop" THEN extra + 1 ELSE extra
  /\ UNCHANGED <<lock, stop, drivers, shown, window, clicks, pressed>>

\* connect() closes the driver before, then builds one, which may fail.
ConnectBuilds(w) ==
  /\ Does(w, "connect", "begun") /\ op = NoDriver
  /\ opened' = opened \ {driver}
  /\ \/ driver < MaxDrivers /\ driver' = driver + 1 /\ Goes(w, "built")
     \/ UNCHANGED driver /\ Goes(w, "ended")
  /\ UNCHANGED <<lock, stop, op, shown, window, history>>

ConnectOpens(w) ==
  /\ At(w, "built")
  /\ opened' = opened \cup {driver} /\ op' = driver
  /\ Goes(w, "opening")
  /\ UNCHANGED <<lock, stop, driver, shown, window, history>>

ConnectEnds(w) ==
  /\ At(w, "opening")
  /\ opened' \in {opened, opened \ {driver}} /\ op' = NoDriver
  /\ Goes(w, "ended")
  /\ UNCHANGED <<lock, stop, driver, shown, window, history>>

DisconnectCloses(w) ==
  /\ Does(w, "disconnect", "begun") /\ op = NoDriver
  /\ stop' = TRUE
  /\ opened' = opened \ {driver}
  /\ Goes(w, "ended")
  /\ UNCHANGED <<lock, driver, op, shown, window, history>>

\* Mutant: a thread whose operation found no open driver does not say Ready.
Bug_Release(w) ==
  /\ At(w, "ended")
  /\ lock' = Nobody
  /\ job' = [job EXCEPT ![w] = IF IsConnected THEN [@ EXCEPT !.pc = "released"] ELSE Idle]
  /\ UNCHANGED <<stop, drivers, op, shown, window, history>>

\* The result or the error is put, the lock released, and then Ready is put.
Release(w) ==
  /\ At(w, "ended")
  /\ lock' = Nobody
  /\ Goes(w, "released")
  /\ UNCHANGED <<stop, drivers, op, shown, window, history>>

SayReady(w) ==
  /\ At(w, "released")
  /\ event' = "Ready"
  /\ job' = [job EXCEPT ![w] = Idle]
  /\ UNCHANGED <<lock, stop, drivers, op, status, window, history>>

Work(w) ==
  \/ Acquire(w) \/ Refuse(w) \/ BeginCall(w) \/ EndCall(w) \/ EndAtOnce(w)
  \/ LoopStops(w) \/ LoopChecks(w) \/ LoopMeasures(w)
  \/ ConnectBuilds(w) \/ ConnectOpens(w) \/ ConnectEnds(w) \/ DisconnectCloses(w)
  \/ Release(w) \/ SayReady(w)

Next ==
  \/ \E w \in Workers :
       \/ StartContinuous(w) \/ Work(w)
       \/ \E kind \in Kinds : PressButton(w, kind)
  \/ StopContinuous \/ PollEvents \/ OnClose \/ CloseDriver \/ Exit

\* Threads are scheduled and driver operations end at their timeouts; nothing makes
\* the operator press a button or close the window.
Fairness == WF_vars(PollEvents) /\ WF_vars(CloseDriver) /\ \A w \in Workers : WF_vars(Work(w))

Spec == Init /\ [][Next]_vars /\ Fairness
-----------------------------------------------------------------------------
Working == {"begun", "checked", "calling", "built", "opening", "ended"}
LoopRuns ==
  /\ ui # "exited"
  /\ \E w \in Workers : Does(w, "loop", job[w].pc) /\ job[w].pc \in Working \ {"ended"}

\* Types, and that an operation is run by the thread that holds worker_lock.
TypeOK ==
  /\ \A w \in Workers : lock = w <=> job[w].pc \in Working
  /\ job \in [Workers -> [kind : Kinds, pc : {"idle", "spawned", "begun", "checked", "calling",
       "built", "opening", "ended", "released"}]]
  /\ lock \in Workers \cup {Nobody} /\ stop \in BOOLEAN
  /\ driver \in 0..MaxDrivers /\ opened \subseteq 1..MaxDrivers /\ op \in 0..MaxDrivers
  /\ status \in Statuses /\ event \in Statuses \cup {Nothing}
  /\ ui \in {"running", "closing", "destroyed", "exited"}
  /\ target \in 0..MaxDrivers /\ hurried \in BOOLEAN
  /\ clicks \in 0..MaxClicks /\ pressed \in {"none", "start", "stop"} /\ extra \in Nat

\* No driver is open that state.driver has lost, and the process ends with no
\* driver open unless a Connect was not over when the window was closed.
NoDriverIsLost ==
  /\ opened \subseteq {driver}
  /\ ui = "exited" => opened = {} \/ hurried

\* After Stop the loop tries at most one more reading, also when the flag was set
\* before the loop's thread ran or after it looked.
OneMoreReading == extra <= 1

\* When no operation is running and everything is polled, the window says so, in
\* whichever order threads put their events.
StatusSettles ==
  ui = "running" /\ event = Nothing /\ (\A w \in Workers : job[w] = Idle) => status = "Ready"

\* After Stop the loop ends, unless Start is pressed again.
StopEndsTheLoop == pressed = "stop" ~> (~LoopRuns \/ pressed # "stop")

\* The window's thread never waits for the instrument, as legacy_app.py says.
WindowNeverWaits == ~(ui = "closing" /\ op # NoDriver /\ op = target)
=============================================================================
