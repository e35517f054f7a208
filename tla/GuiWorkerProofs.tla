---------------------------- MODULE GuiWorkerProofs ----------------------------
(***************************************************************************)
(* For any number of worker threads, clicks and drivers: worker_lock is    *)
(* held by the thread that runs an operation and no other, no driver is    *)
(* lost open, Stop allows one more reading, and the status settles.        *)
(*                                                                         *)
(* Each of the last three is strengthened: NoDriverIsLost by what closing  *)
(* the window knows of connecting threads (WindowCloses), OneMoreReading   *)
(* by where the one reading can still be (StopIsSeen), StatusSettles by    *)
(* the thread that will still say Ready (SomebodyWillSayReady).            *)
(***************************************************************************)
EXTENDS GuiWorker, TLAPS

\* What a thread that builds or opens a driver is.
Connecting ==
  \A w \in Workers :
    job[w].pc \in {"built", "opening"} =>
      job[w].kind = "connect" /\ driver \in 1..MaxDrivers

\* Once the window closes, no Connect begins: unless one was not over, the driver
\* that is being closed is the last, and after it none is open.
WindowCloses ==
  ui # "running" /\ ~hurried =>
    /\ target = driver /\ \A w \in Workers : job[w].kind # "connect"
    /\ ui # "closing" => opened = {}

\* After Stop the flag is up, and a reading that is still to come is the first.
StopIsSeen ==
  /\ pressed = "stop" => stop
  /\ pressed # "stop" => extra = 0
  /\ (\E w \in Workers : job[w].pc = "checked") => extra = 0

\* The last label is Ready, or a thread has yet to say it.
SomebodyWillSayReady ==
  \/ event = "Ready"
  \/ event = Nothing /\ status = "Ready"
  \/ \E w \in Workers : job[w].pc \in Working \cup {"released"}

IInv ==
  /\ TypeOK
  /\ Connecting /\ opened \subseteq {driver}
  /\ WindowCloses
  /\ StopIsSeen /\ OneMoreReading
  /\ SomebodyWillSayReady

USE GuiAssumption DEF Nothing, NoDriver, Idle, Kinds, Statuses, Working

\* At the start nothing runs, nothing is open, and the window shows Ready.
LEMMA InitOK == Init => IInv
<1> SUFFICES ASSUME Init PROVE IInv
  OBVIOUS
<1>1. TypeOK
  <2>1. stop \in BOOLEAN /\ hurried \in BOOLEAN
    BY DEF Init
  <2>2. /\ \A w \in Workers : lock = w <=> job[w].pc \in Working
        /\ lock \in Workers \cup {Nobody}
        /\ job \in [Workers -> [kind : Kinds, pc : {"idle", "spawned", "begun", "checked",
             "calling", "built", "opening", "ended", "released"}]]
        /\ driver \in 0..MaxDrivers /\ opened \subseteq 1..MaxDrivers /\ op \in 0..MaxDrivers
        /\ status \in Statuses /\ event \in Statuses \cup {Nothing}
        /\ ui \in {"running", "closing", "destroyed", "exited"}
        /\ target \in 0..MaxDrivers
        /\ clicks \in 0..MaxClicks /\ pressed \in {"none", "start", "stop"} /\ extra \in Nat
    BY DEF Init
  <2> QED BY <2>1, <2>2 DEF TypeOK
<1>2. Connecting /\ opened \subseteq {driver} /\ WindowCloses /\ StopIsSeen
  BY DEF Init, Connecting, WindowCloses, StopIsSeen
<1>3. OneMoreReading /\ SomebodyWillSayReady
  BY DEF Init, OneMoreReading, SomebodyWillSayReady
<1> QED BY <1>1, <1>2, <1>3 DEF IInv

\* Start lowers the flag before it knows whether a loop runs.
LEMMA StartStep == ASSUME IInv, NEW w \in Workers, StartContinuous(w) PROVE IInv'
<1>1. stop' \in BOOLEAN /\ pressed' = "start" /\ extra' = 0
  BY DEF StartContinuous
<1>2. \/ UNCHANGED job
      \/ job[w] = Idle /\ job' = [job EXCEPT ![w] = [kind |-> "loop", pc |-> "spawned"]]
  BY DEF StartContinuous, Press
<1>3. ui = "running" /\ clicks' \in 0..MaxClicks
  BY DEF StartContinuous, Press, IInv, TypeOK
<1>4. UNCHANGED <<lock, driver, opened, op, event, status, ui, target, hurried>>
  BY DEF StartContinuous, drivers, shown, window
<1>5. TypeOK'
  BY <1>1, <1>2, <1>3, <1>4 DEF IInv, TypeOK
<1>6. Connecting' /\ opened' \subseteq {driver'} /\ WindowCloses'
  BY <1>2, <1>3, <1>4 DEF IInv, TypeOK, Connecting, WindowCloses
<1>7. StopIsSeen' /\ OneMoreReading'
  BY <1>1 DEF StopIsSeen, OneMoreReading
<1>8. SomebodyWillSayReady'
  BY <1>2, <1>4 DEF IInv, TypeOK, SomebodyWillSayReady
<1> QED BY <1>5, <1>6, <1>7, <1>8 DEF IInv

\* The steps of the window's thread.
LEMMA WindowStep ==
  ASSUME IInv,
         \/ \E w \in Workers : StartContinuous(w) \/ \E kind \in Kinds : PressButton(w, kind)
         \/ StopContinuous \/ PollEvents \/ OnClose \/ CloseDriver \/ Exit
  PROVE  IInv'
<1> USE DEF IInv, TypeOK, Connecting, WindowCloses, StopIsSeen, OneMoreReading,
      SomebodyWillSayReady, drivers, shown, window, history
<1>1. ASSUME NEW w \in Workers, StartContinuous(w) PROVE IInv'
  BY <1>1, StartStep
<1>2. ASSUME NEW w \in Workers, NEW kind \in Kinds, PressButton(w, kind) PROVE IInv'
  BY <1>2 DEF PressButton, Press
<1>3. CASE StopContinuous BY <1>3 DEF StopContinuous
<1>4. CASE PollEvents BY <1>4 DEF PollEvents
<1>5. CASE OnClose BY <1>5 DEF OnClose
<1>6. CASE CloseDriver BY <1>6 DEF CloseDriver
<1>7. CASE Exit BY <1>7 DEF Exit
<1> QED BY <1>1, <1>2, <1>3, <1>4, <1>5, <1>6, <1>7

\* The steps of a worker.
LEMMA WorkStep == ASSUME IInv, NEW w \in Workers, Work(w) PROVE IInv'
<1> USE DEF IInv, TypeOK, Connecting, WindowCloses, StopIsSeen, OneMoreReading,
      SomebodyWillSayReady, drivers, shown, window, history, At, Does, Goes
<1>1. CASE Acquire(w) BY <1>1 DEF Acquire
<1>2. CASE Refuse(w) BY <1>2 DEF Refuse
<1>3. CASE BeginCall(w) BY <1>3 DEF BeginCall, IsConnected
<1>4. CASE EndCall(w) BY <1>4 DEF EndCall
<1>5. CASE EndAtOnce(w) BY <1>5 DEF EndAtOnce
<1>6. CASE LoopStops(w) BY <1>6 DEF LoopStops
<1>7. CASE LoopChecks(w) BY <1>7 DEF LoopChecks
<1>8. CASE LoopMeasures(w) BY <1>8 DEF LoopMeasures, IsConnected
<1>9. CASE ConnectBuilds(w) BY <1>9 DEF ConnectBuilds
<1>10. CASE ConnectOpens(w) BY <1>10 DEF ConnectOpens
<1>11. CASE ConnectEnds(w) BY <1>11 DEF ConnectEnds
<1>12. CASE DisconnectCloses(w) BY <1>12 DEF DisconnectCloses
<1>13. CASE Release(w) BY <1>13 DEF Release
<1>14. CASE SayReady(w) BY <1>14 DEF SayReady
<1> QED
  BY <1>1, <1>2, <1>3, <1>4, <1>5, <1>6, <1>7, <1>8, <1>9, <1>10, <1>11, <1>12, <1>13,
     <1>14 DEF Work

\* Every step preserves the invariant.
LEMMA InductiveStep == IInv /\ [Next]_vars => IInv'
<1>1. CASE UNCHANGED vars
  BY <1>1 DEF IInv, vars, TypeOK, Connecting, WindowCloses, StopIsSeen, OneMoreReading,
    SomebodyWillSayReady, drivers, shown, window, history
<1> QED BY <1>1, WindowStep, WorkStep DEF Next

\* The invariant holds in every reachable state.
LEMMA Inductive == Spec => []IInv
BY InitOK, InductiveStep, PTL DEF Spec

\* Every variable has its type, and worker_lock is held by the one thread that runs
\* an operation (_run_worker()).
THEOREM LockIsExclusive == Spec => []TypeOK
BY Inductive, PTL DEF IInv

\* No open driver is forgotten, and closing the window closes the driver unless a
\* Connect was not over (connect(), disconnect(), on_close()).
THEOREM NeverLost == Spec => []NoDriverIsLost
<1>1. IInv => NoDriverIsLost
  BY DEF IInv, WindowCloses, NoDriverIsLost, TypeOK
<1> QED BY Inductive, <1>1, PTL

\* After Stop the continuous loop reads at most once more.
THEOREM StopsSoon == Spec => []OneMoreReading
BY Inductive, PTL DEF IInv

\* When all is over and polled, the window shows Ready.
THEOREM Settles == Spec => []StatusSettles
<1>1. IInv => StatusSettles
  BY DEF IInv, SomebodyWillSayReady, StatusSettles
<1> QED BY Inductive, <1>1, PTL
=============================================================================
