--------------------------- MODULE MeasurementProofs ---------------------------
(***************************************************************************)
(* For any number of threads, functions and settings: the types and the    *)
(* lock, what a measure_*() returns, the label of a reading, and when the  *)
(* driver loses sight of a trigger source.                                 *)
(*                                                                         *)
(* The strengthening follows a measure_*() from its configure to its READ? *)
(* (Asked), and says what the driver believes of the configuration in      *)
(* force while nothing of it is still to be written (Labels).              *)
(***************************************************************************)
EXTENDS Measurement, TLAPS

Locked == {"m_load", "m_apply", "read", "ask", "clear", "drain", "reapply",
           "reread", "bus", "bus_trigger", "bus_fetch"}
Instrument == [conf : Configs, trig : {"IMM", "BUS"}, armed : BOOLEAN, stored : BOOLEAN]

Types ==
  /\ dmm \in Instrument
  /\ open \in BOOLEAN /\ blocked \in BOOLEAN /\ torn \in BOOLEAN /\ stuck \in BOOLEAN
  /\ state \in States
  /\ active \in Beliefs
  /\ recipe \in Recipes
  /\ trigger \in {"IMM", "BUS"}
  /\ opLock \in Threads \cup {Nobody}
  /\ pc \in [Threads -> Places]
  /\ want \in [Threads -> Recipes]
  /\ chosen \in [Threads -> Recipes]
  /\ DOMAIN reading = Threads

Locking == \A c \in Threads : pc[c] \in Locked => opLock = c

\* Only a setting that is written late is still to be written.
Halfway == \A c \in Threads : pc[c] = "late" => Late(chosen[c])

IInv == Types /\ Locking /\ Halfway

\* A measure_*() on its way from its configure to its reading, with the lock, so that the
\* recipe is its own unless a reset has made the driver forget it.
Reads == {"read", "ask", "clear", "drain", "reapply", "reread"}
AskedBy(c) ==
  /\ pc[c] = "m_load" => recipe \in {want[c], NoConfig} /\ want[c] # NoConfig /\ ~Late(want[c])
  /\ pc[c] = "m_apply" => {recipe, chosen[c]} \subseteq {want[c], NoConfig}
  /\ pc[c] \in Reads /\ want[c] # NoConfig =>
       open /\ dmm.conf = want[c] /\ recipe \in {want[c], NoConfig}
Asked == (\A c \in Threads : AskedBy(c)) /\ MeasureIsAsked

Alone == \A c, d \in Threads : c = d

\* What the driver believes is in force, while the setting of FREQ or PERIOD is not
\* still to be written.
Believed(conf) == Fits(active, conf)
LabelledBy(c) ==
  /\ pc[c] = "forget" => torn /\ dmm.conf.func = PowerOn /\ "reset" \in Ops
  /\ pc[c] = "late" => torn \/ (active = chosen[c] /\ dmm.conf.func = chosen[c].func)
  /\ pc[c] = "label" => /\ "fetch" \in Ops
                        /\ reading[c].op = "none"
                        /\ reading[c].torn \/ Fits(active, reading[c].taken)
  /\ reading[c].torn \/ Labelled(reading[c])
Labels ==
  /\ \A c \in Threads : LabelledBy(c)
  /\ (\A c \in Threads : pc[c] # "late") => torn \/ Believed(dmm.conf)
-----------------------------------------------------------------------------
(* What the commands do to the instrument.                                 *)

LEMMA ConfigIs ==
  /\ \A f \in Functions, s \in Settings :
       Config(f, s) \in Configs /\ Config(f, s).func = f /\ Config(f, s).setting = s
  /\ \A r \in Configs :
       /\ r.func \in Functions /\ r.setting \in Settings
       /\ Config(r.func, Default) \in Configs /\ Config(r.func, Default).func = r.func
  /\ Config(PowerOn, Default) \in Configs /\ Config(PowerOn, Default).func = PowerOn
  /\ NoConfig \notin Configs /\ Rejected \notin Configs /\ NoConfig # Rejected
BY MeasurementAssumption, NoConfigAssumption DEF Config, Configs

\* Only CONFigure, the late setting and *RST change the configuration.
Alters(d, e) == e \in Instrument /\ e.conf = d.conf
LEMMA Effects ==
  ASSUME NEW d \in Instrument
  PROVE  /\ d.conf \in Configs
         /\ \A r \in Configs : AfterConf(r) \in Instrument /\ AfterConf(r).conf = r
         /\ \A r \in Configs : [d EXCEPT !.conf = r] \in Instrument /\ [d EXCEPT !.conf = r].conf = r
         /\ AfterReset \in Instrument /\ AfterReset.conf = Config(PowerOn, Default)
         /\ Alters(d, AfterInit(d)) /\ Alters(d, AfterRead(d))
<1>1. d.conf \in Configs
  BY DEF Instrument
<1>2. \A r \in Configs : AfterConf(r) \in Instrument /\ AfterConf(r).conf = r
  BY DEF AfterConf, Instrument
<1>3. \A r \in Configs : [d EXCEPT !.conf = r] \in Instrument /\ [d EXCEPT !.conf = r].conf = r
  BY DEF Instrument
<1>4. Alters(d, AfterInit(d)) /\ Alters(d, AfterRead(d))
  BY DEF Alters, AfterInit, AfterRead, Instrument
<1> QED BY <1>1, <1>2, <1>3, <1>4, ConfigIs DEF AfterReset

LEMMA EffectsNow ==
  ASSUME Types
  PROVE  /\ \A src \in {"IMM", "BUS"} : Alters(dmm, AfterTrigger(src))
         /\ \A src \in {"IMM", "BUS"} : Alters(dmm, AfterInit(AfterTrigger(src)))
         /\ \A src \in {"IMM", "BUS"} : Alters(dmm, AfterRead(AfterTrigger(src)))
         /\ Alters(dmm, AfterInit(dmm)) /\ Alters(dmm, AfterRead(dmm))
         /\ Alters(dmm, AfterClear) /\ Alters(dmm, AfterTrg) /\ Alters(dmm, dmm)
<1>1. dmm \in Instrument
  BY DEF Types
<1>2. \A src \in {"IMM", "BUS"} : Alters(dmm, AfterTrigger(src))
  BY <1>1 DEF Alters, AfterTrigger, Instrument
<1>3. \A src \in {"IMM", "BUS"} : /\ Alters(AfterTrigger(src), AfterInit(AfterTrigger(src)))
                                  /\ Alters(AfterTrigger(src), AfterRead(AfterTrigger(src)))
  BY <1>2, Effects DEF Alters
<1>4. Alters(dmm, AfterClear) /\ Alters(dmm, AfterTrg) /\ Alters(dmm, dmm)
  BY <1>1 DEF Alters, AfterClear, AfterTrg, Instrument
<1>5. Alters(dmm, AfterInit(dmm)) /\ Alters(dmm, AfterRead(dmm))
  BY <1>1, Effects
<1> QED BY <1>2, <1>3, <1>4, <1>5 DEF Alters
-----------------------------------------------------------------------------
(* What a step of a thread leaves to the others.                           *)

Mine(c) ==
  /\ pc' \in [Threads -> Places]
  /\ \A d \in Threads \ {c} : pc'[d] = pc[d]
  /\ opLock' = opLock \/ (opLock \in {Nobody, c} /\ opLock' \in {Nobody, c})
  /\ pc'[c] \in Locked => opLock' = c
LEMMA MovesAre ==
  ASSUME IInv, NEW c \in Threads, Step(c) \/ Call(c)
  PROVE  Mine(c)
<1>a. /\ pc \in [Threads -> Places] /\ opLock \in Threads \cup {Nobody}
      /\ c # Nobody
  BY MeasurementAssumption DEF IInv, Types
<1>b. pc[c] \in Locked => opLock = c
  BY DEF IInv, Locking
<1>c. ASSUME NEW where \in Places, Goto(c, where), where \in Locked => opLock = c
      PROVE  Mine(c)
  BY <1>a, <1>c DEF Mine, Goto
<1>d. ASSUME Ends(c) PROVE Mine(c)
  <2>1. "idle" \in Places /\ "idle" \notin Locked
    BY DEF Places, Locked
  <2> QED BY <1>a, <1>d, <2>1 DEF Mine, Ends
<1>e. ASSUME NEW op, NEW r, NEW where \in Places, Takes(c, op, r, where) PROVE Mine(c)
  BY <1>a, <1>e DEF Mine, Takes, Begins, LockFree
<1>f. ASSUME NEW op, Briefly(c, op) PROVE Mine(c)
  BY <1>a, <1>b, <1>f DEF Mine, Briefly, control
<1>g. ASSUME UNCHANGED control PROVE Mine(c)
  BY <1>a, <1>b, <1>g DEF Mine, control
<1>1. CASE Load(c)
  BY <1>b, <1>c, <1>d, <1>e, <1>f, <1>g, <1>1 DEF Load, Places, Locked
<1>2. CASE ApplyConfigure(c)
  BY <1>b, <1>c, <1>d, <1>e, <1>f, <1>g, <1>2 DEF ApplyConfigure, Places, Locked
<1>3. CASE ApplyLate(c)
  BY <1>b, <1>c, <1>d, <1>e, <1>f, <1>g, <1>3 DEF ApplyLate, Places, Locked
<1>4. CASE MeasureApply(c)
  BY <1>b, <1>c, <1>d, <1>e, <1>f, <1>g, <1>4 DEF MeasureApply, Places, Locked
<1>5. CASE ReadRefused(c)
  BY <1>b, <1>c, <1>d, <1>e, <1>f, <1>g, <1>5 DEF ReadRefused, Places, Locked
<1>6. CASE ReadAllowed(c)
  BY <1>b, <1>c, <1>d, <1>e, <1>f, <1>g, <1>6 DEF ReadAllowed, Places, Locked
<1>7. CASE ReadFirst(c)
  BY <1>b, <1>c, <1>d, <1>e, <1>f, <1>g, <1>7 DEF ReadFirst, Places, Locked
<1>8. CASE ReadReapply(c)
  BY <1>b, <1>c, <1>d, <1>e, <1>f, <1>g, <1>8 DEF ReadReapply, Places, Locked
<1>9. CASE ReadAgain(c)
  BY <1>b, <1>c, <1>d, <1>e, <1>f, <1>g, <1>9 DEF ReadAgain, Places, Locked
<1>10. CASE RecoverClear(c)
  BY <1>b, <1>c, <1>d, <1>e, <1>f, <1>g, <1>10 DEF RecoverClear, Places, Locked
<1>11. CASE RecoverDrain(c)
  BY <1>b, <1>c, <1>d, <1>e, <1>f, <1>g, <1>11 DEF RecoverDrain, Places, Locked
<1>12. CASE RecoverLoad(c)
  BY <1>b, <1>c, <1>d, <1>e, <1>f, <1>g, <1>12 DEF RecoverLoad, Places, Locked
<1>13. CASE BusArm(c)
  BY <1>b, <1>c, <1>d, <1>e, <1>f, <1>g, <1>13 DEF BusArm, Places, Locked
<1>14. CASE BusTrigger(c)
  BY <1>b, <1>c, <1>d, <1>e, <1>f, <1>g, <1>14 DEF BusTrigger, Places, Locked
<1>15. CASE BusFetch(c)
  BY <1>b, <1>c, <1>d, <1>e, <1>f, <1>g, <1>15 DEF BusFetch, Places, Locked
<1>16. CASE KeepTrigger(c)
  BY <1>b, <1>c, <1>d, <1>e, <1>f, <1>g, <1>16 DEF KeepTrigger, Places, Locked
<1>17. CASE ResetForget(c)
  BY <1>b, <1>c, <1>d, <1>e, <1>f, <1>g, <1>17 DEF ResetForget, Places, Locked
<1>18. ASSUME NEW r \in Configs \cup {Rejected}, Configure(c, r) PROVE Mine(c)
  BY <1>b, <1>c, <1>d, <1>e, <1>f, <1>g, <1>18 DEF Configure, Places, Locked
<1>19. ASSUME NEW r \in Configs \cup {Rejected}, Measure(c, r) PROVE Mine(c)
  BY <1>b, <1>c, <1>d, <1>e, <1>f, <1>g, <1>19 DEF Measure, Places, Locked
<1>20. CASE ReadOnce(c)
  BY <1>b, <1>c, <1>d, <1>e, <1>f, <1>g, <1>20 DEF ReadOnce, Places, Locked
<1>21. CASE ReadOnceBus(c)
  BY <1>b, <1>c, <1>d, <1>e, <1>f, <1>g, <1>21 DEF ReadOnceBus, Places, Locked
<1>22. CASE Recover(c)
  BY <1>b, <1>c, <1>d, <1>e, <1>f, <1>g, <1>22 DEF Recover, Places, Locked
<1>23. ASSUME NEW src \in {"IMM", "BUS"}, SetTrigger(c, src) PROVE Mine(c)
  BY <1>b, <1>c, <1>d, <1>e, <1>f, <1>g, <1>23 DEF SetTrigger, Places, Locked
<1>24. CASE Initiate(c)
  BY <1>b, <1>c, <1>d, <1>e, <1>f, <1>g, <1>24 DEF Initiate, Places, Locked
<1>25. CASE TriggerBus(c)
  BY <1>b, <1>c, <1>d, <1>e, <1>f, <1>g, <1>25 DEF TriggerBus, Places, Locked
<1>26. CASE Fetch(c)
  BY <1>b, <1>c, <1>d, <1>e, <1>f, <1>g, <1>26 DEF Fetch, Places, Locked
<1>27. CASE ReadQuery(c)
  BY <1>b, <1>c, <1>d, <1>e, <1>f, <1>g, <1>27 DEF ReadQuery, Places, Locked
<1>28. CASE Identify(c)
  BY <1>b, <1>c, <1>d, <1>e, <1>f, <1>g, <1>28 DEF Identify, Places, Locked
<1>29. CASE Reset(c)
  BY <1>b, <1>c, <1>d, <1>e, <1>f, <1>g, <1>29 DEF Reset, Places, Locked
<1>30. CASE Close(c)
  BY <1>b, <1>c, <1>d, <1>e, <1>f, <1>g, <1>30 DEF Close, Places, Locked
<1>31. CASE Connect(c)
  BY <1>b, <1>c, <1>d, <1>e, <1>f, <1>g, <1>31 DEF Connect, Places, Locked
<1>32. CASE FetchLabel(c)
  BY <1>b, <1>c, <1>d, <1>e, <1>f, <1>g, <1>32 DEF FetchLabel, Places, Locked
<1> QED
  BY <1>1, <1>2, <1>3, <1>4, <1>5, <1>6, <1>7, <1>8, <1>9, <1>10, <1>11,
     <1>12, <1>13, <1>14, <1>15, <1>16, <1>17, <1>18, <1>19, <1>20, <1>21, <1>22,
     <1>23, <1>24, <1>25, <1>26, <1>27, <1>28, <1>29, <1>30, <1>31,
     <1>32 DEF Step, Call

\* The configuration changes under the lock only.
Touches(c) == dmm' \in Instrument /\ (dmm'.conf = dmm.conf \/ opLock \in {Nobody, c})

LEMMA ChangesAre ==
  ASSUME IInv, NEW c \in Threads, Step(c) \/ Call(c)
  PROVE  Touches(c)
<1>a. /\ dmm \in Instrument /\ recipe \in Recipes /\ chosen[c] \in Recipes
      /\ pc[c] \in Locked => opLock \in {Nobody, c}
  BY DEF IInv, Types, Locking
<1>b. /\ \A src \in {"IMM", "BUS"} :
            /\ Alters(dmm, AfterTrigger(src)) /\ Alters(dmm, AfterInit(AfterTrigger(src)))
            /\ Alters(dmm, AfterRead(AfterTrigger(src)))
      /\ Alters(dmm, AfterInit(dmm)) /\ Alters(dmm, AfterRead(dmm))
      /\ Alters(dmm, AfterClear) /\ Alters(dmm, AfterTrg) /\ Alters(dmm, dmm)
  BY EffectsNow DEF IInv
<1>c. \A e : Alters(dmm, e) /\ dmm' = e => Touches(c)
  BY DEF Alters, Touches
<1>d. LockFree(c) /\ dmm' \in Instrument => Touches(c)
  BY DEF Touches, LockFree
<1>e. QueryFailed => Touches(c)
  BY <1>b, <1>c DEF QueryFailed
<1>f. ReadFails => Touches(c)
  BY <1>b, <1>c DEF ReadFails, Breaks
<1>g. ReadAnswered(c) => Touches(c)
  BY <1>b, <1>c DEF ReadAnswered, Sends
<1>h. \A op : Fetched(c, op) => Touches(c)
  BY <1>b, <1>c DEF Fetched, Sends
<1>i. ASSUME NEW r, Applied(r) \/ AppliedEarly(r) \/ ApplyFails(r) \/ ApplyRejected(r),
             r \in Recipes
      PROVE  dmm' \in Instrument
  <2>1. \A q \in Configs : AfterConf(q) \in Instrument
                           /\ AfterConf(Config(q.func, Default)) \in Instrument
    BY <1>a, Effects, ConfigIs
  <2>2. Late(r) => r \in Configs
    BY DEF Late
  <2> QED BY <1>a, <1>i, <2>1, <2>2
       DEF Applied, AppliedEarly, ApplyFails, ApplyRejected, Sends, Breaks
<1>j. UNCHANGED dmm => Touches(c)
  BY <1>b, <1>c
<1>1. CASE Load(c)
  BY <1>b, <1>c, <1>e, <1>f, <1>g, <1>h, <1>j, <1>1 DEF Load, Sends, Breaks, Briefly, Begins, Takes
<1>2. CASE ApplyConfigure(c)
  BY <1>a, <1>d, <1>i, <1>2 DEF ApplyConfigure
<1>3. CASE ApplyLate(c)
  <2> DEFINE set == [dmm EXCEPT !.conf = chosen[c]]
  <2>1. chosen[c] \in Configs
    BY <1>3 DEF ApplyLate, IInv, Halfway, Late
  <2>2. set \in Instrument
    BY <1>a, <2>1, Effects
  <2> QED BY <1>a, <1>d, <1>3, <2>2 DEF ApplyLate, Sends, Breaks
<1>4. CASE MeasureApply(c)
  BY <1>a, <1>d, <1>i, <1>4 DEF MeasureApply
<1>5. CASE ReadRefused(c)
  BY <1>b, <1>c, <1>e, <1>f, <1>g, <1>h, <1>j, <1>5 DEF ReadRefused, Sends, Breaks, Briefly, Begins, Takes
<1>6. CASE ReadAllowed(c)
  BY <1>b, <1>c, <1>e, <1>f, <1>g, <1>h, <1>j, <1>6 DEF ReadAllowed, Sends, Breaks, Briefly, Begins, Takes
<1>7. CASE ReadFirst(c)
  BY <1>b, <1>c, <1>e, <1>f, <1>g, <1>h, <1>j, <1>7 DEF ReadFirst, Sends, Breaks, Briefly, Begins, Takes
<1>8. CASE ReadReapply(c)
  <2>1. dmm' \in Instrument
    BY <1>a, <1>i, <1>8 DEF ReadReapply
  <2> QED BY <1>a, <1>8, <2>1 DEF ReadReapply, Touches, Locked
<1>9. CASE ReadAgain(c)
  BY <1>b, <1>c, <1>e, <1>f, <1>g, <1>h, <1>j, <1>9 DEF ReadAgain, Sends, Breaks, Briefly, Begins, Takes
<1>10. CASE RecoverClear(c)
  BY <1>b, <1>c, <1>e, <1>f, <1>g, <1>h, <1>j, <1>10 DEF RecoverClear, Sends, Breaks, Briefly, Begins, Takes
<1>11. CASE RecoverDrain(c)
  BY <1>b, <1>c, <1>e, <1>f, <1>g, <1>h, <1>j, <1>11 DEF RecoverDrain, Sends, Breaks, Briefly, Begins, Takes
<1>12. CASE RecoverLoad(c)
  BY <1>b, <1>c, <1>e, <1>f, <1>g, <1>h, <1>j, <1>12 DEF RecoverLoad, Sends, Breaks, Briefly, Begins, Takes
<1>13. CASE BusArm(c)
  BY <1>b, <1>c, <1>e, <1>f, <1>g, <1>h, <1>j, <1>13 DEF BusArm, Sends, Breaks, Briefly, Begins, Takes
<1>14. CASE BusTrigger(c)
  BY <1>b, <1>c, <1>e, <1>f, <1>g, <1>h, <1>j, <1>14 DEF BusTrigger, Sends, Breaks, Briefly, Begins, Takes
<1>15. CASE BusFetch(c)
  BY <1>b, <1>c, <1>e, <1>f, <1>g, <1>h, <1>j, <1>15 DEF BusFetch, Sends, Breaks, Briefly, Begins, Takes
<1>16. CASE KeepTrigger(c)
  BY <1>b, <1>c, <1>e, <1>f, <1>g, <1>h, <1>j, <1>16 DEF KeepTrigger, Sends, Breaks, Briefly, Begins, Takes
<1>17. CASE ResetForget(c)
  BY <1>b, <1>c, <1>e, <1>f, <1>g, <1>h, <1>j, <1>17 DEF ResetForget, Sends, Breaks, Briefly, Begins, Takes
<1>18. ASSUME NEW r \in Configs \cup {Rejected}, Configure(c, r) PROVE Touches(c)
  BY <1>b, <1>c, <1>e, <1>f, <1>g, <1>h, <1>j, <1>18 DEF Configure, Sends, Breaks, Briefly, Begins, Takes
<1>19. ASSUME NEW r \in Configs \cup {Rejected}, Measure(c, r) PROVE Touches(c)
  BY <1>b, <1>c, <1>e, <1>f, <1>g, <1>h, <1>j, <1>19 DEF Measure, Sends, Breaks, Briefly, Begins, Takes
<1>20. CASE ReadOnce(c)
  BY <1>b, <1>c, <1>e, <1>f, <1>g, <1>h, <1>j, <1>20 DEF ReadOnce, Sends, Breaks, Briefly, Begins, Takes
<1>21. CASE ReadOnceBus(c)
  BY <1>b, <1>c, <1>e, <1>f, <1>g, <1>h, <1>j, <1>21 DEF ReadOnceBus, Sends, Breaks, Briefly, Begins, Takes
<1>22. CASE Recover(c)
  BY <1>b, <1>c, <1>e, <1>f, <1>g, <1>h, <1>j, <1>22 DEF Recover, Sends, Breaks, Briefly, Begins, Takes
<1>23. ASSUME NEW src \in {"IMM", "BUS"}, SetTrigger(c, src) PROVE Touches(c)
  BY <1>b, <1>c, <1>e, <1>f, <1>g, <1>h, <1>j, <1>23 DEF SetTrigger, Sends, Breaks, Briefly, Begins, Takes
<1>24. CASE Initiate(c)
  BY <1>b, <1>c, <1>e, <1>f, <1>g, <1>h, <1>j, <1>24 DEF Initiate, Sends, Breaks, Briefly, Begins, Takes
<1>25. CASE TriggerBus(c)
  BY <1>b, <1>c, <1>e, <1>f, <1>g, <1>h, <1>j, <1>25 DEF TriggerBus, Sends, Breaks, Briefly, Begins, Takes
<1>26. CASE Fetch(c)
  BY <1>b, <1>c, <1>e, <1>f, <1>g, <1>h, <1>j, <1>26 DEF Fetch, Sends, Breaks, Briefly, Begins, Takes
<1>27. CASE ReadQuery(c)
  BY <1>b, <1>c, <1>e, <1>f, <1>g, <1>h, <1>j, <1>27 DEF ReadQuery, Sends, Breaks, Briefly, Begins, Takes
<1>28. CASE Identify(c)
  BY <1>b, <1>c, <1>e, <1>f, <1>g, <1>h, <1>j, <1>28 DEF Identify, Sends, Breaks, Briefly, Begins, Takes
<1>29. CASE Reset(c)
  <2>1. AfterReset \in Instrument
    BY <1>a, Effects
  <2> QED BY <1>a, <1>d, <1>29, <2>1 DEF Reset, Sends, Breaks
<1>30. CASE Close(c)
  BY <1>b, <1>c, <1>e, <1>f, <1>g, <1>h, <1>j, <1>30 DEF Close, Sends, Breaks, Briefly, Begins, Takes
<1>31. CASE Connect(c)
  BY <1>b, <1>c, <1>e, <1>f, <1>g, <1>h, <1>j, <1>31 DEF Connect, Sends, Breaks, Briefly, Begins, Takes
<1>32. CASE FetchLabel(c)
  BY <1>b, <1>c, <1>e, <1>f, <1>g, <1>h, <1>j, <1>32 DEF FetchLabel, Sends, Breaks, Briefly, Begins, Takes
<1> QED
  BY <1>1, <1>2, <1>3, <1>4, <1>5, <1>6, <1>7, <1>8, <1>9, <1>10, <1>11,
     <1>12, <1>13, <1>14, <1>15, <1>16, <1>17, <1>18, <1>19, <1>20, <1>21, <1>22,
     <1>23, <1>24, <1>25, <1>26, <1>27, <1>28, <1>29, <1>30, <1>31,
     <1>32 DEF Step, Call

\* What a thread was asked for, has chosen and was given is its own.
Own(c) ==
  /\ want' \in [Threads -> Recipes] /\ chosen' \in [Threads -> Recipes]
  /\ DOMAIN reading' = Threads
  /\ \A d \in Threads \ {c} :
       want'[d] = want[d] /\ chosen'[d] = chosen[d] /\ reading'[d] = reading[d]
  /\ pc'[c] = "late" => Late(chosen'[c])

LEMMA OwnIs ==
  ASSUME IInv, NEW c \in Threads, Step(c) \/ Call(c)
  PROVE  Own(c)
<1>a. /\ want \in [Threads -> Recipes] /\ chosen \in [Threads -> Recipes]
      /\ DOMAIN reading = Threads /\ recipe \in Recipes
      /\ pc[c] = "late" => Late(chosen[c])
      /\ \A where : (Goto(c, where) => pc'[c] = where) /\ (Ends(c) => pc'[c] = "idle")
      /\ \A op, r, where : Takes(c, op, r, where) => pc'[c] = where
      /\ NoConfig \in Recipes /\ Configs \cup {Rejected} \subseteq Recipes
  BY DEF IInv, Types, Halfway, Goto, Ends, Takes, Recipes
<1>b. ASSUME NEW r \in Recipes, Asks(c, r)
      PROVE  want' \in [Threads -> Recipes] /\ \A d \in Threads \ {c} : want'[d] = want[d]
  BY <1>a, <1>b DEF Asks
<1>c. ASSUME NEW op, Gives(c, op)
      PROVE  DOMAIN reading' = Threads /\ \A d \in Threads \ {c} : reading'[d] = reading[d]
  BY <1>a, <1>c DEF Gives
<1>d. ASSUME NEW r \in Recipes, chosen' = [chosen EXCEPT ![c] = r]
      PROVE  chosen' \in [Threads -> Recipes] /\ \A d \in Threads \ {c} : chosen'[d] = chosen[d]
  BY <1>a, <1>d
<1>e. ASSUME UNCHANGED <<want, chosen, reading>>, pc'[c] # "late" PROVE Own(c)
  BY <1>a, <1>e DEF Own
<1>f. ASSUME UNCHANGED <<want, chosen>>, (\E op : Gives(c, op)) \/ UNCHANGED reading, pc'[c] # "late"
      PROVE  Own(c)
  BY <1>a, <1>c, <1>f DEF Own
<1>g. ASSUME NEW r \in Recipes, Asks(c, r), UNCHANGED <<chosen, reading>>, pc'[c] # "late"
      PROVE  Own(c)
  BY <1>a, <1>b, <1>g DEF Own
<1>h. ASSUME NEW r \in Recipes, chosen' = [chosen EXCEPT ![c] = r], UNCHANGED <<want, reading>>,
             pc'[c] # "late"
      PROVE  Own(c)
  BY <1>a, <1>d, <1>h DEF Own
<1>i. ASSUME UNCHANGED <<want, chosen, reading, pc>> PROVE Own(c)
  BY <1>a, <1>i DEF Own
<1>1. CASE Load(c)
  <2>1. (IF Late(want[c]) THEN want[c] ELSE recipe) \in Recipes
    BY <1>a
  <2> QED BY <1>a, <1>h, <1>1, <2>1 DEF Load
<1>2. CASE ApplyConfigure(c)
  <2>1. CASE Ends(c)
    BY <1>a, <1>e, <1>2, <2>1 DEF ApplyConfigure
  <2>2. CASE Late(chosen[c])
    BY <1>a, <1>2, <2>2 DEF ApplyConfigure, Own
  <2> QED BY <1>2, <2>1, <2>2 DEF ApplyConfigure, AppliedEarly
<1>3. CASE ApplyLate(c)
  BY <1>a, <1>e, <1>i, <1>3 DEF ApplyLate
<1>4. CASE MeasureApply(c)
  BY <1>a, <1>e, <1>i, <1>4 DEF MeasureApply
<1>5. CASE ReadRefused(c)
  BY <1>a, <1>e, <1>i, <1>5 DEF ReadRefused
<1>6. CASE ReadAllowed(c)
  BY <1>a, <1>e, <1>i, <1>6 DEF ReadAllowed
<1>7. CASE ReadFirst(c)
  BY <1>a, <1>f, <1>7 DEF ReadFirst, ReadAnswered, Fetched
<1>8. CASE ReadReapply(c)
  BY <1>a, <1>e, <1>i, <1>8 DEF ReadReapply
<1>9. CASE ReadAgain(c)
  BY <1>a, <1>f, <1>9 DEF ReadAgain, ReadAnswered, Fetched
<1>10. CASE RecoverClear(c)
  BY <1>a, <1>e, <1>i, <1>10 DEF RecoverClear
<1>11. CASE RecoverDrain(c)
  BY <1>a, <1>e, <1>i, <1>11 DEF RecoverDrain
<1>12. CASE RecoverLoad(c)
  BY <1>a, <1>e, <1>h, <1>12 DEF RecoverLoad
<1>13. CASE BusArm(c)
  BY <1>a, <1>e, <1>i, <1>13 DEF BusArm
<1>14. CASE BusTrigger(c)
  BY <1>a, <1>e, <1>i, <1>14 DEF BusTrigger
<1>15. CASE BusFetch(c)
  BY <1>a, <1>f, <1>15 DEF BusFetch, ReadAnswered, Fetched
<1>16. CASE KeepTrigger(c)
  BY <1>a, <1>e, <1>i, <1>16 DEF KeepTrigger
<1>17. CASE ResetForget(c)
  BY <1>a, <1>e, <1>i, <1>17 DEF ResetForget
<1>18. ASSUME NEW r \in Configs \cup {Rejected}, Configure(c, r) PROVE Own(c)
  BY <1>a, <1>g, <1>18 DEF Configure, Takes
<1>19. ASSUME NEW r \in Configs \cup {Rejected}, Measure(c, r) PROVE Own(c)
  BY <1>a, <1>g, <1>19 DEF Measure, Takes
<1>20. CASE ReadOnce(c)
  BY <1>a, <1>g, <1>20 DEF ReadOnce, Takes
<1>21. CASE ReadOnceBus(c)
  BY <1>a, <1>g, <1>21 DEF ReadOnceBus, Takes
<1>22. CASE Recover(c)
  BY <1>a, <1>e, <1>i, <1>22 DEF Recover
<1>23. ASSUME NEW src \in {"IMM", "BUS"}, SetTrigger(c, src) PROVE Own(c)
  BY <1>a, <1>e, <1>i, <1>23 DEF SetTrigger, control
<1>24. CASE Initiate(c)
  BY <1>i, <1>24 DEF Initiate, Briefly, control
<1>25. CASE TriggerBus(c)
  BY <1>i, <1>25 DEF TriggerBus, Briefly, control
<1>26. CASE Fetch(c)
  <2>1. CASE Goto(c, "label")
    BY <1>a, <1>26, <2>1 DEF Fetch, control, Own
  <2>2. CASE UNCHANGED <<control, reading>>
    BY <1>i, <1>26, <2>2 DEF Fetch, control
  <2> QED BY <1>26, <2>1, <2>2 DEF Fetch
<1>27. CASE ReadQuery(c)
  BY <1>i, <1>27 DEF ReadQuery, Briefly, control
<1>28. CASE Identify(c)
  BY <1>i, <1>28 DEF Identify, Briefly, control
<1>29. CASE Reset(c)
  BY <1>a, <1>e, <1>i, <1>29 DEF Reset, control
<1>30. CASE Close(c)
  BY <1>i, <1>30 DEF Close, Briefly, control
<1>31. CASE Connect(c)
  BY <1>i, <1>31 DEF Connect, Briefly, control
<1>32. CASE FetchLabel(c)
  BY <1>a, <1>32 DEF FetchLabel, Own
<1> QED
  BY <1>1, <1>2, <1>3, <1>4, <1>5, <1>6, <1>7, <1>8, <1>9, <1>10, <1>11,
     <1>12, <1>13, <1>14, <1>15, <1>16, <1>17, <1>18, <1>19, <1>20, <1>21, <1>22,
     <1>23, <1>24, <1>25, <1>26, <1>27, <1>28, <1>29, <1>30, <1>31,
     <1>32 DEF Step, Call

Rest ==
  /\ open \in BOOLEAN /\ blocked \in BOOLEAN /\ torn \in BOOLEAN /\ stuck \in BOOLEAN
  /\ state \in States
  /\ active \in Beliefs
  /\ recipe \in Recipes
  /\ trigger \in {"IMM", "BUS"}
  /\ opLock \in Threads \cup {Nobody}

LEMMA RestIs ==
  ASSUME IInv, NEW c \in Threads, Step(c) \/ Call(c)
  PROVE  Rest'
<1>a. Rest
  BY DEF IInv, Types, Rest
<1>b. opLock' \in Threads \cup {Nobody}
  BY <1>a, MovesAre DEF Mine, Rest
<1> USE <1>a, <1>b DEF Rest, link, believed, Sends, Breaks, States, Usable
<1>c. /\ Configs \subseteq Recipes /\ NoConfig \in Recipes /\ Rejected \in Recipes
      /\ \A r : Late(r) => r \in Configs
      /\ Configs \subseteq Beliefs
  BY DEF Recipes, Late, Configs, Beliefs
<1>d. \A r \in Recipes : Applied(r) \/ AppliedEarly(r) \/ ApplyFails(r) \/ ApplyRejected(r)
                    => active' \in Beliefs /\ trigger' \in {"IMM", "BUS"}
                       /\ state' \in States /\ torn' \in BOOLEAN
  BY <1>c DEF Applied, AppliedEarly, ApplyFails, ApplyRejected, Keeps
<1>e. QueryFailed => state' \in States /\ open' \in BOOLEAN /\ blocked' \in BOOLEAN
  BY DEF QueryFailed
<1>f. ReadFails => state' \in States /\ open' \in BOOLEAN /\ blocked' \in BOOLEAN /\ stuck' \in BOOLEAN
  BY DEF ReadFails
<1>g. /\ ReadAnswered(c) => state' \in States /\ UNCHANGED <<link, stuck>>
      /\ \A op : Fetched(c, op) => state' \in States /\ UNCHANGED link
  BY DEF ReadAnswered, Fetched
<1>h. chosen[c] \in Recipes
  BY DEF IInv, Types
<1>1. CASE Load(c)
  BY <1>c, <1>d, <1>e, <1>f, <1>g, <1>h, <1>1 DEF Load, Briefly
<1>2. CASE ApplyConfigure(c)
  BY <1>c, <1>d, <1>e, <1>f, <1>g, <1>h, <1>2 DEF ApplyConfigure, Briefly
<1>3. CASE ApplyLate(c)
  BY <1>c, <1>d, <1>e, <1>f, <1>g, <1>h, <1>3 DEF ApplyLate, Briefly
<1>4. CASE MeasureApply(c)
  BY <1>c, <1>d, <1>e, <1>f, <1>g, <1>h, <1>4 DEF MeasureApply, Briefly
<1>5. CASE ReadRefused(c)
  BY <1>c, <1>d, <1>e, <1>f, <1>g, <1>h, <1>5 DEF ReadRefused, Briefly
<1>6. CASE ReadAllowed(c)
  BY <1>c, <1>d, <1>e, <1>f, <1>g, <1>h, <1>6 DEF ReadAllowed, Briefly
<1>7. CASE ReadFirst(c)
  BY <1>c, <1>d, <1>e, <1>f, <1>g, <1>h, <1>7 DEF ReadFirst, Briefly
<1>8. CASE ReadReapply(c)
  BY <1>c, <1>d, <1>e, <1>f, <1>g, <1>h, <1>8 DEF ReadReapply, Briefly
<1>9. CASE ReadAgain(c)
  BY <1>c, <1>d, <1>e, <1>f, <1>g, <1>h, <1>9 DEF ReadAgain, Briefly
<1>10. CASE RecoverClear(c)
  BY <1>c, <1>d, <1>e, <1>f, <1>g, <1>h, <1>10 DEF RecoverClear, Briefly
<1>11. CASE RecoverDrain(c)
  BY <1>c, <1>d, <1>e, <1>f, <1>g, <1>h, <1>11 DEF RecoverDrain, Briefly
<1>12. CASE RecoverLoad(c)
  BY <1>c, <1>d, <1>e, <1>f, <1>g, <1>h, <1>12 DEF RecoverLoad, Briefly
<1>13. CASE BusArm(c)
  BY <1>c, <1>d, <1>e, <1>f, <1>g, <1>h, <1>13 DEF BusArm, Briefly
<1>14. CASE BusTrigger(c)
  BY <1>c, <1>d, <1>e, <1>f, <1>g, <1>h, <1>14 DEF BusTrigger, Briefly
<1>15. CASE BusFetch(c)
  BY <1>c, <1>d, <1>e, <1>f, <1>g, <1>h, <1>15 DEF BusFetch, Briefly
<1>16. CASE KeepTrigger(c)
  BY <1>c, <1>d, <1>e, <1>f, <1>g, <1>h, <1>16 DEF KeepTrigger, Briefly
<1>17. CASE ResetForget(c)
  <2>1. active' \in Beliefs
    BY <1>17 DEF ResetForget, Beliefs
  <2> QED BY <1>c, <1>17, <2>1 DEF ResetForget
<1>18. ASSUME NEW r \in Configs \cup {Rejected}, Configure(c, r) PROVE Rest'
  BY <1>c, <1>d, <1>e, <1>f, <1>g, <1>h, <1>18 DEF Configure, Briefly
<1>19. ASSUME NEW r \in Configs \cup {Rejected}, Measure(c, r) PROVE Rest'
  BY <1>c, <1>d, <1>e, <1>f, <1>g, <1>h, <1>19 DEF Measure, Briefly
<1>20. CASE ReadOnce(c)
  BY <1>c, <1>d, <1>e, <1>f, <1>g, <1>h, <1>20 DEF ReadOnce, Briefly
<1>21. CASE ReadOnceBus(c)
  BY <1>c, <1>d, <1>e, <1>f, <1>g, <1>h, <1>21 DEF ReadOnceBus, Briefly
<1>22. CASE Recover(c)
  BY <1>c, <1>d, <1>e, <1>f, <1>g, <1>h, <1>22 DEF Recover, Briefly
<1>23. ASSUME NEW src \in {"IMM", "BUS"}, SetTrigger(c, src) PROVE Rest'
  BY <1>c, <1>d, <1>e, <1>f, <1>g, <1>h, <1>23 DEF SetTrigger, Briefly
<1>24. CASE Initiate(c)
  BY <1>c, <1>d, <1>e, <1>f, <1>g, <1>h, <1>24 DEF Initiate, Briefly
<1>25. CASE TriggerBus(c)
  BY <1>c, <1>d, <1>e, <1>f, <1>g, <1>h, <1>25 DEF TriggerBus, Briefly
<1>26. CASE Fetch(c)
  BY <1>c, <1>d, <1>e, <1>f, <1>g, <1>h, <1>26 DEF Fetch, Briefly
<1>27. CASE ReadQuery(c)
  BY <1>c, <1>d, <1>e, <1>f, <1>g, <1>h, <1>27 DEF ReadQuery, Briefly
<1>28. CASE Identify(c)
  BY <1>c, <1>d, <1>e, <1>f, <1>g, <1>h, <1>28 DEF Identify, Briefly
<1>29. CASE Reset(c)
  BY <1>c, <1>d, <1>e, <1>f, <1>g, <1>h, <1>29 DEF Reset, Briefly
<1>30. CASE Close(c)
  BY <1>c, <1>d, <1>e, <1>f, <1>g, <1>h, <1>30 DEF Close, Briefly
<1>31. CASE Connect(c)
  BY <1>c, <1>d, <1>e, <1>f, <1>g, <1>h, <1>31 DEF Connect, Briefly
<1>32. CASE FetchLabel(c)
  BY <1>c, <1>d, <1>e, <1>f, <1>g, <1>h, <1>32 DEF FetchLabel, Briefly
<1> QED
  BY <1>1, <1>2, <1>3, <1>4, <1>5, <1>6, <1>7, <1>8, <1>9, <1>10, <1>11,
     <1>12, <1>13, <1>14, <1>15, <1>16, <1>17, <1>18, <1>19, <1>20, <1>21, <1>22,
     <1>23, <1>24, <1>25, <1>26, <1>27, <1>28, <1>29, <1>30, <1>31,
     <1>32 DEF Step, Call

LEMMA InitOK == Init => IInv
<1> SUFFICES ASSUME Init PROVE IInv
  OBVIOUS
<1>1. Config(PowerOn, Default) \in Configs
  BY ConfigIs
<1>2. Types
  BY <1>1 DEF Init, Types, Instrument, Places, Recipes, States, Usable, Beliefs, Unconfigured
<1>3. \A c \in Threads : pc[c] = "idle"
  BY DEF Init
<1> QED BY <1>2, <1>3 DEF IInv, Locking, Locked, Halfway

LEMMA StepKeeps ==
  ASSUME IInv, NEW c \in Threads, Step(c) \/ Call(c)
  PROVE  IInv'
<1>1. Types'
  BY MovesAre, ChangesAre, OwnIs, RestIs DEF Mine, Touches, Own, Rest, Types
<1>2. Locking'
  <2>1. ASSUME NEW d \in Threads, pc'[d] \in Locked PROVE opLock' = d
    <3>1. CASE d = c BY <2>1, <3>1, MovesAre DEF Mine
    <3>2. CASE d # c
      <4>1. opLock = d /\ d # Nobody
        BY <2>1, <3>2, MovesAre, MeasurementAssumption DEF Mine, IInv, Locking
      <4> QED BY <3>2, <4>1, MovesAre DEF Mine
    <3> QED BY <3>1, <3>2
  <2> QED BY <2>1 DEF Locking
<1>3. Halfway'
  <2>1. ASSUME NEW d \in Threads, pc'[d] = "late" PROVE Late(chosen'[d])
    <3>1. CASE d = c BY <2>1, <3>1, OwnIs DEF Own
    <3>2. CASE d # c
      BY <2>1, <3>2, MovesAre, OwnIs DEF Mine, Own, IInv, Halfway
    <3> QED BY <3>1, <3>2
  <2> QED BY <2>1 DEF Halfway, Late
<1> QED BY <1>1, <1>2, <1>3 DEF IInv

LEMMA PowerKeeps == IInv /\ PowerCycle => IInv'
<1> SUFFICES ASSUME IInv, PowerCycle PROVE IInv'
  OBVIOUS
<1>1. AfterReset \in Instrument
  BY Effects DEF IInv, Types
<1> QED BY <1>1 DEF IInv, Types, Locking, Halfway, Late, PowerCycle, link, believed, control

LEMMA Inductive == Spec => []IInv
<1>1. IInv /\ [Next]_vars => IInv'
  <2> SUFFICES ASSUME IInv, [Next]_vars PROVE IInv'
    OBVIOUS
  <2>1. CASE UNCHANGED vars
    BY <2>1 DEF vars, link, believed, control, IInv, Types, Locking, Halfway, Late
  <2> QED BY <2>1, StepKeeps, PowerKeeps DEF Next, Done
<1> QED BY InitOK, <1>1, PTL DEF Spec

\* Every variable keeps its type, and a thread inside a sequence that must not be
\* interleaved has the operation lock (measure_*(), read_once(), read_once_bus()).
THEOREM LockIsHeld == Spec => []TypeOK
<1>1. IInv => TypeOK
  BY DEF IInv, Types, Locking, Locked, Instrument, TypeOK
<1> QED BY Inductive, <1>1, PTL
-----------------------------------------------------------------------------
(* measure_*() returns what it was asked for.                              *)

\* A thread without the lock, and with another that has it, neither closes the link nor
\* changes the recipe other than by configure_*() or by forgetting it.
Outside(c) ==
  opLock \notin {Nobody, c} =>
    open' = open /\ (recipe' \in {recipe, NoConfig} \/ "configure" \in Ops)

LEMMA OutsideIs ==
  ASSUME IInv, NEW c \in Threads, Step(c) \/ Call(c)
  PROVE  Outside(c)
<1>a. pc[c] \in Locked => opLock = c
  BY DEF IInv, Locking
<1>b. /\ QueryFailed => open' = open
      /\ ReadFails => open' = open
      /\ ReadAnswered(c) => open' = open
      /\ \A op : Fetched(c, op) => open' = open
  BY DEF QueryFailed, ReadFails, ReadAnswered, Fetched, link
<1> USE DEF Outside, link, believed, LockFree
<1>1. CASE Load(c)
  BY <1>a, <1>b, <1>1 DEF Load, Briefly, Takes, Begins, Locked
<1>2. CASE ApplyConfigure(c)
  BY <1>a, <1>b, <1>2 DEF ApplyConfigure, Briefly, Takes, Begins, Locked
<1>3. CASE ApplyLate(c)
  BY <1>a, <1>b, <1>3 DEF ApplyLate, Briefly, Takes, Begins, Locked
<1>4. CASE MeasureApply(c)
  BY <1>a, <1>b, <1>4 DEF MeasureApply, Briefly, Takes, Begins, Locked
<1>5. CASE ReadRefused(c)
  BY <1>a, <1>b, <1>5 DEF ReadRefused, Briefly, Takes, Begins, Locked
<1>6. CASE ReadAllowed(c)
  BY <1>a, <1>b, <1>6 DEF ReadAllowed, Briefly, Takes, Begins, Locked
<1>7. CASE ReadFirst(c)
  BY <1>a, <1>b, <1>7 DEF ReadFirst, Briefly, Takes, Begins, Locked
<1>8. CASE ReadReapply(c)
  BY <1>a, <1>b, <1>8 DEF ReadReapply, Briefly, Takes, Begins, Locked
<1>9. CASE ReadAgain(c)
  BY <1>a, <1>b, <1>9 DEF ReadAgain, Briefly, Takes, Begins, Locked
<1>10. CASE RecoverClear(c)
  BY <1>a, <1>b, <1>10 DEF RecoverClear, Briefly, Takes, Begins, Locked
<1>11. CASE RecoverDrain(c)
  BY <1>a, <1>b, <1>11 DEF RecoverDrain, Briefly, Takes, Begins, Locked
<1>12. CASE RecoverLoad(c)
  BY <1>a, <1>b, <1>12 DEF RecoverLoad, Briefly, Takes, Begins, Locked
<1>13. CASE BusArm(c)
  BY <1>a, <1>b, <1>13 DEF BusArm, Briefly, Takes, Begins, Locked
<1>14. CASE BusTrigger(c)
  BY <1>a, <1>b, <1>14 DEF BusTrigger, Briefly, Takes, Begins, Locked
<1>15. CASE BusFetch(c)
  BY <1>a, <1>b, <1>15 DEF BusFetch, Briefly, Takes, Begins, Locked
<1>16. CASE KeepTrigger(c)
  BY <1>a, <1>b, <1>16 DEF KeepTrigger, Briefly, Takes, Begins, Locked
<1>17. CASE ResetForget(c)
  BY <1>a, <1>b, <1>17 DEF ResetForget, Briefly, Takes, Begins, Locked
<1>18. ASSUME NEW r \in Configs \cup {Rejected}, Configure(c, r) PROVE Outside(c)
  BY <1>a, <1>b, <1>18 DEF Configure, Briefly, Takes, Begins, Locked
<1>19. ASSUME NEW r \in Configs \cup {Rejected}, Measure(c, r) PROVE Outside(c)
  BY <1>a, <1>b, <1>19 DEF Measure, Briefly, Takes, Begins, Locked
<1>20. CASE ReadOnce(c)
  BY <1>a, <1>b, <1>20 DEF ReadOnce, Briefly, Takes, Begins, Locked
<1>21. CASE ReadOnceBus(c)
  BY <1>a, <1>b, <1>21 DEF ReadOnceBus, Briefly, Takes, Begins, Locked
<1>22. CASE Recover(c)
  BY <1>a, <1>b, <1>22 DEF Recover, Briefly, Takes, Begins, Locked
<1>23. ASSUME NEW src \in {"IMM", "BUS"}, SetTrigger(c, src) PROVE Outside(c)
  BY <1>a, <1>b, <1>23 DEF SetTrigger, Briefly, Takes, Begins, Locked
<1>24. CASE Initiate(c)
  BY <1>a, <1>b, <1>24 DEF Initiate, Briefly, Takes, Begins, Locked
<1>25. CASE TriggerBus(c)
  BY <1>a, <1>b, <1>25 DEF TriggerBus, Briefly, Takes, Begins, Locked
<1>26. CASE Fetch(c)
  BY <1>a, <1>b, <1>26 DEF Fetch, Briefly, Takes, Begins, Locked
<1>27. CASE ReadQuery(c)
  BY <1>a, <1>b, <1>27 DEF ReadQuery, Briefly, Takes, Begins, Locked
<1>28. CASE Identify(c)
  BY <1>a, <1>b, <1>28 DEF Identify, Briefly, Takes, Begins, Locked
<1>29. CASE Reset(c)
  BY <1>a, <1>b, <1>29 DEF Reset, Briefly, Takes, Begins, Locked
<1>30. CASE Close(c)
  BY <1>a, <1>b, <1>30 DEF Close, Briefly, Takes, Begins, Locked
<1>31. CASE Connect(c)
  BY <1>a, <1>b, <1>31 DEF Connect, Briefly, Takes, Begins, Locked
<1>32. CASE FetchLabel(c)
  BY <1>a, <1>b, <1>32 DEF FetchLabel, Briefly, Takes, Begins, Locked
<1> QED
  BY <1>1, <1>2, <1>3, <1>4, <1>5, <1>6, <1>7, <1>8, <1>9, <1>10, <1>11,
     <1>12, <1>13, <1>14, <1>15, <1>16, <1>17, <1>18, <1>19, <1>20, <1>21, <1>22,
     <1>23, <1>24, <1>25, <1>26, <1>27, <1>28, <1>29, <1>30, <1>31,
     <1>32 DEF Step, Call

Fine(c) ==
  AskedBy(c)' /\ (reading'[c].op = "measure" => reading'[c].taken = reading'[c].asked)

LEMMA FineIs ==
  ASSUME IInv, Asked, NEW c \in Threads, Step(c) \/ Call(c)
  PROVE  Fine(c)
<1>a. /\ pc \in [Threads -> Places] /\ want \in [Threads -> Recipes]
      /\ chosen \in [Threads -> Recipes] /\ DOMAIN reading = Threads /\ dmm \in Instrument
  BY DEF IInv, Types
<1>b. AskedBy(c) /\ (reading[c].op = "measure" => reading[c].taken = reading[c].asked)
  BY DEF Asked, MeasureIsAsked
<1>c. /\ \A where \in Places : Goto(c, where) => pc'[c] = where
      /\ Ends(c) => pc'[c] = "idle"
      /\ \A op, r, where : Takes(c, op, r, where) =>
           pc'[c] = where /\ (r \in Recipes => want'[c] = r)
      /\ \A r \in Recipes : Asks(c, r) => want'[c] = r
      /\ \A op : Briefly(c, op) => pc'[c] = "idle" /\ reading' = reading
  BY <1>a DEF Goto, Ends, Takes, Asks, Briefly, Begins, control
<1>d. \A op : Gives(c, op) =>
        reading'[c].op = op /\ reading'[c].taken = dmm.conf /\ reading'[c].asked = want[c]
  BY <1>a DEF Gives
<1>e. ASSUME pc'[c] \notin {"m_load", "m_apply"} \cup Reads,
             \/ UNCHANGED reading
             \/ \E op : Gives(c, op) /\ op # "measure"
             \/ Gives(c, "measure") /\ dmm.conf = want[c]
      PROVE  Fine(c)
  BY <1>b, <1>d, <1>e DEF Fine, AskedBy
<1>f. /\ \A r \in Recipes : Applied(r) => dmm'.conf = r /\ r # NoConfig /\ open
      /\ NoConfig \notin Configs /\ NoConfig # Rejected
      /\ Configs \cup {Rejected} \subseteq Recipes /\ NoConfig \in Recipes
  BY Effects, ConfigIs, <1>a DEF Applied, Sends, Reaches, Recipes
<1>g. /\ Alters(dmm, AfterClear) /\ Alters(dmm, dmm)
      /\ Alters(dmm, AfterTrigger("IMM")) /\ Alters(dmm, AfterRead(AfterTrigger("IMM")))
  BY EffectsNow DEF IInv
<1>h. QueryFailed => dmm'.conf = dmm.conf /\ open' = open
  BY <1>g DEF QueryFailed, Alters
<1>i. ReadFails => dmm'.conf = dmm.conf /\ open' = open
  BY <1>g DEF ReadFails, Breaks, Alters
<1>j. ReadAnswered(c) => Gives(c, Op(c))
  BY DEF ReadAnswered
<1>k. /\ {"m_load", "m_apply"} \cup Reads \subseteq Places /\ "idle" \notin Reads
      /\ {"apply", "late", "r_drain", "r_load", "bus", "bus_trigger", "bus_fetch", "r_clear",
          "load", "label", "keep_bus", "keep_imm", "forget"} \subseteq Places \ ({"m_load", "m_apply"} \cup Reads)
  BY DEF Reads, Places
<1> USE DEF link, believed
<1>1. CASE Load(c)
  <2>1. CASE pc[c] = "load"
    BY <1>c, <1>e, <1>k, <1>1, <2>1 DEF Load
  <2>2. CASE pc[c] = "m_load"
    <3>1. pc'[c] = "m_apply" /\ UNCHANGED <<recipe, want, reading>>
      BY <1>c, <1>k, <1>1, <2>2 DEF Load
    <3>2. chosen'[c] = recipe
      BY <1>a, <1>b, <1>1, <2>2 DEF Load, AskedBy
    <3> QED BY <1>b, <2>2, <3>1, <3>2 DEF Fine, AskedBy, Reads
  <2> QED BY <1>1, <2>1, <2>2 DEF Load
<1>2. CASE ApplyConfigure(c)
  BY <1>c, <1>e, <1>k, <1>2 DEF ApplyConfigure
<1>3. CASE ApplyLate(c)
  BY <1>c, <1>e, <1>k, <1>3 DEF ApplyLate
<1>4. CASE MeasureApply(c)
  <2>1. CASE Ends(c)
    BY <1>c, <1>e, <1>k, <1>4, <2>1 DEF MeasureApply
  <2>2. CASE Applied(chosen[c]) /\ Goto(c, "read")
    <3>1. pc'[c] = "read" /\ UNCHANGED <<recipe, want, reading, chosen, open>>
      BY <1>c, <1>k, <1>4, <2>2 DEF MeasureApply, Reads
    <3>2. dmm'.conf = chosen[c] /\ chosen[c] # NoConfig /\ open
      BY <1>a, <1>f, <2>2
    <3> QED BY <1>b, <1>4, <3>1, <3>2 DEF Fine, AskedBy, Reads, MeasureApply
  <2> QED BY <1>4, <2>1, <2>2 DEF MeasureApply
<1>5. CASE ReadRefused(c)
  BY <1>c, <1>e, <1>k, <1>5 DEF ReadRefused
<1>6. CASE ReadAllowed(c)
  <2>1. pc'[c] = "ask" /\ pc[c] = "read" /\ UNCHANGED <<dmm, open, recipe, want, reading, chosen>>
    BY <1>c, <1>k, <1>6 DEF ReadAllowed, Reads
  <2> QED BY <1>b, <2>1 DEF Fine, AskedBy, Reads
<1>7. CASE ReadFirst(c)
  <2>1. CASE ReadAnswered(c) /\ pc'[c] = "idle"
    <3>1. Gives(c, Op(c)) /\ (Op(c) = "measure" => dmm.conf = want[c])
      BY <1>b, <1>j, <1>7, <2>1 DEF ReadFirst, Op, AskedBy, Reads
    <3>2. Op(c) \in {"measure", "read_once"}
      BY DEF Op
    <3> QED BY <1>e, <1>k, <2>1, <3>1, <3>2
  <2>2. CASE pc'[c] = "idle" /\ UNCHANGED reading
    BY <1>e, <1>k, <2>2
  <2>3. CASE Reaches /\ ReadFails /\ Goto(c, "clear") /\ UNCHANGED reading
    BY <1>b, <1>c, <1>i, <1>k, <1>7, <2>3 DEF ReadFirst, Fine, AskedBy, Reads, Reaches
  <2> QED BY <1>c, <1>7, <2>1, <2>2, <2>3 DEF ReadFirst
<1>8. CASE ReadReapply(c)
  <2>1. CASE Ends(c)
    BY <1>c, <1>e, <1>k, <1>8, <2>1 DEF ReadReapply
  <2>2. CASE Goto(c, "reread")
    <3>1. pc'[c] = "reread" /\ UNCHANGED <<recipe, want, reading, open>>
      BY <1>c, <1>k, <1>8, <2>2 DEF ReadReapply, Reads
    <3>2. (recipe = NoConfig /\ dmm' = dmm) \/ (Applied(recipe) /\ recipe \in Recipes) \/ Ends(c)
      BY <1>8 DEF ReadReapply, IInv, Types
    <3>3. (recipe = NoConfig /\ UNCHANGED dmm) \/ (dmm'.conf = recipe /\ recipe # NoConfig) \/ Ends(c)
      BY <1>f, <3>2
    <3> QED BY <1>b, <1>c, <1>8, <3>1, <3>3 DEF Fine, AskedBy, Reads, ReadReapply
  <2> QED BY <1>8, <2>1, <2>2 DEF ReadReapply
<1>9. CASE ReadAgain(c)
  <2>1. CASE ReadAnswered(c) /\ pc'[c] = "idle"
    <3>1. Gives(c, Op(c)) /\ (Op(c) = "measure" => dmm.conf = want[c])
      BY <1>b, <1>j, <1>9, <2>1 DEF ReadAgain, Op, AskedBy, Reads
    <3>2. Op(c) \in {"measure", "read_once"}
      BY DEF Op
    <3> QED BY <1>e, <1>k, <2>1, <3>1, <3>2
  <2>2. CASE pc'[c] = "idle" /\ UNCHANGED reading
    BY <1>e, <1>k, <2>2
  <2> QED BY <1>c, <1>9, <2>1, <2>2 DEF ReadAgain
<1>10. CASE RecoverClear(c)
  <2>1. CASE Ends(c) \/ pc[c] = "r_clear"
    BY <1>c, <1>e, <1>k, <1>10, <2>1 DEF RecoverClear
  <2>2. CASE pc[c] = "clear" /\ Goto(c, "drain") /\ dmm' = AfterClear
    <3>1. pc'[c] = "drain" /\ UNCHANGED <<recipe, want, reading, open>> /\ dmm'.conf = dmm.conf
      BY <1>c, <1>g, <1>k, <1>10, <2>2 DEF RecoverClear, Reads, Alters
    <3> QED BY <1>b, <2>2, <3>1 DEF Fine, AskedBy, Reads
  <2> QED BY <1>10, <2>1, <2>2 DEF RecoverClear
<1>11. CASE RecoverDrain(c)
  <2>1. CASE pc[c] = "r_drain"
    BY <1>c, <1>e, <1>k, <1>11, <2>1 DEF RecoverDrain
  <2>2. CASE pc[c] = "drain"
    <3>1. pc'[c] = "reapply" /\ UNCHANGED <<recipe, want, reading>>
      BY <1>c, <1>k, <1>11, <2>2 DEF RecoverDrain, Reads
    <3>2. dmm'.conf = dmm.conf /\ open' = open
      BY <1>h, <1>11 DEF RecoverDrain, Sends
    <3> QED BY <1>b, <2>2, <3>1, <3>2 DEF Fine, AskedBy, Reads
  <2> QED BY <1>11, <2>1, <2>2 DEF RecoverDrain
<1>12. CASE RecoverLoad(c)
  BY <1>c, <1>e, <1>k, <1>12 DEF RecoverLoad
<1>13. CASE BusArm(c)
  BY <1>c, <1>e, <1>k, <1>13 DEF BusArm
<1>14. CASE BusTrigger(c)
  BY <1>c, <1>e, <1>k, <1>14 DEF BusTrigger
<1>15. CASE BusFetch(c)
  BY <1>c, <1>e, <1>k, <1>15 DEF BusFetch, Fetched
<1>16. CASE KeepTrigger(c)
  BY <1>c, <1>e, <1>k, <1>16 DEF KeepTrigger
<1>17. CASE ResetForget(c)
  BY <1>c, <1>e, <1>k, <1>17 DEF ResetForget
<1>18. ASSUME NEW r \in Configs \cup {Rejected}, Configure(c, r) PROVE Fine(c)
  BY <1>c, <1>e, <1>k, <1>18 DEF Configure
<1>19. ASSUME NEW r \in Configs \cup {Rejected}, Measure(c, r) PROVE Fine(c)
  <2>1. pc'[c] = "m_load" /\ want'[c] = r /\ recipe' = r /\ ~Late(r) /\ r # NoConfig
    BY <1>c, <1>f, <1>19 DEF Measure
  <2>2. reading' = reading
    BY <1>19 DEF Measure
  <2> QED BY <1>b, <2>1, <2>2 DEF Fine, AskedBy, Reads, Late
<1>20. CASE ReadOnce(c)
  <2>1. pc'[c] = "read" /\ want'[c] = NoConfig /\ reading' = reading
    BY <1>c, <1>f, <1>20 DEF ReadOnce
  <2> QED BY <1>b, <2>1 DEF Fine, AskedBy
<1>21. CASE ReadOnceBus(c)
  BY <1>c, <1>e, <1>k, <1>21 DEF ReadOnceBus
<1>22. CASE Recover(c)
  BY <1>c, <1>e, <1>k, <1>22 DEF Recover
<1>23. ASSUME NEW src \in {"IMM", "BUS"}, SetTrigger(c, src) PROVE Fine(c)
  <2>1. pc'[c] = "idle" \/ pc'[c] \in {"forget", "keep_bus", "keep_imm"}
    BY <1>c, <1>k, <1>23 DEF SetTrigger, Begins, control
  <2> QED BY <1>e, <1>k, <1>23, <2>1 DEF SetTrigger
<1>24. CASE Initiate(c)
  BY <1>c, <1>e, <1>k, <1>24 DEF Initiate
<1>25. CASE TriggerBus(c)
  BY <1>c, <1>e, <1>k, <1>25 DEF TriggerBus
<1>26. CASE Fetch(c)
  <2>1. pc'[c] \in {"idle", "label"}
    BY <1>c, <1>k, <1>26 DEF Fetch, Begins, control
  <2>2. UNCHANGED reading \/ reading'[c].op = "none"
    <3> DEFINE fetched == [NoReading EXCEPT !.taken = dmm.conf, !.torn = torn]
    <3>1. fetched.op = "none"
      BY DEF NoReading
    <3> HIDE DEF fetched
    <3>2. reading' = [reading EXCEPT ![c] = fetched] => reading'[c].op = "none"
      BY <1>a, <3>1
    <3> QED BY <1>26, <3>2 DEF Fetch, fetched
  <2> QED BY <1>b, <1>k, <2>1, <2>2 DEF Fine, AskedBy
<1>27. CASE ReadQuery(c)
  BY <1>c, <1>e, <1>k, <1>27 DEF ReadQuery
<1>28. CASE Identify(c)
  BY <1>c, <1>e, <1>k, <1>28 DEF Identify
<1>29. CASE Reset(c)
  <2>1. pc'[c] = "idle" \/ pc'[c] \in {"forget", "keep_bus", "keep_imm"}
    BY <1>c, <1>k, <1>29 DEF Reset, Begins, control
  <2> QED BY <1>e, <1>k, <1>29, <2>1 DEF Reset
<1>30. CASE Close(c)
  BY <1>c, <1>e, <1>k, <1>30 DEF Close
<1>31. CASE Connect(c)
  BY <1>c, <1>e, <1>k, <1>31 DEF Connect
<1>32. CASE FetchLabel(c)
  <2>1. pc'[c] = "idle" /\ reading'[c].op = "fetch"
    BY <1>a, <1>c, <1>32 DEF FetchLabel
  <2> QED BY <1>k, <2>1 DEF Fine, AskedBy
<1> QED
  BY <1>1, <1>2, <1>3, <1>4, <1>5, <1>6, <1>7, <1>8, <1>9, <1>10, <1>11,
     <1>12, <1>13, <1>14, <1>15, <1>16, <1>17, <1>18, <1>19, <1>20, <1>21, <1>22,
     <1>23, <1>24, <1>25, <1>26, <1>27, <1>28, <1>29, <1>30, <1>31,
     <1>32 DEF Step, Call

\* A measurement made by measure_*() was made with the configuration it was asked for,
\* whatever any number of threads do, resets included, as long as they do not call a plain
\* configure_*(), which assigns the recipe before it takes the lock; a thread that is
\* alone may call that too (measure_*() and _last_configure).
THEOREM MeasuresWhatIsAsked ==
  (Alone \/ "configure" \notin Ops) => (Spec => []MeasureIsAsked)
<1> SUFFICES ASSUME Alone \/ "configure" \notin Ops PROVE Spec => []MeasureIsAsked
  OBVIOUS
<1>1. Init => Asked
  <2> SUFFICES ASSUME Init PROVE Asked
    OBVIOUS
  <2>1. \A c \in Threads : pc[c] = "idle" /\ reading[c].op = "none"
    BY DEF Init, NoReading
  <2> QED BY <2>1 DEF Asked, AskedBy, Reads, MeasureIsAsked
<1>2. ASSUME IInv, Asked, NEW c \in Threads, Step(c) \/ Call(c) PROVE Asked'
  <2>1. ASSUME NEW d \in Threads \ {c}
        PROVE  /\ AskedBy(d)'
               /\ reading'[d].op = "measure" => reading'[d].taken = reading'[d].asked
    <3>1. pc'[d] = pc[d] /\ want'[d] = want[d] /\ chosen'[d] = chosen[d]
          /\ reading'[d] = reading[d]
      BY <1>2, MovesAre, OwnIs DEF Mine, Own
    <3>2. CASE pc[d] \notin {"m_load", "m_apply"} \cup Reads
      BY <1>2, <3>1, <3>2 DEF Asked, AskedBy, MeasureIsAsked
    <3>3. CASE pc[d] \in {"m_load", "m_apply"} \cup Reads
      <4>1. opLock = d /\ opLock \notin {Nobody, c}
        BY <1>2, <3>3, MeasurementAssumption DEF IInv, Locking, Locked, Reads
      <4>2. "configure" \notin Ops
        BY DEF Alone
      <4>3. open' = open /\ recipe' \in {recipe, NoConfig}
        BY <1>2, <4>1, <4>2, OutsideIs DEF Outside
      <4>4. dmm'.conf = dmm.conf
        BY <1>2, <4>1, ChangesAre DEF Touches
      <4> QED BY <1>2, <3>1, <4>3, <4>4 DEF Asked, AskedBy, MeasureIsAsked, Late
    <3> QED BY <3>2, <3>3
  <2>2. Fine(c)
    BY <1>2, FineIs
  <2> QED BY <2>1, <2>2 DEF Asked, Fine, MeasureIsAsked, AskedBy, Late
<1>3. IInv /\ Asked /\ [Next]_vars => Asked'
  <2> SUFFICES ASSUME IInv, Asked, [Next]_vars PROVE Asked'
    OBVIOUS
  <2>1. CASE PowerCycle
    <3>1. \A c \in Threads : pc[c] \in Reads => want[c] = NoConfig
      BY <2>1 DEF PowerCycle, Asked, AskedBy
    <3> QED BY <2>1, <3>1 DEF PowerCycle, link, believed, control, Asked, AskedBy,
                              MeasureIsAsked, Late
  <2>2. CASE UNCHANGED vars
    BY <2>2 DEF vars, link, believed, control, Asked, AskedBy, MeasureIsAsked, Late
  <2> QED BY <1>2, <2>1, <2>2 DEF Next, Done
<1>4. Asked => MeasureIsAsked
  BY DEF Asked
<1> QED BY Inductive, <1>1, <1>3, <1>4, PTL DEF Spec
-----------------------------------------------------------------------------
(* The label of a reading.                                                 *)

\* What a step of a thread leaves, when no other thread is half-way through a configure or
\* a reset.
Tells(c) ==
  LabelledBy(c)' /\ (pc'[c] # "late" => torn' \/ Believed(dmm.conf)')

LEMMA TellsIs ==
  ASSUME IInv, NEW c \in Threads, Step(c) \/ Call(c), LabelledBy(c),
         pc[c] # "late" => torn \/ Believed(dmm.conf)
  PROVE  Tells(c)
<1>a. /\ pc \in [Threads -> Places] /\ want \in [Threads -> Recipes]
      /\ chosen \in [Threads -> Recipes] /\ DOMAIN reading = Threads /\ dmm \in Instrument
      /\ recipe \in Recipes
  BY DEF IInv, Types
<1>b. active \in Beliefs
  BY DEF IInv, Types
<1>c. /\ \A where \in Places : Goto(c, where) => pc'[c] = where
      /\ Ends(c) => pc'[c] = "idle"
      /\ \A op, r, where : Takes(c, op, r, where) => pc'[c] = where /\ pc[c] = "idle"
      /\ \A op : Briefly(c, op) =>
           pc[c] = "idle" /\ pc'[c] = "idle" /\ UNCHANGED <<reading, active, torn>>
      /\ \A op : Begins(c, op) => pc[c] = "idle"
  BY <1>a DEF Goto, Ends, Takes, Briefly, Begins, control, believed
<1>d. \A op : Gives(c, op) => /\ reading'[c].label = active /\ reading'[c].taken = dmm.conf
                              /\ reading'[c].torn = torn
  BY <1>a DEF Gives
<1>e. ASSUME dmm'.conf = dmm.conf, active' = active, torn' = torn,
             pc[c] \notin {"late", "forget", "label"}, pc'[c] \notin {"late", "forget", "label"},
             (\E op : Gives(c, op)) \/ UNCHANGED reading
      PROVE  Tells(c)
  <2>1. torn \/ Believed(dmm.conf)
    BY <1>e
  <2>2. torn' \/ Believed(dmm.conf)'
    BY <1>e, <2>1 DEF Believed, Fits
  <2>4. reading[c].torn \/ Labelled(reading[c])
    BY DEF LabelledBy
  <2>5. reading'[c].torn \/ Labelled(reading'[c])
    <3>1. CASE UNCHANGED reading BY <2>4, <3>1
    <3>2. CASE \E op : Gives(c, op)
      BY <1>d, <2>1, <3>2 DEF Believed, Labelled, Fits
    <3> QED BY <1>e, <3>1, <3>2
  <2> QED BY <1>e, <2>2, <2>5 DEF Tells, LabelledBy, Labelled, Fits
<1>f. /\ \A r \in Recipes : Applied(r) => dmm'.conf = r /\ active' = r /\ torn' = FALSE
      /\ NoConfig \notin Configs
      /\ \A r \in Configs : AfterConf(Config(r.func, Default)).conf.func = r.func
  <2>1. \A r \in Configs : AfterConf(r).conf = r
    BY <1>a, Effects
  <2>2. \A r \in Configs :
          Config(r.func, Default) \in Configs /\ Config(r.func, Default).func = r.func
    BY ConfigIs
  <2>3. NoConfig \notin Configs
    BY ConfigIs
  <2> QED BY <2>1, <2>2, <2>3 DEF Applied, Sends, Keeps
<1>g. ASSUME NEW r \in Recipes, Applied(r), pc'[c] \notin {"late", "forget", "label"}, UNCHANGED reading
      PROVE  Tells(c)
  BY <1>f, <1>g DEF Tells, LabelledBy, Believed, Fits
<1>h. ASSUME NEW r, ApplyFails(r) \/ ApplyRejected(r), pc[c] \notin {"late", "forget", "label"},
             pc'[c] \notin {"late", "forget", "label"}, UNCHANGED reading
      PROVE  Tells(c)
  <2>1. active' = active /\ ((torn' = torn /\ dmm' = dmm) \/ torn' = (torn \/ dmm' # dmm))
    BY <1>h DEF ApplyFails, ApplyRejected
  <2> QED BY <1>h, <2>1 DEF Tells, LabelledBy, Believed, Fits
<1>i. /\ Alters(dmm, AfterClear) /\ Alters(dmm, dmm) /\ Alters(dmm, AfterTrg)
      /\ \A src \in {"IMM", "BUS"} :
            /\ Alters(dmm, AfterTrigger(src)) /\ Alters(dmm, AfterInit(AfterTrigger(src)))
            /\ Alters(dmm, AfterRead(AfterTrigger(src)))
      /\ Alters(dmm, AfterInit(dmm)) /\ Alters(dmm, AfterRead(dmm))
  BY EffectsNow DEF IInv
<1>j. /\ QueryFailed => dmm'.conf = dmm.conf
      /\ ReadFails => dmm'.conf = dmm.conf
      /\ ReadAnswered(c) => dmm'.conf = dmm.conf /\ \E op : Gives(c, op)
      /\ \A op : Fetched(c, op) => dmm'.conf = dmm.conf /\ Gives(c, op)
      /\ \A e : Alters(dmm, e) /\ dmm' = e => dmm'.conf = dmm.conf
  BY <1>i DEF QueryFailed, ReadFails, ReadAnswered, Fetched, Sends, Breaks, Alters
<1>k. Places \ {"late", "forget", "label"} =
        {"idle", "load", "m_load", "apply", "m_apply", "read", "ask", "clear",
         "drain", "reapply", "reread", "r_clear", "r_drain", "r_load", "bus",
         "bus_trigger", "bus_fetch", "keep_bus", "keep_imm"}
      /\ {"late", "forget", "label"} \subseteq Places
  BY DEF Places
<1> USE DEF link, believed
<1>1. CASE Load(c)
  BY <1>c, <1>e, <1>i, <1>j, <1>k, <1>1 DEF Load, Sends, Breaks
<1>2. CASE ApplyConfigure(c)
  <2>1. CASE Ends(c) /\ (Applied(chosen[c]) \/ ApplyFails(chosen[c]) \/ ApplyRejected(chosen[c]))
    BY <1>a, <1>c, <1>g, <1>h, <1>k, <1>2, <2>1 DEF ApplyConfigure
  <2>2. CASE AppliedEarly(chosen[c]) /\ Goto(c, "late")
    <3> DEFINE r == chosen[c]
    <3>1. pc'[c] = "late" /\ UNCHANGED <<reading, chosen>>
      BY <1>c, <1>k, <1>2, <2>2 DEF ApplyConfigure
    <3>2. r \in Configs /\ active' = r /\ dmm' = AfterConf(Config(r.func, Default))
      BY <2>2 DEF AppliedEarly, Late, Sends, Keeps
    <3>3. dmm'.conf.func = r.func
      BY <1>f, <3>2
    <3> QED BY <3>1, <3>2, <3>3 DEF Tells, LabelledBy, Labelled, Fits
  <2> QED BY <1>2, <2>1, <2>2 DEF ApplyConfigure
<1>3. CASE ApplyLate(c)
  <2> DEFINE set == IF dmm.conf.func = chosen[c].func THEN [dmm EXCEPT !.conf = chosen[c]] ELSE dmm
  <2>1. pc[c] = "late" /\ pc'[c] = "idle" /\ UNCHANGED <<active, chosen, reading>>
    BY <1>c, <1>3 DEF ApplyLate
  <2>2. torn' \/ (dmm' = set /\ torn' = torn)
    BY <1>3 DEF ApplyLate, Sends
  <2>3. dmm.conf.func = chosen[c].func => set.conf = chosen[c]
    BY <1>a, <2>1, Effects DEF IInv, Halfway, Late
  <2> HIDE DEF set
  <2> QED BY <2>1, <2>2, <2>3 DEF Tells, LabelledBy, Believed, Labelled, Fits
<1>4. CASE MeasureApply(c)
  BY <1>a, <1>c, <1>g, <1>h, <1>k, <1>4 DEF MeasureApply
<1>5. CASE ReadRefused(c)
  BY <1>c, <1>e, <1>i, <1>j, <1>k, <1>5 DEF ReadRefused, Sends, Breaks
<1>6. CASE ReadAllowed(c)
  BY <1>c, <1>e, <1>i, <1>j, <1>k, <1>6 DEF ReadAllowed, Sends, Breaks
<1>7. CASE ReadFirst(c)
  BY <1>c, <1>e, <1>i, <1>j, <1>k, <1>7 DEF ReadFirst, Sends, Breaks
<1>8. CASE ReadReapply(c)
  <2>1. pc[c] = "reapply" /\ pc'[c] \in {"idle", "reread"} /\ UNCHANGED reading
    BY <1>c, <1>k, <1>8 DEF ReadReapply
  <2> QED BY <1>a, <1>e, <1>g, <1>h, <1>8, <2>1 DEF ReadReapply
<1>9. CASE ReadAgain(c)
  BY <1>c, <1>e, <1>i, <1>j, <1>k, <1>9 DEF ReadAgain, Sends, Breaks
<1>10. CASE RecoverClear(c)
  BY <1>c, <1>e, <1>i, <1>j, <1>k, <1>10 DEF RecoverClear, Sends, Breaks
<1>11. CASE RecoverDrain(c)
  BY <1>c, <1>e, <1>i, <1>j, <1>k, <1>11 DEF RecoverDrain, Sends, Breaks
<1>12. CASE RecoverLoad(c)
  BY <1>c, <1>e, <1>i, <1>j, <1>k, <1>12 DEF RecoverLoad, Sends, Breaks
<1>13. CASE BusArm(c)
  BY <1>c, <1>e, <1>i, <1>j, <1>k, <1>13 DEF BusArm, Sends, Breaks
<1>14. CASE BusTrigger(c)
  BY <1>c, <1>e, <1>i, <1>j, <1>k, <1>14 DEF BusTrigger, Sends, Breaks
<1>15. CASE BusFetch(c)
  BY <1>c, <1>e, <1>i, <1>j, <1>k, <1>15 DEF BusFetch, Sends, Breaks
<1>16. CASE KeepTrigger(c)
  BY <1>c, <1>e, <1>i, <1>j, <1>k, <1>16 DEF KeepTrigger, Sends, Breaks
<1>17. CASE ResetForget(c)
  <2>1. pc[c] = "forget" /\ pc'[c] = "idle" /\ UNCHANGED <<dmm, reading>>
    BY <1>c, <1>17 DEF ResetForget
  <2>2. active'.func = NoConfig
    BY <1>b, <1>17 DEF ResetForget, Beliefs
  <2> QED BY <2>1, <2>2 DEF Tells, LabelledBy, Believed, Labelled, Fits
<1>18. ASSUME NEW r \in Configs \cup {Rejected}, Configure(c, r) PROVE Tells(c)
  BY <1>c, <1>e, <1>i, <1>j, <1>k, <1>18 DEF Configure, Sends, Breaks
<1>19. ASSUME NEW r \in Configs \cup {Rejected}, Measure(c, r) PROVE Tells(c)
  BY <1>c, <1>e, <1>i, <1>j, <1>k, <1>19 DEF Measure, Sends, Breaks
<1>20. CASE ReadOnce(c)
  BY <1>c, <1>e, <1>i, <1>j, <1>k, <1>20 DEF ReadOnce, Sends, Breaks
<1>21. CASE ReadOnceBus(c)
  BY <1>c, <1>e, <1>i, <1>j, <1>k, <1>21 DEF ReadOnceBus, Sends, Breaks
<1>22. CASE Recover(c)
  BY <1>c, <1>e, <1>i, <1>j, <1>k, <1>22 DEF Recover, Sends, Breaks
<1>23. ASSUME NEW src \in {"IMM", "BUS"}, SetTrigger(c, src) PROVE Tells(c)
  <2>1. pc[c] = "idle" /\ pc'[c] \in {"idle", "keep_bus", "keep_imm"} /\ UNCHANGED <<reading, active, torn>>
    BY <1>c, <1>k, <1>23 DEF SetTrigger, control
  <2>2. dmm'.conf = dmm.conf
    BY <1>i, <1>j, <1>23 DEF SetTrigger, Sends, Breaks
  <2> QED BY <1>e, <2>1, <2>2
<1>24. CASE Initiate(c)
  BY <1>c, <1>e, <1>i, <1>j, <1>k, <1>24 DEF Initiate, Sends, Breaks
<1>25. CASE TriggerBus(c)
  BY <1>c, <1>e, <1>i, <1>j, <1>k, <1>25 DEF TriggerBus, Sends, Breaks
<1>26. CASE Fetch(c)
  <2>1. CASE UNCHANGED <<control, reading>>
    <3>1. pc[c] = "idle" /\ pc'[c] = "idle" /\ UNCHANGED <<active, torn>> /\ dmm'.conf = dmm.conf
      BY <1>c, <1>i, <1>j, <1>26, <2>1 DEF Fetch, Sends, control
    <3> QED BY <1>e, <2>1, <3>1
  <2>2. CASE Goto(c, "label")
    <3>1. pc[c] = "idle" /\ pc'[c] = "label" /\ "fetch" \in Ops
          /\ UNCHANGED <<active, torn>> /\ dmm'.conf = dmm.conf
      BY <1>c, <1>i, <1>j, <1>k, <1>26, <2>2 DEF Fetch, Sends, Begins, control
    <3>2. CASE UNCHANGED control
      BY <3>1, <3>2 DEF control
    <3>3. CASE reading' = [reading EXCEPT ![c] = [NoReading EXCEPT !.taken = dmm.conf,
                                                                   !.torn = torn]]
      <4>1. reading'[c].op = "none" /\ reading'[c].taken = dmm.conf /\ reading'[c].torn = torn
        BY <1>a, <3>3 DEF NoReading
      <4>2. torn \/ Fits(active, dmm.conf)
        BY <3>1 DEF Believed
      <4> QED BY <3>1, <4>1, <4>2 DEF Tells, LabelledBy, Believed, Labelled, Fits
    <3> QED BY <1>26, <3>2, <3>3 DEF Fetch
  <2> QED BY <1>26, <2>1, <2>2 DEF Fetch
<1>27. CASE ReadQuery(c)
  BY <1>c, <1>e, <1>i, <1>j, <1>k, <1>27 DEF ReadQuery, Sends, Breaks
<1>28. CASE Identify(c)
  BY <1>c, <1>e, <1>i, <1>j, <1>k, <1>28 DEF Identify, Sends, Breaks
<1>29. CASE Reset(c)
  <2>1. CASE Goto(c, "forget")
    <3>1. pc'[c] = "forget" /\ torn' = TRUE /\ dmm' = AfterReset /\ "reset" \in Ops
          /\ UNCHANGED reading
      BY <1>c, <1>k, <1>29, <2>1 DEF Reset, Sends, Begins, control
    <3>2. AfterReset.conf.func = PowerOn
      BY <1>a, Effects, ConfigIs
    <3> QED BY <3>1, <3>2 DEF Tells, LabelledBy, Labelled, Fits
  <2>2. CASE torn' = (torn \/ dmm' # dmm) /\ UNCHANGED control
    <3>1. pc[c] = "idle" /\ pc'[c] = "idle" /\ UNCHANGED <<active, reading>>
      BY <1>29, <2>2 DEF Reset, Begins, control
    <3> QED BY <2>2, <3>1 DEF Tells, LabelledBy, Believed, Labelled, Fits
  <2> QED BY <1>29, <2>1, <2>2 DEF Reset
<1>30. CASE Close(c)
  BY <1>c, <1>e, <1>i, <1>j, <1>k, <1>30 DEF Close, Sends, Breaks
<1>31. CASE Connect(c)
  BY <1>c, <1>e, <1>i, <1>j, <1>k, <1>31 DEF Connect, Sends, Breaks
<1>32. CASE FetchLabel(c)
  <2>1. pc[c] = "label" /\ pc'[c] = "idle" /\ UNCHANGED <<active, torn, dmm>>
    BY <1>c, <1>32 DEF FetchLabel
  <2>2. /\ reading'[c].label = active /\ reading'[c].taken = reading[c].taken
        /\ reading'[c].torn = reading[c].torn
    BY <1>a, <1>32 DEF FetchLabel
  <2> QED BY <2>1, <2>2 DEF Tells, LabelledBy, Believed, Labelled, Fits
<1> QED
  BY <1>1, <1>2, <1>3, <1>4, <1>5, <1>6, <1>7, <1>8, <1>9, <1>10, <1>11,
     <1>12, <1>13, <1>14, <1>15, <1>16, <1>17, <1>18, <1>19, <1>20, <1>21, <1>22,
     <1>23, <1>24, <1>25, <1>26, <1>27, <1>28, <1>29, <1>30, <1>31,
     <1>32 DEF Step, Call

\* The function and setting a reading carries are the ones the instrument measured with,
\* unless it says otherwise (torn), or none is active and it was VOLT_DC: for one thread,
\* and for any number if no setting is written after the bookkeeping and nobody calls
\* reset() or fetch(), which forget and label after the lock is released
\* (_build_reading(), reset() and the two orders in which configure_*() writes).
THEOREM LabelsAreTrue ==
  (Alone \/ (LateFunctions = {} /\ {"reset", "fetch"} \cap Ops = {}))
    => (Spec => []ReadingIsLabelled)
<1> SUFFICES ASSUME Alone \/ (LateFunctions = {} /\ {"reset", "fetch"} \cap Ops = {})
             PROVE  Spec => []ReadingIsLabelled
  OBVIOUS
<1>1. Init => Labels
  <2> SUFFICES ASSUME Init PROVE Labels
    OBVIOUS
  <2>1. \A c \in Threads : pc[c] = "idle" /\ Labelled(reading[c])
    BY DEF Init, NoReading, Labelled
  <2>2. active.func = NoConfig /\ dmm.conf.func = PowerOn
    BY ConfigIs DEF Init, Unconfigured
  <2> QED BY <2>1, <2>2 DEF Labels, LabelledBy, Believed, Fits
<1>2. ASSUME IInv, Labels, NEW c \in Threads, Step(c) \/ Call(c) PROVE Labels'
  <2>1. ASSUME NEW d \in Threads \ {c} PROVE pc[d] \notin {"late", "forget", "label"}
    BY <1>2 DEF Alone, IInv, Halfway, Late, Labels, LabelledBy
  <2>2. Tells(c)
    BY <1>2, <2>1, TellsIs DEF Labels
  <2>3. ASSUME NEW d \in Threads \ {c} PROVE pc'[d] = pc[d] /\ LabelledBy(d)'
    <3>1. pc'[d] = pc[d] /\ reading'[d] = reading[d]
      BY <1>2, MovesAre, OwnIs DEF Mine, Own
    <3> QED BY <1>2, <2>1, <3>1 DEF Labels, LabelledBy, Labelled, Fits
  <2> QED BY <2>2, <2>3 DEF Labels, Tells, Believed, LabelledBy, Labelled, Fits
<1>3. IInv /\ Labels /\ [Next]_vars => Labels'
  <2> SUFFICES ASSUME IInv, Labels, [Next]_vars PROVE Labels'
    OBVIOUS
  <2>1. CASE PowerCycle
    <3>1. AfterReset.conf.func = PowerOn
      BY Effects, ConfigIs DEF IInv, Types
    <3> QED BY <2>1, <3>1 DEF PowerCycle, link, believed, control, Labels, LabelledBy,
                              Labelled, Believed, Fits
  <2>2. CASE UNCHANGED vars
    BY <2>2 DEF vars, link, believed, control, Labels, LabelledBy, Labelled, Believed, Fits
  <2> QED BY <1>2, <2>1, <2>2 DEF Next, Done
<1>4. Labels => ReadingIsLabelled
  BY DEF Labels, LabelledBy, ReadingIsLabelled
<1> QED BY Inductive, <1>1, <1>3, <1>4, PTL DEF Spec
-----------------------------------------------------------------------------
(* The trigger source the driver believes in.                              *)

\* Between a source or reset that was delivered and the assignment after it.
Kept == \A c \in Threads : pc[c] \in {"keep_imm", "forget"} => dmm.trig = "IMM"

\* A step of a thread leaves the source, selects IMMediate, keeps what it selected, or
\* fails; what is assigned after the lock is released is due to a source or a reset.
Between == {"keep_imm", "keep_bus", "forget"}
Assigners == {"set_trigger", "reset"} \cap Ops
Source(c) ==
  \/ trigger' = trigger /\ dmm'.trig = dmm.trig /\ {pc[c], pc'[c]} \cap Between = {}
  \/ dmm'.trig = "IMM"
  \/ pc'[c] = "keep_bus"
  \/ trigger' = "BUS" /\ pc'[c] \notin Between
  \/ state' = "ERROR_RECOVERY" /\ trigger' = trigger /\ pc'[c] \notin Between
  \/ pc[c] \in {"keep_imm", "forget"} /\ dmm' = dmm /\ pc'[c] = "idle"
Selects(c) == Source(c) /\ (pc'[c] \in Between => Assigners # {})

LEMMA SelectsIs ==
  ASSUME IInv, NEW c \in Threads, Step(c) \/ Call(c)
  PROVE  Selects(c)
<1>a. pc \in [Threads -> Places] /\ dmm \in Instrument
  BY DEF IInv, Types
<1>c. /\ \A where \in Places : Goto(c, where) => pc'[c] = where
      /\ Ends(c) => pc'[c] = "idle"
      /\ \A op, r, where : Takes(c, op, r, where) => pc'[c] = where /\ pc[c] = "idle"
      /\ \A op : Briefly(c, op) => pc[c] = "idle" /\ pc'[c] = "idle" /\ trigger' = trigger
      /\ \A op : Begins(c, op) => pc[c] = "idle" /\ op \in Ops
  BY <1>a DEF Goto, Ends, Takes, Briefly, Begins, control, believed
<1>k. {"idle", "load", "m_load", "apply", "m_apply", "late", "read", "ask", "clear", "drain",
       "reapply", "reread", "r_clear", "r_drain", "r_load", "bus", "bus_trigger", "bus_fetch",
       "label", "keep_bus", "keep_imm", "forget"} \subseteq Places
  BY DEF Places
<1>i. /\ AfterClear.trig = dmm.trig /\ AfterTrg.trig = dmm.trig
      /\ \A src : AfterTrigger(src).trig = src
      /\ AfterInit(dmm).trig = dmm.trig /\ AfterRead(dmm).trig = dmm.trig
      /\ AfterRead(AfterTrigger("IMM")).trig = "IMM"
      /\ AfterReset.trig = "IMM" /\ \A r : AfterConf(r).trig = "IMM"
      /\ \A r : [dmm EXCEPT !.conf = r].trig = dmm.trig
  BY <1>a DEF AfterClear, AfterTrg, AfterTrigger, AfterInit, AfterRead, AfterReset, AfterConf,
              Instrument
<1>j. /\ QueryFailed => dmm'.trig = dmm.trig
      /\ ReadFails => dmm'.trig = dmm.trig \/ dmm'.trig = "IMM"
      /\ ReadAnswered(c) => dmm'.trig = "IMM"
      /\ \A op : Fetched(c, op) => dmm'.trig = dmm.trig
  BY <1>i DEF QueryFailed, ReadFails, ReadAnswered, Fetched, Sends, Breaks
<1>f. /\ \A r : Applied(r) \/ AppliedEarly(r) => dmm'.trig = "IMM"
      /\ \A r : ApplyFails(r) \/ ApplyRejected(r) =>
           trigger' = trigger /\ (dmm'.trig = dmm.trig \/ dmm'.trig = "IMM")
  BY <1>i DEF Applied, AppliedEarly, ApplyFails, ApplyRejected, Sends, Breaks
<1>e. ASSUME trigger' = trigger, dmm'.trig = dmm.trig \/ dmm'.trig = "IMM",
             pc[c] \notin Between, pc'[c] \notin Between
      PROVE  Selects(c)
  BY <1>e DEF Selects, Source
<1> USE DEF link, believed, Between
<1>1. CASE Load(c)
  BY <1>c, <1>e, <1>i, <1>j, <1>k, <1>1 DEF Load, Sends, Breaks
<1>2. CASE ApplyConfigure(c)
  BY <1>c, <1>e, <1>f, <1>k, <1>2 DEF ApplyConfigure, Selects, Source
<1>3. CASE ApplyLate(c)
  <2>1. trigger' = trigger /\ pc[c] = "late" /\ pc'[c] = "idle"
    BY <1>c, <1>3 DEF ApplyLate
  <2>2. dmm'.trig = dmm.trig
    <3>1. [dmm EXCEPT !.conf = chosen[c]].trig = dmm.trig
      BY <1>i
    <3> QED BY <1>3, <3>1 DEF ApplyLate, Sends, Breaks
  <2> QED BY <1>e, <2>1, <2>2
<1>4. CASE MeasureApply(c)
  BY <1>c, <1>e, <1>f, <1>k, <1>4 DEF MeasureApply, Selects, Source
<1>5. CASE ReadRefused(c)
  BY <1>c, <1>e, <1>i, <1>j, <1>k, <1>5 DEF ReadRefused, Sends, Breaks
<1>6. CASE ReadAllowed(c)
  BY <1>c, <1>e, <1>i, <1>j, <1>k, <1>6 DEF ReadAllowed, Sends, Breaks
<1>7. CASE ReadFirst(c)
  BY <1>c, <1>e, <1>i, <1>j, <1>k, <1>7 DEF ReadFirst, Sends, Breaks
<1>8. CASE ReadReapply(c)
  BY <1>c, <1>e, <1>f, <1>k, <1>8 DEF ReadReapply, Selects, Source
<1>9. CASE ReadAgain(c)
  BY <1>c, <1>e, <1>i, <1>j, <1>k, <1>9 DEF ReadAgain, Sends, Breaks
<1>10. CASE RecoverClear(c)
  BY <1>c, <1>e, <1>i, <1>j, <1>k, <1>10 DEF RecoverClear, Sends, Breaks
<1>11. CASE RecoverDrain(c)
  BY <1>c, <1>e, <1>i, <1>j, <1>k, <1>11 DEF RecoverDrain, Sends, Breaks
<1>12. CASE RecoverLoad(c)
  BY <1>c, <1>e, <1>i, <1>j, <1>k, <1>12 DEF RecoverLoad, Sends, Breaks
<1>13. CASE BusArm(c)
  BY <1>c, <1>i, <1>k, <1>13 DEF BusArm, Selects, Source, Assigners, Sends, Breaks, control
<1>14. CASE BusTrigger(c)
  BY <1>c, <1>e, <1>i, <1>j, <1>k, <1>14 DEF BusTrigger, Sends, Breaks
<1>15. CASE BusFetch(c)
  BY <1>c, <1>e, <1>i, <1>j, <1>k, <1>15 DEF BusFetch, Sends, Breaks
<1>16. CASE KeepTrigger(c)
  BY <1>c, <1>i, <1>k, <1>16 DEF KeepTrigger, Selects, Source, Assigners, Sends, Breaks, control
<1>17. CASE ResetForget(c)
  BY <1>c, <1>i, <1>k, <1>17 DEF ResetForget, Selects, Source, Assigners, Sends, Breaks, control
<1>18. ASSUME NEW r \in Configs \cup {Rejected}, Configure(c, r) PROVE Selects(c)
  BY <1>c, <1>e, <1>k, <1>18 DEF Configure
<1>19. ASSUME NEW r \in Configs \cup {Rejected}, Measure(c, r) PROVE Selects(c)
  BY <1>c, <1>e, <1>k, <1>19 DEF Measure
<1>20. CASE ReadOnce(c)
  BY <1>c, <1>e, <1>i, <1>j, <1>k, <1>20 DEF ReadOnce, Sends, Breaks
<1>21. CASE ReadOnceBus(c)
  BY <1>c, <1>e, <1>i, <1>j, <1>k, <1>21 DEF ReadOnceBus, Sends, Breaks
<1>22. CASE Recover(c)
  BY <1>c, <1>e, <1>i, <1>j, <1>k, <1>22 DEF Recover, Sends, Breaks
<1>23. ASSUME NEW src \in {"IMM", "BUS"}, SetTrigger(c, src) PROVE Selects(c)
  BY <1>c, <1>i, <1>k, <1>23 DEF SetTrigger, Selects, Source, Assigners, Sends, Breaks, control
<1>24. CASE Initiate(c)
  BY <1>c, <1>e, <1>i, <1>j, <1>k, <1>24 DEF Initiate, Sends, Breaks
<1>25. CASE TriggerBus(c)
  BY <1>c, <1>e, <1>i, <1>j, <1>k, <1>25 DEF TriggerBus, Sends, Breaks
<1>26. CASE Fetch(c)
  BY <1>c, <1>e, <1>i, <1>j, <1>k, <1>26 DEF Fetch, Sends, Breaks, control
<1>27. CASE ReadQuery(c)
  BY <1>c, <1>e, <1>i, <1>j, <1>k, <1>27 DEF ReadQuery, Sends, Breaks
<1>28. CASE Identify(c)
  BY <1>c, <1>e, <1>i, <1>j, <1>k, <1>28 DEF Identify, Sends, Breaks
<1>29. CASE Reset(c)
  BY <1>c, <1>i, <1>k, <1>29 DEF Reset, Selects, Source, Assigners, Sends, Breaks, control
<1>30. CASE Close(c)
  BY <1>c, <1>e, <1>i, <1>j, <1>k, <1>30 DEF Close, Sends, Breaks
<1>31. CASE Connect(c)
  BY <1>c, <1>e, <1>i, <1>j, <1>k, <1>31 DEF Connect, Sends, Breaks
<1>32. CASE FetchLabel(c)
  BY <1>c, <1>i, <1>k, <1>32 DEF FetchLabel, Selects, Source, Assigners, Sends, Breaks, control
<1> QED
  BY <1>1, <1>2, <1>3, <1>4, <1>5, <1>6, <1>7, <1>8, <1>9, <1>10, <1>11,
     <1>12, <1>13, <1>14, <1>15, <1>16, <1>17, <1>18, <1>19, <1>20, <1>21, <1>22,
     <1>23, <1>24, <1>25, <1>26, <1>27, <1>28, <1>29, <1>30, <1>31,
     <1>32 DEF Step, Call

\* The driver never forgets that the instrument is at BUS, except by a call that failed:
\* for one thread, and for any number if nobody sets the source or resets, both of which
\* assign _trigger_source after the lock is released.
THEOREM BusIsRemembered ==
  (Alone \/ Assigners = {}) => (Spec => BusIsNotForgotten)
<1> SUFFICES ASSUME Alone \/ Assigners = {}
             PROVE  Spec => BusIsNotForgotten
  OBVIOUS
<1> DEFINE KInv == Kept /\ \A c \in Threads : pc[c] \in Between => Alone
<1>1. Init => KInv
  BY DEF Init, Kept, Between
<1>2. ASSUME IInv, KInv, NEW c \in Threads, Step(c) \/ Call(c)
      PROVE  /\ KInv'
             /\ ~BusUnseen /\ BusUnseen' => state' = "ERROR_RECOVERY" /\ trigger' = trigger
  <2>1. \A d \in Threads \ {c} : pc'[d] = pc[d]
    BY <1>2, MovesAre DEF Mine
  <2>2. Selects(c)
    BY <1>2, SelectsIs
  <2>3. pc'[c] \in Between => Alone
    BY <2>2 DEF Selects
  <2>4. \A d \in Threads \ {c} : pc[d] \notin Between /\ pc'[d] \notin Between
    BY <1>2, <2>1, <2>2 DEF Alone, Selects, Source
  <2>5. KInv'
    <3>1. pc'[c] \in {"keep_imm", "forget"} => dmm'.trig = "IMM"
      BY <1>2, <2>2 DEF Kept, Selects, Source, Between
    <3>2. \A d \in Threads : pc'[d] \in {"keep_imm", "forget"} => dmm'.trig = "IMM"
      BY <2>4, <3>1 DEF Between
    <3>3. \A d \in Threads : pc'[d] \in Between => Alone
      BY <2>3, <2>4
    <3> QED BY <3>2, <3>3 DEF Kept, Alone, Between
  <2>6. ASSUME ~BusUnseen, BusUnseen' PROVE state' = "ERROR_RECOVERY" /\ trigger' = trigger
    BY <1>2, <2>2, <2>4, <2>6 DEF Kept, Selects, Source, Between, BusUnseen
  <2> QED BY <2>5, <2>6
<1>3. ASSUME IInv, KInv, [Next]_vars
      PROVE  /\ KInv'
             /\ ~BusUnseen /\ BusUnseen' => state' = "ERROR_RECOVERY" /\ trigger' = trigger
  <2>1. CASE PowerCycle
    <3>1. pc' = pc /\ dmm'.trig = "IMM"
      BY <2>1 DEF PowerCycle, control, AfterReset, AfterConf
    <3> QED BY <1>3, <3>1 DEF Kept, BusUnseen
  <2>2. CASE UNCHANGED vars
    <3>1. pc' = pc /\ dmm' = dmm /\ trigger' = trigger
      BY <2>2 DEF vars, control, believed
    <3> QED BY <1>3, <3>1 DEF Kept, BusUnseen
  <2> QED BY <1>2, <1>3, <2>1, <2>2 DEF Next, Done
<1>4. IInv /\ KInv /\ [Next]_vars =>
        [~BusUnseen /\ BusUnseen' => state' = "ERROR_RECOVERY" /\ trigger' = trigger]_vars
  BY <1>3
<1> HIDE DEF KInv
<1> QED BY Inductive, <1>1, <1>3, <1>4, PTL DEF Spec, BusIsNotForgotten
=============================================================================
