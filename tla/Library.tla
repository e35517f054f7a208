-------------------------------- MODULE Library --------------------------------
(***************************************************************************)
(* The Robot library as one instance keeps it: sessions, the health it     *)
(* remembers of them, the effective configuration and the policy that each *)
(* open driver and the instance's defaults have of it (runtime_library.py  *)
(* over legacy_library.py).  A suite calls one keyword at a time, so a     *)
(* keyword is one step; what may fail inside is chosen in the step.        *)
(*                                                                         *)
(* A document that the schema accepts may lack the members of a section:   *)
(* the sections are required, their members are not.  Reading a missing    *)
(* member raises KeyError where the code reads it.                         *)
(***************************************************************************)
EXTENDS Sessions

CONSTANTS
  Docs,        \* documents the schema accepts
  Default,     \* the packaged default document
  RawDocs,     \* those that allow raw I/O
  Lacks        \* the section whose members a document has not

Sections == {"nothing", "timeouts", "safety", "policy"}  \* policy: retry, logging
ASSUME DocsAssumption ==
  /\ RawDocs \subseteq Docs /\ Default \notin Docs
  /\ Lacks \in [Docs \cup {Default} -> Sections]
  /\ Lacks[Default] = "nothing"

Documents == Docs \cup {Default}
Origins == Documents \cup {Own}

VARIABLES
  table,       \* the sessions, see Sessions
  made,        \* drivers connected so far
  health,      \* _communication_health
  effective,   \* ConfigurationManager._effective
  imported,    \* its sources are RUNTIME_IMPORT
  allowRaw,    \* _allow_raw_io
  timeout,     \* where _default_timeout_s comes from
  foreign,     \* health of an alias is not from a check of its driver (history)
  names,       \* alias and generation each driver was given (history)
  applied,     \* the document last applied without an error (history)
  say          \* Set Raw I/O Enabled since then (history)

settings == <<effective, imported, allowRaw, timeout, applied, say>>
checks == <<health, foreign>>
vars == <<table, made, names, settings, checks>>

Init ==
  /\ table = EmptyTable
  /\ made = 0
  /\ health = [a \in Aliases |-> None]
  /\ effective = Default /\ imported = FALSE
  /\ allowRaw \in BOOLEAN    \* an argument of the constructor
  /\ timeout = Own
  /\ foreign = [a \in Aliases |-> FALSE]
  /\ names = [d \in Drivers |-> <<>>]
  /\ applied = Default
  /\ say = IF allowRaw THEN "yes" ELSE None

In(a) == a \in Registered(table)
DriverOf(a) == table.sess[a].driver
Forgets(h, A) == [a \in Aliases |-> IF a \in A THEN None ELSE h[a]]
-----------------------------------------------------------------------------
(* Opening.  _register_connected() connects the new driver, then adds the  *)
(* session; whatever fails, the new driver is closed.                      *)

NewDriver == made + 1

\* Mutant: a driver whose session is refused stays open.
Bug_RegisteringLeaks(a, r, replace) ==
  [ok : {FALSE}, t : {IF In(a) /\ ~replace
                        THEN [table EXCEPT !.open = @ \cup {NewDriver}] ELSE table}]
    \cup IF In(a) /\ ~replace THEN {} ELSE {[ok |-> TRUE, t |-> Add(table, a, NewDriver, r)]}

\* What opening may leave: connecting failed or the name is taken, the close
\* of the replaced driver raised, or a session.
Registering(a, r, replace) ==
  {[ok |-> FALSE, t |-> table]}
    \cup (IF In(a) /\ replace THEN {[ok |-> FALSE, t |-> Drops(table, a)]} ELSE {})
    \cup (IF In(a) /\ ~replace THEN {}
          ELSE {[ok |-> TRUE, t |-> Add(table, a, NewDriver, r)]})

Opens(out, a) ==
  /\ made' = IF out.ok THEN NewDriver ELSE made
  /\ names' = IF out.ok THEN [names EXCEPT ![NewDriver] = <<a, out.t.sess[a].gen>>]
                        ELSE names

\* Open DMM Via VISA / Via Serial, Open Simulated DMM, Connect DMM: the driver
\* gets the keyword's arguments, the health table is not told.
OpenDmm(a, r, replace) ==
  /\ made < MaxDrivers
  /\ \E out \in Registering(a, r, replace) :
       /\ table' = out.t
       /\ Opens(out, a)
       /\ foreign' = IF out.t = table THEN foreign ELSE [foreign EXCEPT ![a] = TRUE]
  /\ UNCHANGED <<health, settings>>
-----------------------------------------------------------------------------
(* Connect.  A keyword that raises before it has opened anything changes   *)
(* at most _allow_raw_io.                                                  *)

ConnectTimeout(explicit) ==
  IF explicit THEN Own
  ELSE IF imported /\ Lacks[effective] # "timeouts" THEN effective ELSE timeout

ConnectRaw ==
  allowRaw' = IF imported THEN effective \in RawDocs ELSE allowRaw

\* apply_runtime_policy() and the expected terminal: on an error the session is
\* closed, also one that was open before, and its health forgotten unless that
\* close raises too.
PolicyApplied(a, t, explicit, h) ==
  \/ /\ Lacks[effective] = "nothing"
     /\ table' = [t EXCEPT !.sess[a].timeout = ConnectTimeout(explicit),
                           !.sess[a].rest = effective]
     /\ health' = [h EXCEPT ![a] = "ok"]
  \/ /\ table' = RemoveSession(t, a)
     /\ health' \in {Forgets(h, {a}), h}

\* The alias is connected to this resource: nothing is opened and nothing asked.
Reconnect(a, r, explicit) ==
  /\ Connected(table, a) /\ table.sess[a].res = r
  /\ PolicyApplied(a, table, explicit, health)
  /\ foreign' = [foreign EXCEPT ![a] = TRUE]
  /\ UNCHANGED <<made, names>>

\* Opens, then checks the communication: a failed check leaves the session.
ConnectNew(a, r, replace, explicit) ==
  /\ ~Connected(table, a)
  /\ made < MaxDrivers
  /\ \E out \in Registering(a, r, replace) :
       /\ Opens(out, a)
       /\ foreign' = [foreign EXCEPT ![a] = IF out.ok THEN FALSE ELSE @ \/ out.t # table]
       /\ \/ /\ ~out.ok
             /\ table' = out.t
             /\ UNCHANGED health
          \/ /\ out.ok
             /\ table' = [out.t EXCEPT !.sess[a].answered = "bad"]
             /\ health' = [health EXCEPT ![a] = "bad"]
          \/ /\ out.ok
             /\ PolicyApplied(a, out.t, explicit, [health EXCEPT ![a] = "ok"])

\* No resource, an unknown option, or the alias is connected to another resource.
ConnectRefused == UNCHANGED <<table, made, names, checks>>

Connect(a, r, replace, explicit) ==
  /\ ~(imported /\ Lacks[effective] = "safety")
  /\ ConnectRaw
  /\ Reconnect(a, r, explicit) \/ ConnectNew(a, r, replace, explicit) \/ ConnectRefused
  /\ UNCHANGED <<effective, imported, timeout, applied, say>>
-----------------------------------------------------------------------------
(* Closing.                                                                *)

Closes(t, forgotten) ==
  /\ table' = t
  /\ health' = Forgets(health, forgotten)
  /\ UNCHANGED <<made, names, settings, foreign>>

\* Close DMM, Disconnect DMM: the health of the alias stays.
CloseDmm(a) ==
  LET b == Found(table, a)
  IN In(b) /\ Closes(RemoveSession(table, b), {})

\* Disconnect: the health is forgotten unless the driver's close raises.
Disconnect(a) ==
  LET b == Found(table, a)
  IN In(b) /\ \E raised \in BOOLEAN :
                Closes(RemoveSession(table, b), IF raised THEN {} ELSE {b})

CloseAllDmms == Closes(RemoveAll(table), {})
DisconnectAll == \E raised \in BOOLEAN :
                    Closes(RemoveAll(table), IF raised THEN {} ELSE Aliases)
\* The listener's close() at the end of the suite; the defaults stay.
ListenerClose == Closes(RemoveAll(table), Aliases)

SelectConnection(a) ==
  /\ In(a)
  /\ table' = Select(table, a)
  /\ UNCHANGED <<made, names, settings, checks>>
-----------------------------------------------------------------------------
(* Health.                                                                 *)

Answers(t, b) == IF Connected(t, b) THEN {"ok", "bad"} ELSE {"bad"}

\* Mutant: a check that raises leaves the remembered health.
Bug_Checked(b, t) ==
  \E result \in Answers(t, b) :
    /\ health' = IF result = "ok" THEN [health EXCEPT ![b] = result] ELSE health
    /\ table' = [t EXCEPT !.sess[b].answered = result]
    /\ foreign' = [foreign EXCEPT ![b] = FALSE]

\* The check of a session: a driver that is closed is a failed check.
Checked(b, t) ==
  \E result \in Answers(t, b) :
    /\ health' = [health EXCEPT ![b] = result]
    /\ table' = [t EXCEPT !.sess[b].answered = result]
    /\ foreign' = [foreign EXCEPT ![b] = FALSE]

\* Check Communication, and Get Connection State with refresh.
CheckCommunication(a) ==
  LET b == Found(table, a)
  IN In(b) /\ Checked(b, table) /\ UNCHANGED <<made, names, settings>>

\* Reset Device: a new timeout first, if one is given; the reset may fail, and
\* need not be waited for.
ResetDevice(a) ==
  LET b == Found(table, a)
  IN /\ In(b)
     /\ \E t \in {table, [table EXCEPT !.sess[b].timeout = Own]} :
          \/ table' = t /\ UNCHANGED checks
          \/ Connected(t, b) /\ Checked(b, t)
     /\ UNCHANGED <<made, names, settings>>

\* communication_ok as List Connections and Get Connection State show it.
CommunicationOk(a) ==
  IF health[a] = None THEN Connected(table, a) ELSE health[a] = "ok"
-----------------------------------------------------------------------------
(* Configuration.  The document is effective before the policy is applied. *)

ApplySteps(doc) == [timeout |-> Lacks[doc] # "timeouts",
                    raw |-> Lacks[doc] \notin {"timeouts", "safety"},
                    drivers |-> Lacks[doc] = "nothing"]

\* The drivers of these sessions get the timeouts and the policy of the document.
Governed(doc, A) ==
  [table EXCEPT !.sess = [a \in Aliases |->
     IF a \in A THEN [@[a] EXCEPT !.timeout = doc, !.rest = doc] ELSE @[a]]]

\* Mutant: only the active session gets the policy.
Bug_ApplyToActive(doc) ==
  /\ timeout' = IF ApplySteps(doc).timeout THEN doc ELSE timeout
  /\ allowRaw' = IF ApplySteps(doc).raw THEN doc \in RawDocs ELSE allowRaw
  /\ table' = IF ApplySteps(doc).drivers /\ table.active # NoAlias
                THEN Governed(doc, {table.active}) ELSE table
  /\ applied' = IF Lacks[doc] = "nothing" \/ (Lacks[doc] = "policy" /\ table.order = <<>>)
                THEN doc ELSE None

\* _apply_effective_policy(): stops where a member is missing.  Retry and
\* logging are read only for an open session.
ApplyEffectivePolicy(doc) ==
  /\ timeout' = IF ApplySteps(doc).timeout THEN doc ELSE timeout
  /\ allowRaw' = IF ApplySteps(doc).raw THEN doc \in RawDocs ELSE allowRaw
  /\ table' = IF ApplySteps(doc).drivers THEN Governed(doc, Registered(table)) ELSE table
  /\ applied' = IF Lacks[doc] = "nothing" \/ (Lacks[doc] = "policy" /\ table.order = <<>>)
                THEN doc ELSE None

Configures(doc) ==
  /\ effective' = doc
  /\ say' = None
  /\ ApplyEffectivePolicy(doc)
  /\ UNCHANGED <<made, names, checks>>

\* Import / Load Driver Configuration of a document that validates.
ImportConfiguration(doc) == Configures(doc) /\ imported' = TRUE
ResetConfiguration == Configures(Default) /\ imported' = FALSE

SetRawIoEnabled(b) ==
  /\ allowRaw' = b
  /\ say' = IF b THEN "yes" ELSE "no"
  /\ UNCHANGED <<table, made, names, effective, imported, timeout, applied, checks>>

\* Set Communication Timeout: of a session, or of the instance when none is open.
SetCommunicationTimeout(a) ==
  LET b == Found(table, a)
  IN /\ IF b # NoAlias
          THEN In(b) /\ table' = [table EXCEPT !.sess[b].timeout = Own]
                     /\ UNCHANGED timeout
          ELSE timeout' = Own /\ UNCHANGED table
     /\ UNCHANGED <<made, names, effective, imported, allowRaw, applied, say,
                    checks>>

\* Query Raw Command sets its timeout before it asks whether raw I/O is allowed,
\* Read Raw Response after.
QueryRawCommand(a) == SetCommunicationTimeout(a)
ReadRawResponse(a) ==
  allowRaw /\ Found(table, a) # NoAlias /\ SetCommunicationTimeout(a)
-----------------------------------------------------------------------------
Next ==
  \/ \E a \in Aliases, r \in Resources, replace \in BOOLEAN : OpenDmm(a, r, replace)
  \/ \E a \in Aliases, r \in Resources, replace, explicit \in BOOLEAN :
       Connect(a, r, replace, explicit)
  \/ \E a \in Aliases \cup {NoAlias} :
       \/ CloseDmm(a) \/ Disconnect(a) \/ CheckCommunication(a)
       \/ ResetDevice(a) \/ SetCommunicationTimeout(a)
       \/ QueryRawCommand(a) \/ ReadRawResponse(a)
  \/ \E a \in Aliases : SelectConnection(a)
  \/ CloseAllDmms \/ DisconnectAll \/ ListenerClose
  \/ \E doc \in Docs : ImportConfiguration(doc)
  \/ ResetConfiguration
  \/ \E b \in BOOLEAN : SetRawIoEnabled(b)

Spec == Init /\ [][Next]_vars
-----------------------------------------------------------------------------
TypeOK ==
  /\ table \in Tables(Origins)
  /\ made \in 0..MaxDrivers
  /\ health \in [Aliases -> {None, "ok", "bad"}]
  /\ effective \in Documents /\ imported \in BOOLEAN
  /\ allowRaw \in BOOLEAN
  /\ timeout \in Origins
  /\ foreign \in [Aliases -> BOOLEAN]
  /\ applied \in Documents \cup {None}
  /\ say \in {None, "yes", "no"}

\* No driver is open that no session holds, whichever of connecting, adding,
\* checking, replacing and applying the policy failed, and two sessions never
\* hold the same driver: what the cleanup in _register_connected() and Connect
\* is for.
NoForgottenDriver ==
  /\ table.open \subseteq {DriverOf(a) : a \in Registered(table)}
  /\ \A a, b \in Registered(table) : DriverOf(a) = DriverOf(b) => a = b

\* An alias that is not given means an open session as long as there is one:
\* whatever closes a session passes the selection on.
SomethingIsSelected ==
  IF table.order = <<>> THEN table.active = NoAlias ELSE In(table.active)

\* A session_id names one connection for the life of the library, although
\* aliases are closed, replaced and opened again.
SessionIdsAreUnique ==
  \A d, e \in 1..made : names[d] = names[e] => d = e

\* The health shown of a session is the result of the last check of its own
\* driver, except where foreign says why not: Connect found the alias open, an
\* opening keyword took over an alias, or a replacement failed half-way.
HealthIsOfThisDriver ==
  \A a \in Registered(table) :
    ~foreign[a] => CommunicationOk(a) = (table.sess[a].answered = "ok")

\* The same without the exception, as library.py says of the listing: the
\* last-known communication result.
ListedHealthIsLastKnown ==
  \A a \in Registered(table) : CommunicationOk(a) = (table.sess[a].answered = "ok")

\* While the effective document could be applied, every open driver has its
\* policy from it or from the keyword that opened it, and raw I/O is allowed only
\* by that document or by Set Raw I/O Enabled.
PolicyIsUniform ==
  applied # None =>
    /\ \A a \in Registered(table) : table.sess[a].rest \in {Own, effective}
    /\ allowRaw => say = "yes" \/ effective \in RawDocs

\* What "transactionally" says of Import Driver Configuration: one that raises
\* does not leave its document effective.
ImportIsTransactional == applied # None
=============================================================================
