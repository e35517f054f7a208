-------------------------------- MODULE Sessions --------------------------------
(***************************************************************************)
(* The session table of a library instance (sessions.py): the open         *)
(* sessions in the order of the dictionary, the active one, and a          *)
(* generation per alias that goes into session_id.                         *)
(*                                                                         *)
(* The table is a value, and every method of SessionManager an operator    *)
(* from a table to a table, since one keyword calls several of them.  Its  *)
(* field open is not the manager's: it holds the drivers whose transport   *)
(* is open.                                                                *)
(***************************************************************************)
EXTENDS Naturals, Sequences, FiniteSets, SequencesExt

CONSTANTS
  Aliases,     \* case-folded aliases
  Resources,   \* VISA resources, serial ports, SIM:: resources
  NoAlias,     \* None
  MaxDrivers   \* bound on the drivers that are connected

ASSUME SessionsAssumption == NoAlias \notin Aliases /\ MaxDrivers \in Nat

Drivers == 1..MaxDrivers
NoDriver == 0
None == "none"
Own == "own"    \* an argument of a keyword or of the constructor

\* A session with what its driver keeps: where its timeout and the rest of its
\* policy come from, and (history) its last communication check.
Session(d, g, r) ==
  [driver |-> d, gen |-> g, res |-> r, timeout |-> Own, rest |-> Own, answered |-> "ok"]
NoSession == [Session(NoDriver, 0, None) EXCEPT !.answered = None]
DmmSession(origins) ==
  [driver : Drivers, gen : Drivers, res : Resources, timeout : origins, rest : origins,
   answered : {"ok", "bad"}]

Tables(origins) ==
  [order : {s \in UNION {[1..n -> Aliases] : n \in 0..Cardinality(Aliases)} : IsInjective(s)},
   sess : [Aliases -> DmmSession(origins) \cup {NoSession}],
   active : Aliases \cup {NoAlias},
   gens : [Aliases -> 0..MaxDrivers],
   open : SUBSET Drivers]

EmptyTable ==
  [order |-> <<>>, sess |-> [a \in Aliases |-> NoSession], active |-> NoAlias,
   gens |-> [a \in Aliases |-> 0], open |-> {}]

Registered(t) == ToSet(t.order)
Connected(t, a) == a \in Registered(t) /\ t.sess[a].driver \in t.open

\* get() and find() without an alias give the active session.
Found(t, a) == IF a = NoAlias THEN t.active ELSE a

\* A key occurs once in a dictionary.
Without(order, a) == RemoveAt(order, CHOOSE i \in DOMAIN order : order[i] = a)

Drops(t, a) == [t EXCEPT !.open = @ \ {t.sess[a].driver}]

\* Mutants: the generation starts again, a session that goes stays selected.
Bug_AddFirstGeneration(t, a, d, r) ==
  [t EXCEPT !.order = IF a \in Registered(t) THEN @ ELSE Append(@, a),
            !.sess[a] = Session(d, 1, r),
            !.gens[a] = 1, !.active = a, !.open = (@ \ {t.sess[a].driver}) \cup {d}]
Bug_RemoveKeepsActive(t, a) ==
  LET rest == Without(t.order, a)
  IN [Drops(t, a) EXCEPT !.order = rest, !.sess[a] = NoSession,
        !.active = IF rest = <<>> THEN NoAlias ELSE @]

\* add(): a replaced session's driver is closed first.
Add(t, a, d, r) ==
  [t EXCEPT !.order = IF a \in Registered(t) THEN @ ELSE Append(@, a),
            !.sess[a] = Session(d, t.gens[a] + 1, r),
            !.gens[a] = @ + 1,
            !.active = a,
            !.open = (@ \ {t.sess[a].driver}) \cup {d}]

\* close(): whether the driver's close raises or not.
RemoveSession(t, a) ==
  LET rest == Without(t.order, a)
  IN [Drops(t, a) EXCEPT
        !.order = rest,
        !.sess[a] = NoSession,
        !.active = IF @ # a THEN @ ELSE IF rest = <<>> THEN NoAlias ELSE Head(rest)]

\* close_all(): errors are collected and every session goes.
RemoveAll(t) ==
  [EmptyTable EXCEPT !.gens = t.gens,
     !.open = t.open \ {t.sess[a].driver : a \in Registered(t)}]

Select(t, a) == [t EXCEPT !.active = a]
=============================================================================
