------------------------------ MODULE Transport ------------------------------
(***************************************************************************)
(* BaseTransport of hp34401a_dmm/transports.py: the one-outstanding-query  *)
(* rule between the driver's threads and one HP 34401A.                    *)
(*                                                                         *)
(* Every public method runs under the transport's lock from its first line *)
(* to its last, so a method is one step, except query(): the lock is held  *)
(* while the instrument works, and its answer, or the timeout, is a later  *)
(* step.  The instrument answers in the order it was asked, as late as it  *)
(* likes, and may never answer at all; an answer nobody read stays on the  *)
(* line and is what the next read returns.                                 *)
(*                                                                         *)
(* Questions are numbered in the order they reach the wire, which makes    *)
(* the line a set of numbers whose least member is read next.  "asked",    *)
(* "unguarded" and "result" are history: the code does not keep them.      *)
(***************************************************************************)
EXTENDS Naturals, FiniteSets

CONSTANTS
  Callers,       \* the threads that share one transport object
  Nobody,        \* "the lock is free"
  ClearDrains,   \* TRUE: a device clear leaves no answer behind; FALSE: an
                 \* answer already travelling survives the flush (RS-232)
  RawQuestions,  \* TRUE: write() is also given query text (Write DMM Command)
  MaxQuestions   \* bound on "asked", so that TLC explores finitely many states

ASSUME TransportAssumption ==
  /\ Nobody \notin Callers
  /\ ClearDrains \in BOOLEAN
  /\ RawQuestions \in BOOLEAN
  /\ MaxQuestions \in Nat

VARIABLES
  open,       \* _open
  unread,     \* _has_unread_output
  holder,     \* the thread waiting inside query(), which holds _lock
  line,       \* questions whose answer has not been read yet
  asked,      \* number of questions so far
  unguarded,  \* questions whose answer could still come with the flag down
  result      \* what each thread's latest call returned or raised

vars == <<open, unread, holder, line, asked, unguarded, result>>

Questions == 1..asked

Free == holder = Nobody
Room == asked < MaxQuestions

Outcome(kind, question, answer) ==
  [kind |-> kind, question |-> question, answer |-> answer]

Ends(c, kind) == result' = [result EXCEPT ![c] = Outcome(kind, 0, 0)]

\* a is the answer the next read returns.
FirstOf(S, a) == a \in S /\ \A b \in S : a <= b

\* What is left on the line once the device has been cleared.
AfterClear == IF ClearDrains THEN {{}} ELSE {{}, line}

Init ==
  /\ open = FALSE
  /\ unread = FALSE
  /\ holder = Nobody
  /\ line = {}
  /\ asked = 0
  /\ unguarded = {}
  /\ result = [c \in Callers |-> Outcome("none", 0, 0)]
-----------------------------------------------------------------------------
(* open() and close().  A second open() keeps the flag; only a failed one  *)
(* and close() lower it.  Answers still owed survive both.                 *)

OpenOk(c) ==
  /\ Free
  /\ open' = TRUE
  /\ Ends(c, "ok")
  /\ UNCHANGED <<unread, holder, line, asked, unguarded>>

OpenFails(c) ==
  /\ Free
  /\ open' = FALSE
  /\ unread' = FALSE
  /\ unguarded' = unguarded \cup line
  /\ Ends(c, "error")
  /\ UNCHANGED <<holder, line, asked>>

Close(c) ==
  /\ Free
  /\ open' = FALSE
  /\ unread' = FALSE
  /\ unguarded' = unguarded \cup line
  /\ Ends(c, "ok")
  /\ UNCHANGED <<holder, line, asked>>
-----------------------------------------------------------------------------
(* write(), write_raw().                                                   *)

\* "_has_unread_output" is up: ProtocolError, nothing is sent.
Refuse(c) ==
  /\ Free
  /\ unread
  /\ Ends(c, "refused")
  /\ UNCHANGED <<open, unread, holder, line, asked, unguarded>>

\* A command that asks for no answer, sent or failed on the way.
WriteCommand(c, outcome) ==
  /\ Free
  /\ ~unread
  /\ outcome = "ok" => open
  /\ Ends(c, outcome)
  /\ UNCHANGED <<open, unread, holder, line, asked, unguarded>>

\* Query text given to write(): the instrument will answer, the flag stays
\* down.  A write that timed out may have been delivered all the same.
WriteQuestion(c, outcome) ==
  /\ RawQuestions
  /\ Free
  /\ ~unread
  /\ open
  /\ Room
  /\ outcome \in {"ok", "timeout"}
  /\ asked' = asked + 1
  /\ line' = line \cup {asked + 1}
  /\ unguarded' = unguarded \cup {asked + 1}
  /\ Ends(c, outcome)
  /\ UNCHANGED <<open, unread, holder>>
-----------------------------------------------------------------------------
(* query().  The flag goes up before the command is sent and comes down    *)
(* only when an answer was read; every exception leaves it up.             *)

\* Mutant: the flag is not looked at.
Bug_QuerySendUnchecked(c, delivered) ==
  /\ Free
  /\ Room
  /\ delivered => open
  /\ unread' = TRUE
  /\ holder' = c
  /\ asked' = asked + 1
  /\ line' = IF delivered THEN line \cup {asked + 1} ELSE line
  /\ result' = [result EXCEPT ![c] = Outcome("pending", asked + 1, 0)]
  /\ UNCHANGED <<open, unguarded>>

\* Mutant: the flag is not raised before the command is sent.
Bug_FlagNotRaised(c, delivered) ==
  /\ Free
  /\ ~unread
  /\ Room
  /\ delivered => open
  /\ holder' = c
  /\ asked' = asked + 1
  /\ line' = IF delivered THEN line \cup {asked + 1} ELSE line
  /\ result' = [result EXCEPT ![c] = Outcome("pending", asked + 1, 0)]
  /\ UNCHANGED <<open, unread, unguarded>>

QuerySend(c, delivered) ==
  /\ Free
  /\ ~unread
  /\ Room
  /\ delivered => open
  /\ unread' = TRUE
  /\ holder' = c
  /\ asked' = asked + 1
  /\ line' = IF delivered THEN line \cup {asked + 1} ELSE line
  /\ result' = [result EXCEPT ![c] = Outcome("pending", asked + 1, 0)]
  /\ UNCHANGED <<open, unguarded>>

\* An answer that is not the caller's own leaves the caller's still to come.
QueryReply(c) ==
  /\ holder = c
  /\ open
  /\ \E a \in line :
       /\ FirstOf(line, a)
       /\ line' = line \ {a}
       /\ result' = [result EXCEPT ![c].kind = "answer", ![c].answer = a]
       /\ unguarded' = unguarded \cup ({result[c].question} \ {a})
  /\ unread' = FALSE
  /\ holder' = Nobody
  /\ UNCHANGED <<open, asked>>

\* Mutant: the flag comes down in a "finally".
Bug_QueryFailsLowersFlag(c, kind) ==
  /\ holder = c
  /\ kind \in {"timeout", "error"}
  /\ result' = [result EXCEPT ![c].kind = kind]
  /\ unread' = FALSE
  /\ holder' = Nobody
  /\ UNCHANGED <<open, line, asked, unguarded>>

\* Timeout, transport error, or an answer read but not decodable.
QueryFails(c, kind) ==
  /\ holder = c
  /\ kind \in {"timeout", "error"}
  /\ result' = [result EXCEPT ![c].kind = kind]
  /\ \/ line' = line
     \/ /\ kind = "error"
        /\ \E a \in line : FirstOf(line, a) /\ line' = line \ {a}
  /\ holder' = Nobody
  /\ UNCHANGED <<open, unread, asked, unguarded>>
-----------------------------------------------------------------------------
(* read_raw() and clear(), the two ways to lower the flag in a session.    *)

ReadRawOk(c) ==
  /\ Free
  /\ open
  /\ \E a \in line :
       /\ FirstOf(line, a)
       /\ line' = line \ {a}
       /\ unguarded' = unguarded \cup (line \ {a})
       /\ result' = [result EXCEPT ![c] = Outcome("raw", 0, a)]
  /\ unread' = FALSE
  /\ UNCHANGED <<open, holder, asked>>

ReadRawFails(c, kind) ==
  /\ Free
  /\ kind \in {"timeout", "error"}
  /\ Ends(c, kind)
  /\ UNCHANGED <<open, unread, holder, line, asked, unguarded>>

ClearOk(c) ==
  /\ Free
  /\ open
  /\ line' \in AfterClear
  /\ unguarded' = unguarded \cup line'
  /\ unread' = FALSE
  /\ Ends(c, "ok")
  /\ UNCHANGED <<open, holder, asked>>

\* Mutant: clear() lowers the flag before it talks to the device.
Bug_ClearFailsLowersFlag(c, kind) ==
  /\ Free
  /\ kind \in {"timeout", "error"}
  /\ unread' = FALSE
  /\ Ends(c, kind)
  /\ UNCHANGED <<open, holder, line, asked, unguarded>>

ClearFails(c, kind) ==
  /\ Free
  /\ kind \in {"timeout", "error"}
  /\ Ends(c, kind)
  /\ UNCHANGED <<open, unread, holder, line, asked, unguarded>>

\* write_raw() looks at no flag; the driver uses it for Ctrl-C, which makes
\* the instrument drop what it was about to answer (external, see Lose).
WriteRaw(c, outcome) ==
  /\ Free
  /\ outcome = "ok" => open
  /\ Ends(c, outcome)
  /\ UNCHANGED <<open, unread, holder, line, asked, unguarded>>

\* The instrument, or the adapter, drops an answer: it never comes.
Lose ==
  /\ \E a \in line : line' = line \ {a}
  /\ UNCHANGED <<open, unread, holder, asked, unguarded, result>>
-----------------------------------------------------------------------------
Failure == {"timeout", "error"}

Call(c) ==
  \/ OpenOk(c)
  \/ OpenFails(c)
  \/ Close(c)
  \/ Refuse(c)
  \/ \E outcome \in {"ok"} \cup Failure : WriteCommand(c, outcome)
  \/ \E outcome \in {"ok", "timeout"} : WriteQuestion(c, outcome)
  \/ \E outcome \in {"ok"} \cup Failure : WriteRaw(c, outcome)
  \/ \E delivered \in BOOLEAN : QuerySend(c, delivered)
  \/ QueryReply(c)
  \/ \E kind \in Failure : QueryFails(c, kind)
  \/ ReadRawOk(c)
  \/ \E kind \in Failure : ReadRawFails(c, kind)
  \/ ClearOk(c)
  \/ \E kind \in Failure : ClearFails(c, kind)

Next == (\E c \in Callers : Call(c)) \/ Lose

Spec == Init /\ [][Next]_vars
-----------------------------------------------------------------------------
(* Properties.                                                             *)

Outcomes ==
  [kind : {"none", "ok", "error", "timeout", "refused", "pending", "answer", "raw"},
   question : Nat, answer : Nat]

\* The type of every variable, and what the numbers refer to: nothing is on
\* the line, or let go, that was not asked.  A thread inside query() has raised
\* the flag.
TypeOK ==
  /\ open \in BOOLEAN
  /\ unread \in BOOLEAN
  /\ holder \in Callers \cup {Nobody}
  /\ holder # Nobody => unread
  /\ asked \in Nat
  /\ line \subseteq Questions
  /\ unguarded \subseteq Questions
  /\ result \in [Callers -> Outcomes]

\* While the flag is down, every answer that could still arrive is one the
\* transport has knowingly let go: the question came in through write(), its
\* session was closed under it, or a clear did not drain it.  This is what
\* makes "write and query look at the flag" enough.
FlagCoversLine == ~unread => line \subseteq unguarded

\* "Enforce one outstanding query at a time" (transports.py, rules 21.1): the
\* flag never guards two answers at once.
OneOutstanding == \A x, y \in line \ unguarded : x = y

\* query() never hands a thread the answer to a question that an earlier,
\* timed-out query left behind: an answer that is not the caller's own was
\* let go by one of the three ways above.
NoStaleAnswer ==
  \A c \in Callers :
    result[c].kind = "answer" =>
      result[c].answer \in {result[c].question} \cup unguarded
=============================================================================
