---------------------------- MODULE TransportProofs ----------------------------
(***************************************************************************)
(* For any number of threads, either kind of clear, raw questions or not,  *)
(* and any bound: the transport's type invariant, the coverage of the line *)
(* by the unread flag, NoStaleAnswer, and that it implements Exchange.     *)
(*                                                                         *)
(* FlagCoversLine is not inductive: to lower the flag after an answer, one *)
(* must know that the only guarded answer is the caller's own.  Waiting    *)
(* says so while query() holds the lock; Single says so after it failed.   *)
(***************************************************************************)
EXTENDS TransportImplements, TLAPS

\* While a thread is inside query() the flag is up, the thread's result is
\* pending, and only its own answer is guarded.
Waiting ==
  holder # Nobody =>
    /\ unread
    /\ result[holder].question \in Questions
    /\ line \ unguarded \subseteq {result[holder].question}

IInv ==
  /\ TypeOK
  /\ Waiting
  /\ FlagCoversLine
  /\ OneOutstanding
  /\ NoStaleAnswer

USE DEF Free, Room, Outcome, Ends, FirstOf, AfterClear, Failure, Questions

\* The invariant holds at the start: nothing is asked, nothing on the line.
LEMMA InitOK == Init => IInv
<1> SUFFICES ASSUME Init PROVE IInv
  OBVIOUS
<1> USE TransportAssumption DEF Init
<1>1. TypeOK
  BY DEF TypeOK, Outcomes
<1>2. Waiting /\ FlagCoversLine /\ OneOutstanding
  BY DEF Waiting, FlagCoversLine, OneOutstanding
<1>3. NoStaleAnswer
  BY DEF NoStaleAnswer
<1> QED BY <1>1, <1>2, <1>3 DEF IInv

\* Every step keeps the types; that an answer's question was asked needs Waiting.
LEMMA TypeStep == TypeOK /\ Waiting /\ [Next]_vars => TypeOK'
<1> SUFFICES ASSUME TypeOK, Waiting, [Next]_vars PROVE TypeOK'
  OBVIOUS
<1> USE TransportAssumption DEF TypeOK, Outcomes
<1>1. ASSUME NEW c \in Callers, Call(c) PROVE TypeOK'
  <2>1. CASE OpenOk(c) BY <2>1 DEF OpenOk
  <2>2. CASE OpenFails(c) BY <2>2 DEF OpenFails
  <2>3. CASE Close(c) BY <2>3 DEF Close
  <2>4. CASE Refuse(c) BY <2>4 DEF Refuse
  <2>5. ASSUME NEW o \in {"ok"} \cup Failure, WriteCommand(c, o) PROVE TypeOK'
    BY <2>5 DEF WriteCommand
  <2>6. ASSUME NEW o \in {"ok", "timeout"}, WriteQuestion(c, o) PROVE TypeOK'
    BY <2>6 DEF WriteQuestion
  <2>7. ASSUME NEW o \in {"ok"} \cup Failure, WriteRaw(c, o) PROVE TypeOK'
    BY <2>7 DEF WriteRaw
  <2>8. ASSUME NEW d \in BOOLEAN, QuerySend(c, d) PROVE TypeOK'
    BY <2>8 DEF QuerySend
  <2>9. CASE QueryReply(c)
    <3>1. PICK a \in line :
            /\ line' = line \ {a}
            /\ result' = [result EXCEPT ![c].kind = "answer", ![c].answer = a]
            /\ unguarded' = unguarded \cup ({result[c].question} \ {a})
      BY <2>9 DEF QueryReply
    <3>2. a \in Nat /\ result[c].question \in Questions
      BY <2>9 DEF QueryReply, Waiting
    <3>3. result' \in [Callers -> Outcomes]
      BY <3>1, <3>2
    <3> QED BY <2>9, <3>1, <3>2, <3>3 DEF QueryReply
  <2>10. ASSUME NEW k \in Failure, QueryFails(c, k) PROVE TypeOK'
    BY <2>10 DEF QueryFails
  <2>11. CASE ReadRawOk(c)
    <3>1. PICK a \in line :
            /\ line' = line \ {a}
            /\ unguarded' = unguarded \cup (line \ {a})
            /\ result' = [result EXCEPT ![c] = Outcome("raw", 0, a)]
      BY <2>11 DEF ReadRawOk
    <3>2. result' \in [Callers -> Outcomes]
      BY <3>1
    <3> QED BY <2>11, <3>1, <3>2 DEF ReadRawOk
  <2>12. ASSUME NEW k \in Failure, ReadRawFails(c, k) PROVE TypeOK'
    BY <2>12 DEF ReadRawFails
  <2>13. CASE ClearOk(c) BY <2>13 DEF ClearOk
  <2>14. ASSUME NEW k \in Failure, ClearFails(c, k) PROVE TypeOK'
    BY <2>14 DEF ClearFails
  <2> QED
    BY <1>1, <2>1, <2>2, <2>3, <2>4, <2>5, <2>6, <2>7, <2>8, <2>9, <2>10, <2>11,
       <2>12, <2>13, <2>14 DEF Call
<1>2. CASE Lose BY <1>2 DEF Lose
<1>3. CASE UNCHANGED vars BY <1>3 DEF vars
<1> QED BY <1>1, <1>2, <1>3 DEF Next

\* What the flag, the line and the results have to do with each other.
Coverage == Waiting /\ FlagCoversLine /\ OneOutstanding /\ NoStaleAnswer

\* A step that leaves lock, flag and line alone, and gives a thread a result
\* that is no answer, disturbs nothing.
LEMMA QuietStep ==
  ASSUME TypeOK, Coverage, NEW c \in Callers, NEW kind, kind # "answer",
         Ends(c, kind), Free,
         UNCHANGED <<unread, holder, line, asked, unguarded>>
  PROVE  Coverage'
  BY TransportAssumption
     DEF Coverage, Waiting, FlagCoversLine, OneOutstanding, NoStaleAnswer, TypeOK, Outcomes

\* A step that lowers the flag outside query() and lets go of what is left.
LEMMA ReleasingStep ==
  ASSUME TypeOK, Coverage, Free, holder' = holder,
         line' \subseteq unguarded', unguarded \subseteq unguarded',
         NEW c \in Callers, NEW r, r.kind # "answer",
         result' = [result EXCEPT ![c] = r]
  PROVE  Coverage'
  BY TransportAssumption
     DEF Coverage, Waiting, FlagCoversLine, OneOutstanding, NoStaleAnswer, TypeOK, Outcomes

\* Every step keeps the flag's promise about the line.
LEMMA CoverageStep == TypeOK /\ Coverage /\ [Next]_vars => Coverage'
<1> SUFFICES ASSUME TypeOK, Coverage, [Next]_vars PROVE Coverage'
  OBVIOUS
<1> USE TransportAssumption
<1>1. ASSUME NEW c \in Callers, Call(c) PROVE Coverage'
  <2>1. CASE OpenOk(c) BY <2>1, QuietStep DEF OpenOk
  <2>2. CASE OpenFails(c) BY <2>2, ReleasingStep DEF OpenFails
  <2>3. CASE Close(c) BY <2>3, ReleasingStep DEF Close
  <2>4. CASE Refuse(c) BY <2>4, QuietStep DEF Refuse
  <2>5. ASSUME NEW o \in {"ok"} \cup Failure, WriteCommand(c, o) PROVE Coverage'
    BY <2>5, QuietStep DEF WriteCommand
  <2>6. ASSUME NEW o \in {"ok", "timeout"}, WriteQuestion(c, o) PROVE Coverage'
    <3>1. line \subseteq unguarded BY <2>6 DEF WriteQuestion, Coverage, FlagCoversLine
    <3> QED BY <2>6, <3>1, ReleasingStep DEF WriteQuestion
  <2>7. ASSUME NEW o \in {"ok"} \cup Failure, WriteRaw(c, o) PROVE Coverage'
    BY <2>7, QuietStep DEF WriteRaw
  <2>8. ASSUME NEW d \in BOOLEAN, QuerySend(c, d) PROVE Coverage'
    <3> USE DEF QuerySend, TypeOK, Outcomes
    <3>1. line \subseteq unguarded BY <2>8 DEF Coverage, FlagCoversLine
    <3>2. line' \ unguarded' \subseteq {asked + 1} BY <2>8, <3>1
    <3>3. Waiting' BY <2>8, <3>2 DEF Waiting
    <3>4. FlagCoversLine' /\ OneOutstanding' BY <2>8, <3>2 DEF FlagCoversLine, OneOutstanding
    <3>5. NoStaleAnswer' BY <2>8 DEF NoStaleAnswer, Coverage
    <3> QED BY <3>3, <3>4, <3>5 DEF Coverage
  <2>9. CASE QueryReply(c)
    <3> USE DEF QueryReply
    <3>1. PICK a \in line :
            /\ line' = line \ {a}
            /\ result' = [result EXCEPT ![c].kind = "answer", ![c].answer = a]
            /\ unguarded' = unguarded \cup ({result[c].question} \ {a})
      BY <2>9
    <3>2. line \ unguarded \subseteq {result[c].question}
      BY <2>9 DEF Coverage, Waiting
    <3>3. line' \subseteq unguarded' BY <3>1, <3>2
    <3>4. a \in {result[c].question} \cup unguarded BY <3>1, <3>2
    <3>5. NoStaleAnswer'
      BY <2>9, <3>1, <3>4 DEF NoStaleAnswer, Coverage, TypeOK, Outcomes
    <3> QED
      BY <2>9, <3>3, <3>5 DEF Coverage, Waiting, FlagCoversLine, OneOutstanding
  <2>10. ASSUME NEW k \in Failure, QueryFails(c, k) PROVE Coverage'
    <3> USE DEF QueryFails
    <3>1. line' \subseteq line BY <2>10
    <3>2. unread BY <2>10 DEF Coverage, Waiting
    <3>3. NoStaleAnswer' BY <2>10 DEF NoStaleAnswer, Coverage, TypeOK, Outcomes
    <3> QED
      BY <2>10, <3>1, <3>2, <3>3 DEF Coverage, Waiting, FlagCoversLine, OneOutstanding
  <2>11. CASE ReadRawOk(c)
    <3>1. PICK a \in line :
            /\ line' = line \ {a}
            /\ unguarded' = unguarded \cup (line \ {a})
            /\ result' = [result EXCEPT ![c] = Outcome("raw", 0, a)]
      BY <2>11 DEF ReadRawOk
    <3> QED BY <2>11, <3>1, ReleasingStep DEF ReadRawOk
  <2>12. ASSUME NEW k \in Failure, ReadRawFails(c, k) PROVE Coverage'
    BY <2>12, QuietStep DEF ReadRawFails
  <2>13. CASE ClearOk(c) BY <2>13, ReleasingStep DEF ClearOk
  <2>14. ASSUME NEW k \in Failure, ClearFails(c, k) PROVE Coverage'
    BY <2>14, QuietStep DEF ClearFails
  <2> QED
    BY <1>1, <2>1, <2>2, <2>3, <2>4, <2>5, <2>6, <2>7, <2>8, <2>9, <2>10, <2>11,
       <2>12, <2>13, <2>14 DEF Call
<1>2. CASE Lose
  BY <1>2 DEF Lose, Coverage, Waiting, FlagCoversLine, OneOutstanding, NoStaleAnswer
<1>3. CASE UNCHANGED vars
  BY <1>3 DEF vars, Coverage, Waiting, FlagCoversLine, OneOutstanding, NoStaleAnswer
<1> QED BY <1>1, <1>2, <1>3 DEF Next

\* The invariant holds in every reachable state.
LEMMA Inductive == Spec => []IInv
<1>1. IInv /\ [Next]_vars => IInv'
  BY TypeStep, CoverageStep DEF IInv, Coverage
<1> QED BY InitOK, <1>1, PTL DEF Spec

\* Every variable keeps its type and every number on the line or let go was
\* asked, whatever the threads do (BaseTransport, all methods).
THEOREM TypeCorrect == Spec => []TypeOK
  BY Inductive, PTL DEF IInv

\* While _has_unread_output is down, nothing it should guard is on the line.
THEOREM FlagSound == Spec => []FlagCoversLine
  BY Inductive, PTL DEF IInv

\* query() returns the caller's own answer or one that write(), close() or an
\* incomplete clear() let go; never one a timed-out query() left behind.
THEOREM AnswersAreFresh == Spec => []NoStaleAnswer
  BY Inductive, PTL DEF IInv

\* The flag never guards two answers at once.
THEOREM OneAtATime == Spec => []OneOutstanding
  BY Inductive, PTL DEF IInv
-----------------------------------------------------------------------------
(* Refinement of Exchange.                                                 *)

\* A call that gives no answer and leaves lock, flag and numbers alone is an
\* "Other" of the exchange.
LEMMA OtherStep ==
  ASSUME TypeOK, NEW c \in Callers, NEW kind, kind # "answer", Ends(c, kind), Free,
         UNCHANGED <<unread, holder, asked, unguarded>>
  PROVE  Abstract!Other(c)
  BY DEF Abstract!Other, Abstract!NoAnswer, Abstract!Others, TypeOK

\* A call that lowers the flag outside query() unblocks the exchange.
LEMMA UnblockStep ==
  ASSUME TypeOK, NEW c \in Callers, NEW r, r.kind # "answer",
         result' = [result EXCEPT ![c] = r], Free, ~unread', holder' = holder,
         asked' = asked, unguarded \subseteq unguarded', unguarded' \subseteq Questions
  PROVE  Abstract!Unblock(c)
  BY DEF Abstract!Unblock, Abstract!NoAnswer, Abstract!Others, TypeOK

\* Every step of the transport is a step of the exchange or a stutter.
LEMMA ExchangeStep == TypeOK /\ Waiting /\ [Next]_vars => [Abstract!Next]_(Abstract!vars)
<1> SUFFICES ASSUME TypeOK, Waiting, [Next]_vars PROVE [Abstract!Next]_(Abstract!vars)
  OBVIOUS
<1> USE TransportAssumption
<1>1. ASSUME NEW c \in Callers, Call(c)
      PROVE  \/ Abstract!Ask(c) \/ Abstract!Answer(c) \/ Abstract!Fail(c)
             \/ Abstract!Other(c) \/ Abstract!Unblock(c) \/ Abstract!AskUnheard(c)
  <2>1. CASE OpenOk(c) BY <2>1, OtherStep DEF OpenOk
  <2>2. CASE OpenFails(c) BY <2>2, UnblockStep DEF OpenFails, TypeOK
  <2>3. CASE Close(c) BY <2>3, UnblockStep DEF Close, TypeOK
  <2>4. CASE Refuse(c) BY <2>4, OtherStep DEF Refuse
  <2>5. ASSUME NEW o \in {"ok"} \cup Failure, WriteCommand(c, o) PROVE Abstract!Other(c)
    BY <2>5, OtherStep DEF WriteCommand
  <2>6. ASSUME NEW o \in {"ok", "timeout"}, WriteQuestion(c, o) PROVE Abstract!AskUnheard(c)
    BY <2>6 DEF WriteQuestion, Abstract!AskUnheard, Abstract!NoAnswer, Abstract!Others, TypeOK
  <2>7. ASSUME NEW o \in {"ok"} \cup Failure, WriteRaw(c, o) PROVE Abstract!Other(c)
    BY <2>7, OtherStep DEF WriteRaw
  <2>8. ASSUME NEW d \in BOOLEAN, QuerySend(c, d) PROVE Abstract!Ask(c)
    BY <2>8 DEF QuerySend, Abstract!Ask
  <2>9. CASE QueryReply(c)
    <3>1. PICK a \in line :
            /\ result' = [result EXCEPT ![c].kind = "answer", ![c].answer = a]
            /\ unguarded' = unguarded \cup ({result[c].question} \ {a})
      BY <2>9 DEF QueryReply
    <3>2. a \in {result[c].question} \cup unguarded BY <2>9 DEF QueryReply, Waiting
    <3>3. Abstract!Answer(c) BY <2>9, <3>1, <3>2 DEF QueryReply, Waiting, Abstract!Answer
    <3> QED BY <3>3
  <2>10. ASSUME NEW k \in Failure, QueryFails(c, k) PROVE Abstract!Fail(c)
    BY <2>10 DEF QueryFails, Waiting, TypeOK, Outcomes,
         Abstract!Fail, Abstract!NoAnswer, Abstract!Others
  <2>11. CASE ReadRawOk(c)
    <3>1. PICK a \in line :
            /\ unguarded' = unguarded \cup (line \ {a})
            /\ result' = [result EXCEPT ![c] = Outcome("raw", 0, a)]
      BY <2>11 DEF ReadRawOk
    <3> QED BY <2>11, <3>1, UnblockStep DEF ReadRawOk, TypeOK
  <2>12. ASSUME NEW k \in Failure, ReadRawFails(c, k) PROVE Abstract!Other(c)
    BY <2>12, OtherStep DEF ReadRawFails
  <2>13. CASE ClearOk(c) BY <2>13, UnblockStep DEF ClearOk, TypeOK
  <2>14. ASSUME NEW k \in Failure, ClearFails(c, k) PROVE Abstract!Other(c)
    BY <2>14, OtherStep DEF ClearFails
  <2> QED
    BY <1>1, <2>1, <2>2, <2>3, <2>4, <2>5, <2>6, <2>7, <2>8, <2>9, <2>10, <2>11,
       <2>12, <2>13, <2>14 DEF Call
<1>2. CASE Lose BY <1>2 DEF Lose, Abstract!vars
<1>3. CASE UNCHANGED vars BY <1>3 DEF vars, Abstract!vars
<1> QED BY <1>1, <1>2, <1>3 DEF Next, Abstract!Next

\* The transport implements the exchange, for every value of the constants:
\* lock, flag and line give the callers what Exchange promises.
THEOREM Implements == Spec => ImplementsExchange
<1>1. Init => Abstract!Init
  BY DEF Init, Abstract!Init
<1>2. IInv /\ [Next]_vars => [Abstract!Next]_(Abstract!vars)
  BY ExchangeStep DEF IInv
<1> QED BY Inductive, <1>1, <1>2, PTL DEF Spec, Abstract!Spec, ImplementsExchange
=============================================================================
