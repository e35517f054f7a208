------------------------------- MODULE Exchange -------------------------------
(***************************************************************************)
(* What the transport promises its callers, without flag order, line or    *)
(* open and closed: one question at a time; it is answered with its own    *)
(* answer, or with one of the "strays", or it fails, and after a failure   *)
(* nothing more is asked until someone unblocks the exchange.              *)
(***************************************************************************)
EXTENDS Naturals

CONSTANTS Callers, Nobody

VARIABLES
  asker,    \* the thread whose question is being answered
  blocked,  \* a question failed, its answer may still come
  issued,   \* number of questions so far
  strays,   \* questions whose answer a later question may be given
  result    \* what each thread's latest call brought it

vars == <<asker, blocked, issued, strays, result>>

NoAnswer(c) == result'[c].kind # "answer"
Others(c) == \A d \in Callers \ {c} : result'[d] = result[d]

Init ==
  /\ asker = Nobody
  /\ blocked = FALSE
  /\ issued = 0
  /\ strays = {}
  /\ result = [c \in Callers |-> [kind |-> "none", question |-> 0, answer |-> 0]]

Ask(c) ==
  /\ asker = Nobody
  /\ ~blocked
  /\ asker' = c
  /\ issued' = issued + 1
  /\ result' = [result EXCEPT ![c] =
                  [kind |-> "pending", question |-> issued + 1, answer |-> 0]]
  /\ UNCHANGED <<blocked, strays>>

\* The answer belongs to the question, or the exchange has slipped by one and
\* the question's own answer becomes a stray.
Answer(c) ==
  /\ asker = c
  /\ \E a \in {result[c].question} \cup strays :
       /\ result' = [result EXCEPT ![c].kind = "answer", ![c].answer = a]
       /\ strays' = strays \cup ({result[c].question} \ {a})
  /\ asker' = Nobody
  /\ UNCHANGED <<blocked, issued>>

Fail(c) ==
  /\ asker = c
  /\ asker' = Nobody
  /\ blocked' = TRUE
  /\ NoAnswer(c)
  /\ Others(c)
  /\ UNCHANGED <<issued, strays>>

\* A call that asks nothing of the exchange, a refused one included.
Other(c) ==
  /\ asker = Nobody
  /\ NoAnswer(c)
  /\ Others(c)
  /\ UNCHANGED <<asker, blocked, issued, strays>>

\* A device clear, a raw read, or the end of the session.
Unblock(c) ==
  /\ asker = Nobody
  /\ blocked' = FALSE
  /\ strays \subseteq strays' /\ strays' \subseteq 1..issued
  /\ NoAnswer(c)
  /\ Others(c)
  /\ UNCHANGED <<asker, issued>>

\* A question nobody waits for: its answer is a stray from the start.
AskUnheard(c) ==
  /\ asker = Nobody
  /\ ~blocked
  /\ issued' = issued + 1
  /\ strays' = strays \cup {issued + 1}
  /\ NoAnswer(c)
  /\ Others(c)
  /\ UNCHANGED <<asker, blocked>>

Next ==
  \E c \in Callers :
    Ask(c) \/ Answer(c) \/ Fail(c) \/ Other(c) \/ Unblock(c) \/ AskUnheard(c)

Spec == Init /\ [][Next]_vars
=============================================================================
