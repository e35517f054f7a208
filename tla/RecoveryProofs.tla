----------------------------- MODULE RecoveryProofs -----------------------------
(***************************************************************************)
(* For any number of threads, retries, drains and calls: what the calls    *)
(* leave behind, whose answer a query returns, that the driver implements  *)
(* an exchange without strays, what precedes a retry and a second          *)
(* measurement, under which timeout a reading is asked for, and that no    *)
(* call goes on for ever.                                                  *)
(*                                                                         *)
(* The inductive invariant describes the stack of a thread: what an        *)
(* activation is at each step (Sound), which method called it where        *)
(* (CalledBy), which activation took the lock (Locking), and which one     *)
(* will undo what is temporary (Temporary).  The properties speak of the   *)
(* moments between calls; the invariant says how the calls get there.      *)
(* Left to TLC: CallsReturn, which needs besides CallsAreBounded that a    *)
(* thread inside a call can move, and RecoveredMeansUsable, which the code *)
(* does not keep.                                                          *)
(***************************************************************************)
EXTENDS Recovery, SequenceTheorems, TLAPS

StepsOf ==
  [query |-> {"lock", "send", "wait", "retry", "resend"},
   write |-> {"lock"},
   read_once |-> {"lock", "arm", "read", "recovered", "reconfigure", "end"},
   recover |-> {"begin", "recovered"},
   self_test |-> {"begin", "end"},
   transport_recover |-> {"begin", "clear", "shorten", "flush", "undecodable", "restore",
                          "remote", "drain", "drained", "end"}]
OpKinds == {"query", "write", "read_once", "recover", "self_test", "transport_recover"}
Steps == UNION {StepsOf[op] : op \in OpKinds}
Commands == {"", "*IDN?", "READ?", "SYST:ERR?", "*TST?"}
Activations ==
  [op : OpKinds, cmd : Commands, step : Steps, left : Nat, took : BOOLEAN, drain : BOOLEAN]

\* What an activation is at each of its steps.
Sound(a) ==
  /\ a.step \in StepsOf[a.op]
  /\ a.took => a.op \in {"query", "read_once"} /\ a.step # "lock"
  /\ a.step \in {"drain", "drained"} => a.drain
  /\ a.op = "query" /\ a.cmd \in {"READ?", "*TST?"} =>
       a.step \in {"lock", "send", "wait"} /\ (a.step # "lock" => a.left = 0)

\* Which activation may have been called where.
CalledAt(a, op, step) ==
  \/ op = "query" /\ step = "retry" /\ a.op = "transport_recover" /\ ~a.drain
  \/ op = "transport_recover" /\ step = "drained" /\ a.op = "query" /\ a.cmd = "SYST:ERR?"
  \/ op = "recover" /\ step = "recovered" /\ a.op = "transport_recover" /\ a.drain
  \/ op = "self_test" /\ step = "end" /\ a.op = "query" /\ a.cmd = "*TST?"
  \/ op = "read_once" /\ step = "read" /\ a.op = "query" /\ a.cmd = "READ?"
  \/ op = "read_once" /\ step = "recovered" /\ a.op = "transport_recover" /\ a.drain
CalledBy(a, b) == CalledAt(a, b.op, b.step)

\* The public call an activation is.
Public(a) ==
  \/ a.op \in {"query", "write", "read_once"}
  \/ a.op \in {"recover", "self_test"} /\ a.op \in Ops

Shape(s) ==
  /\ \A i \in 1..Len(s) : Sound(s[i])
  /\ \A i \in 1..(Len(s) - 1) : CalledBy(s[i], s[i + 1])
  /\ Len(s) > 0 => Public(s[Len(s)])

Control ==
  /\ stack \in [Threads -> Seq(Activations)]
  /\ \A c \in Threads : Shape(stack[c])

\* Of the activations of a thread at most one took the lock, and it is not inside one
\* that needs it.
Takes(s) ==
  /\ \A i, j \in 1..Len(s) : s[i].took /\ s[j].took => i = j
  /\ \A i \in 1..Len(s) :
       s[i].op \in {"query", "read_once"} /\ s[i].step # "lock"
         => \E j \in i..Len(s) : s[j].took

\* The lock belongs to the thread, and only to the thread, that has an activation that
\* took it.
Tooks(s) == \E i \in 1..Len(s) : s[i].took
Locking == \A c \in Threads : Takes(stack[c]) /\ (Tooks(stack[c]) <=> opLock = c)

\* An activation that will set the default timeout again; one that will end the
\* recovery that is marked as running.
RestoresAt(op, step) ==
  \/ op = "transport_recover" /\ step \in {"flush", "restore", "undecodable"}
  \/ op = "read_once" /\ step # "lock"
  \/ op = "self_test" /\ step = "end"
RecoversAt(op, step) == op = "transport_recover" /\ step # "begin"
Restores(a) == RestoresAt(a.op, a.step)
Recovers(a) == RecoversAt(a.op, a.step)

WillRestore(s) == \E i \in 1..Len(s) : Restores(s[i])
WillRecover(s) == \E i \in 1..Len(s) : Recovers(s[i])
Temporary ==
  /\ timeout # "default" => \E c \in Threads : WillRestore(stack[c])
  /\ inRecovery => \E c \in Threads : WillRecover(stack[c])

\* A thread that holds the transport's lock waits for an answer.
Waits(s) == Len(s) > 0 /\ s[1].op = "query" /\ s[1].step = "wait"
HolderWaits == holder # Nobody => holder \in Threads /\ Waits(stack[holder])

\* What a thread remembers to have done, at the steps that rely on it: a recovery, the
\* clear and the flush read behind it; a second measurement, the configuration.
Unclear == {"begin", "clear"}
Unflushed == {"shorten", "flush"}
Remembers(s, h, r) ==
  /\ Len(s) > 0 /\ s[1].op = "query" /\ s[1].step = "resend" => {"clear", "flush"} \subseteq h
  /\ Len(s) > 0 /\ s[1].op = "query" /\ s[1].step = "retry" /\ r = "ok"
       => {"clear", "flush"} \subseteq h
  /\ Len(s) > 0 /\ s[1].op = "transport_recover" /\ ~s[1].drain
       => /\ s[1].step \notin Unclear => "clear" \in h
          /\ s[1].step \notin Unclear \cup Unflushed => "flush" \in h
  /\ Len(s) > 0 /\ s[1].op = "read_once" /\ s[1].step = "arm" /\ s[1].left = 1
       => "reconfigure" \in h
  /\ Len(s) > 1 /\ s[2].op = "read_once" /\ s[2].left = 1 /\ s[1].op = "query"
       /\ s[1].step # "wait" => "reconfigure" \in h
Memory == \A c \in Threads : Remembers(stack[c], since[c], raised[c])

Globals ==
  /\ timeout \in {"default", "short", "active", "self_test"}
  /\ state \in States
  /\ inRecovery \in BOOLEAN
  /\ opLock \in Threads \cup {Nobody}
  /\ raised \in [Threads -> {"ok", "timeout", "error", "escape"}]
  /\ report \in [Threads -> {"none", "succeeded", "failed"}]
  /\ since \in [Threads -> SUBSET {"clear", "flush", "reconfigure"}]

IInv == Globals /\ Control /\ Locking /\ Temporary /\ HolderWaits /\ Memory
-----------------------------------------------------------------------------
(* How the stack of a thread changes.                                      *)

\* The innermost activation goes on as t; it goes on as t and calls n; it ends.
Replaced(s, z, t) ==
  Len(z) = Len(s) /\ z[1] = t /\ \A i \in 2..Len(s) : z[i] = s[i]
Pushed(s, z, n, t) ==
  /\ Len(z) = Len(s) + 1 /\ z[1] = n /\ z[2] = t
  /\ \A i \in 3..Len(z) : z[i] = s[i - 1]
Popped(s, z) ==
  Len(z) = Len(s) - 1 /\ \A i \in 1..Len(z) : z[i] = s[i + 1]

\* Only the stack of c changes.
Moved(c) ==
  /\ stack' \in [Threads -> Seq(Activations)]
  /\ \A d \in Threads \ {c} : stack'[d] = stack[d]

\* The innermost activation is replaced as a whole.
LEMMA ReplacedIs ==
  ASSUME Control, NEW c \in Threads, stack[c] # <<>>, NEW t \in Activations,
         stack' = [stack EXCEPT ![c] = [@ EXCEPT ![1] = t]]
  PROVE  Moved(c) /\ Replaced(stack[c], stack'[c], t) /\ Len(stack[c]) > 0
<1>1. stack[c] \in Seq(Activations) /\ stack \in [Threads -> Seq(Activations)]
  BY DEF Control
<1>2. Len(stack[c]) \in Nat \ {0}
  BY <1>1, EmptySeq
<1> DEFINE z == [stack[c] EXCEPT ![1] = t]
<1>3. /\ z \in Seq(Activations) /\ Len(z) = Len(stack[c])
      /\ \A j \in 1..Len(stack[c]) : z[j] = IF j = 1 THEN t ELSE stack[c][j]
  BY <1>1, <1>2, ExceptSeq
<1>4. stack' = [stack EXCEPT ![c] = z]
  OBVIOUS
<1> HIDE DEF z
<1> QED BY <1>1, <1>2, <1>3, <1>4 DEF Moved, Replaced

\* Goto: only its step changes.
Stepped(a, t, step) ==
  /\ t \in Activations /\ t.step = step
  /\ t.op = a.op /\ t.cmd = a.cmd /\ t.left = a.left
  /\ t.took = a.took /\ t.drain = a.drain

LEMMA SteppedIs ==
  ASSUME NEW a \in Activations, NEW step \in Steps
  PROVE  Stepped(a, [a EXCEPT !.step = step], step)
BY DEF Stepped, Activations

LEMMA TopIs ==
  ASSUME Control, NEW c \in Threads, stack[c] # <<>>
  PROVE  Top(c) \in Activations /\ Top(c) = stack[c][1] /\ Len(stack[c]) \in Nat \ {0}
<1>1. stack[c] \in Seq(Activations)
  BY DEF Control
<1>2. Len(stack[c]) \in Nat \ {0}
  BY <1>1, EmptySeq
<1> QED BY <1>1, <1>2, ElementOfSeq DEF Top

LEMMA GotoIs ==
  ASSUME Control, NEW c \in Threads, stack[c] # <<>>, NEW step \in Steps, Goto(c, step)
  PROVE  /\ Moved(c)
         /\ \E t : Stepped(Top(c), t, step) /\ Replaced(stack[c], stack'[c], t)
<1> DEFINE t == [Top(c) EXCEPT !.step = step]
<1>1. Stepped(Top(c), t, step)
  BY TopIs, SteppedIs
<1>2. stack' = [stack EXCEPT ![c] = [@ EXCEPT ![1] = t]]
  BY DEF Goto, Top
<1>3. t \in Activations
  BY <1>1 DEF Stepped
<1> HIDE DEF t
<1> QED BY <1>1, <1>2, <1>3, ReplacedIs

\* A call is put on top.
LEMMA PushedIs ==
  ASSUME Control, NEW c \in Threads, stack[c] # <<>>, NEW t \in Activations,
         NEW n \in Activations,
         stack' = [stack EXCEPT ![c] = <<n, t>> \o Tail(@)]
  PROVE  Moved(c) /\ Pushed(stack[c], stack'[c], n, t)
<1>1. stack[c] \in Seq(Activations) /\ stack \in [Threads -> Seq(Activations)]
  BY DEF Control
<1>2. Len(stack[c]) \in Nat \ {0}
  BY <1>1, EmptySeq
<1> DEFINE z == <<n, t>> \o Tail(stack[c])
<1>3. /\ z \in Seq(Activations) /\ Len(z) = Len(stack[c]) + 1 /\ z[1] = n /\ z[2] = t
      /\ \A i \in 3..Len(z) : z[i] = stack[c][i - 1]
  <2> DEFINE y == Tail(stack[c])
  <2>1. /\ y \in Seq(Activations) /\ Len(y) = Len(stack[c]) - 1
        /\ \A i \in 1..Len(y) : y[i] = stack[c][i + 1]
    BY <1>1, <1>2
  <2> DEFINE x == <<n, t>>
  <2>2. x \in Seq(Activations) /\ Len(x) = 2 /\ x[1] = n /\ x[2] = t
    OBVIOUS
  <2> HIDE DEF x, y
  <2>3. /\ x \o y \in Seq(Activations) /\ Len(x \o y) = 2 + Len(y)
        /\ \A i \in 1..(2 + Len(y)) : (x \o y)[i] = IF i <= 2 THEN x[i] ELSE y[i - 2]
    <3>1. /\ x \o y \in Seq(Activations) /\ Len(x \o y) = Len(x) + Len(y)
          /\ \A i \in 1..(Len(x) + Len(y)) :
               (x \o y)[i] = IF i <= Len(x) THEN x[i] ELSE y[i - Len(x)]
      BY <2>1, <2>2, ConcatProperties
    <3> QED BY <2>2, <3>1
  <2>4. Len(y) \in Nat /\ Len(stack[c]) = Len(y) + 1
    BY <1>2, <2>1
  <2>5. z = x \o y
    BY DEF x, y
  <2> HIDE DEF z
  <2>6. \A i \in 3..Len(z) : i - 2 \in 1..Len(y) /\ z[i] = y[i - 2]
    BY <2>3, <2>4, <2>5
  <2>7. \A i \in 3..Len(z) : z[i] = stack[c][i - 1]
    <3>1. ASSUME NEW i \in 3..Len(z) PROVE z[i] = stack[c][i - 1]
      <4>1. i - 2 \in 1..Len(y) /\ i \in Nat
        BY <2>3, <2>4, <2>5
      <4>2. i - 2 + 1 = i - 1
        BY <4>1
      <4> QED BY <2>1, <2>6, <4>1, <4>2
    <3> QED BY <3>1
  <2> QED BY <2>2, <2>3, <2>4, <2>5, <2>7
<1>4. stack' = [stack EXCEPT ![c] = z]
  OBVIOUS
<1> HIDE DEF z
<1> QED BY <1>1, <1>3, <1>4 DEF Moved, Pushed

LEMMA EnterIs ==
  ASSUME Control, NEW c \in Threads, stack[c] # <<>>, NEW step \in Steps,
         NEW n \in Activations, Enter(c, step, n)
  PROVE  /\ Moved(c)
         /\ \E t : Stepped(Top(c), t, step) /\ Pushed(stack[c], stack'[c], n, t)
<1> DEFINE t == [Top(c) EXCEPT !.step = step]
<1>1. Stepped(Top(c), t, step)
  BY TopIs, SteppedIs
<1>2. stack' = [stack EXCEPT ![c] = <<n, t>> \o Tail(@)]
  BY DEF Enter
<1>3. t \in Activations
  BY <1>1 DEF Stepped
<1> HIDE DEF t
<1> QED BY <1>1, <1>2, <1>3, PushedIs

LEMMA LeaveIs ==
  ASSUME Control, NEW c \in Threads, stack[c] # <<>>, stack' = [stack EXCEPT ![c] = Tail(@)]
  PROVE  Moved(c) /\ Popped(stack[c], stack'[c])
<1>1. stack[c] \in Seq(Activations) /\ stack \in [Threads -> Seq(Activations)]
  BY DEF Control
<1>2. Len(stack[c]) \in Nat \ {0}
  BY <1>1, EmptySeq
<1> DEFINE z == Tail(stack[c])
<1>3. /\ z \in Seq(Activations) /\ Len(z) = Len(stack[c]) - 1
      /\ \A i \in 1..Len(z) : z[i] = stack[c][i + 1]
  BY <1>1, <1>2
<1> HIDE DEF z
<1> QED BY <1>1, <1>3 DEF Moved, Popped, z
-----------------------------------------------------------------------------
(* What is said of a stack stays true.                                     *)

Needs(a) == a.op \in {"query", "read_once"} /\ a.step # "lock"
SameCall(a, t) ==
  t \in Activations /\ t.op = a.op /\ t.cmd = a.cmd /\ t.drain = a.drain

LEMMA StackTypes ==
  ASSUME NEW s \in Seq(Activations)
  PROVE  /\ Len(s) \in Nat
         /\ \A i \in 1..Len(s) :
              s[i] \in Activations /\ s[i].took \in BOOLEAN /\ s[i].drain \in BOOLEAN
<1>1. Len(s) \in Nat
  OBVIOUS
<1>2. \A i \in 1..Len(s) : s[i] \in Activations
  OBVIOUS
<1> QED BY <1>1, <1>2 DEF Activations

\* What another call says of its caller and of what it called does not depend on how
\* far it is.
LEMMA CalledByDepends ==
  ASSUME NEW a, NEW t, NEW b, SameCall(a, t), CalledBy(a, b)
  PROVE  CalledBy(t, b)
BY DEF SameCall, CalledBy, CalledAt

LEMMA PublicDepends ==
  ASSUME NEW a, NEW t, SameCall(a, t), Public(a)
  PROVE  Public(t)
BY DEF SameCall, Public

LEMMA ReplacedShape ==
  ASSUME NEW s \in Seq(Activations), NEW z \in Seq(Activations), NEW t,
         Len(s) > 0, Shape(s), SameCall(s[1], t), Sound(t), Replaced(s, z, t)
  PROVE  Shape(z)
<1>1. Len(s) \in Nat /\ Len(z) = Len(s) /\ z[1] = t /\ \A i \in 2..Len(s) : z[i] = s[i]
  BY StackTypes DEF Replaced
<1>2. \A i \in 1..Len(z) : Sound(z[i])
  <2>1. \A i \in 1..Len(s) : i = 1 \/ i \in 2..Len(s)
    BY <1>1
  <2> QED BY <1>1, <2>1 DEF Shape
<1>3. \A i \in 1..(Len(z) - 1) : CalledBy(z[i], z[i + 1])
  <2>1. ASSUME NEW i \in 1..(Len(z) - 1) PROVE CalledBy(z[i], z[i + 1])
    <3>1. CalledBy(s[i], s[i + 1]) /\ z[i + 1] = s[i + 1]
      BY <1>1 DEF Shape
    <3>2. CASE i = 1
      BY <1>1, <3>1, <3>2, CalledByDepends
    <3>3. CASE i # 1
      BY <1>1, <3>1, <3>3
    <3> QED BY <3>2, <3>3
  <2> QED BY <2>1
<1>4. Public(z[Len(z)])
  <2>1. Public(s[Len(s)])
    BY DEF Shape
  <2>2. CASE Len(s) = 1
    BY <1>1, <2>1, <2>2, PublicDepends
  <2>3. CASE Len(s) # 1
    BY <1>1, <2>1, <2>3
  <2> QED BY <2>2, <2>3
<1> QED BY <1>2, <1>3, <1>4 DEF Shape

LEMMA PushedShape ==
  ASSUME NEW s \in Seq(Activations), NEW z \in Seq(Activations), NEW t, NEW n,
         Len(s) > 0, Shape(s), SameCall(s[1], t), Sound(t), Sound(n), CalledBy(n, t),
         Pushed(s, z, n, t)
  PROVE  Shape(z)
<1>1. /\ Len(s) \in Nat /\ Len(z) = Len(s) + 1 /\ z[1] = n /\ z[2] = t
      /\ \A i \in 3..Len(z) : z[i] = s[i - 1]
  BY StackTypes DEF Pushed
<1>2. \A i \in 1..Len(z) : Sound(z[i])
  <2>1. ASSUME NEW i \in 1..Len(z) PROVE Sound(z[i])
    <3>1. CASE i \in {1, 2} BY <1>1, <3>1
    <3>2. CASE i \notin {1, 2}
      <4>1. i \in 3..Len(z) /\ i - 1 \in 1..Len(s)
        BY <1>1, <3>2
      <4> QED BY <1>1, <4>1 DEF Shape
    <3> QED BY <3>1, <3>2
  <2> QED BY <2>1
<1>3. \A i \in 1..(Len(z) - 1) : CalledBy(z[i], z[i + 1])
  <2>1. ASSUME NEW i \in 1..(Len(z) - 1) PROVE CalledBy(z[i], z[i + 1])
    <3>1. CASE i = 1 BY <1>1, <3>1
    <3>2. CASE i = 2
      <4>1. CalledBy(s[1], s[2]) /\ z[3] = s[2]
        BY <1>1, <3>2 DEF Shape
      <4> QED BY <1>1, <3>2, <4>1, CalledByDepends
    <3>3. CASE i \notin {1, 2}
      <4>1. i - 1 \in 1..(Len(s) - 1) /\ i \in 3..Len(z) /\ i + 1 \in 3..Len(z)
        BY <1>1, <3>3
      <4>2. CalledBy(s[i - 1], s[i - 1 + 1])
        BY <4>1 DEF Shape
      <4>3. i - 1 + 1 = i /\ i + 1 - 1 = i
        OBVIOUS
      <4>4. z[i] = s[i - 1] /\ z[i + 1] = s[i + 1 - 1]
        BY <1>1, <4>1
      <4> QED BY <4>2, <4>3, <4>4
    <3> QED BY <3>1, <3>2, <3>3
  <2> QED BY <2>1
<1>4. Public(z[Len(z)])
  <2>1. Public(s[Len(s)])
    BY DEF Shape
  <2>2. CASE Len(s) = 1
    BY <1>1, <2>1, <2>2, PublicDepends
  <2>3. CASE Len(s) # 1
    <3>1. Len(z) \in 3..Len(z) /\ Len(z) - 1 = Len(s)
      <4>1. \A m, k \in Int : m > 0 /\ m # 1 /\ k = m + 1 => k \in 3..k /\ k - 1 = m
        OBVIOUS
      <4>2. Len(s) \in Int /\ Len(z) \in Int /\ Len(s) > 0 /\ Len(z) = Len(s) + 1
        BY <1>1
      <4> QED BY <2>3, <4>1, <4>2
    <3>2. z[Len(z)] = s[Len(s)]
      BY <1>1, <3>1
    <3> QED BY <2>1, <3>2
  <2> QED BY <2>2, <2>3
<1> QED BY <1>2, <1>3, <1>4 DEF Shape

LEMMA PoppedShape ==
  ASSUME NEW s \in Seq(Activations), NEW z \in Seq(Activations),
         Len(s) > 0, Shape(s), Popped(s, z)
  PROVE  Shape(z)
<1>1. Len(s) \in Nat /\ Len(z) = Len(s) - 1 /\ \A i \in 1..Len(z) : z[i] = s[i + 1]
  BY StackTypes DEF Popped
<1>2. \A i \in 1..Len(z) : Sound(z[i])
  BY <1>1 DEF Shape
<1>3. \A i \in 1..(Len(z) - 1) : CalledBy(z[i], z[i + 1])
  <2>1. ASSUME NEW i \in 1..(Len(z) - 1) PROVE CalledBy(z[i], z[i + 1])
    <3>1. i + 1 \in 1..(Len(s) - 1) /\ i \in 1..Len(z) /\ i + 1 \in 1..Len(z)
      BY <1>1
    <3> QED BY <1>1, <3>1 DEF Shape
  <2> QED BY <2>1
<1>4. ASSUME Len(z) > 0 PROVE Public(z[Len(z)])
  <2>1. Len(z) \in 1..Len(z) /\ Len(z) + 1 = Len(s)
    BY <1>1, <1>4
  <2> QED BY <1>1, <2>1 DEF Shape
<1> QED BY <1>2, <1>3, <1>4 DEF Shape

\* An activation that goes on keeps the lock if it took it.
LEMMA ReplacedTakes ==
  ASSUME NEW s \in Seq(Activations), NEW z \in Seq(Activations), NEW t \in Activations,
         Len(s) > 0, Takes(s), t.took <=> s[1].took, Needs(t) => Needs(s[1]),
         Replaced(s, z, t)
  PROVE  Takes(z) /\ (Tooks(z) <=> Tooks(s))
<1>1. Len(s) \in Nat /\ Len(z) = Len(s) /\ z[1] = t /\ \A i \in 2..Len(s) : z[i] = s[i]
  BY StackTypes DEF Replaced
<1>2. \A i \in 1..Len(s) : i = 1 \/ i \in 2..Len(s)
  BY <1>1
<1>3. \A i \in 1..Len(s) : (z[i].took <=> s[i].took) /\ (Needs(z[i]) => Needs(s[i]))
  BY <1>1, <1>2
<1> QED BY <1>1, <1>3 DEF Takes, Tooks, Needs

LEMMA PushedTakes ==
  ASSUME NEW s \in Seq(Activations), NEW z \in Seq(Activations), NEW t \in Activations,
         NEW n \in Activations,
         Len(s) > 0, Takes(s), t.took <=> s[1].took, Needs(t) => Needs(s[1]),
         ~n.took, ~Needs(n), Pushed(s, z, n, t)
  PROVE  Takes(z) /\ (Tooks(z) <=> Tooks(s))
<1>1. /\ Len(s) \in Nat /\ Len(z) = Len(s) + 1 /\ z[1] = n /\ z[2] = t
      /\ \A i \in 3..Len(z) : z[i] = s[i - 1]
  BY StackTypes DEF Pushed
<1>2. \A i \in 2..Len(z) : (z[i].took <=> s[i - 1].took) /\ (Needs(z[i]) => Needs(s[i - 1]))
  <2>1. \A i \in 2..Len(z) : i = 2 \/ i \in 3..Len(z)
    BY <1>1
  <2> QED BY <1>1, <2>1
<1>3. \A i \in 1..Len(z) : i = 1 \/ (i \in 2..Len(z) /\ i - 1 \in 1..Len(s))
  BY <1>1
<1>4. \A i \in 1..Len(s) : i + 1 \in 2..Len(z) /\ i + 1 - 1 = i
  BY <1>1
<1>5. \A i, j \in 1..Len(z) : z[i].took /\ z[j].took => i = j
  <2>1. ASSUME NEW i \in 1..Len(z), NEW j \in 1..Len(z), z[i].took, z[j].took PROVE i = j
    <3>1. i - 1 \in 1..Len(s) /\ j - 1 \in 1..Len(s) /\ s[i - 1].took /\ s[j - 1].took
      BY <1>1, <1>2, <1>3, <2>1
    <3>2. i - 1 = j - 1
      BY <3>1 DEF Takes
    <3> QED BY <3>2
  <2> QED BY <2>1
<1>6. \A i \in 1..Len(z) : Needs(z[i]) => \E j \in i..Len(z) : z[j].took
  <2>1. ASSUME NEW i \in 1..Len(z), Needs(z[i]) PROVE \E j \in i..Len(z) : z[j].took
    <3>1. i - 1 \in 1..Len(s) /\ Needs(s[i - 1])
      BY <1>1, <1>2, <1>3, <2>1
    <3>2. PICK j \in (i - 1)..Len(s) : s[j].took
      BY <3>1 DEF Takes, Needs
    <3>3. j + 1 \in i..Len(z) /\ j \in 1..Len(s)
      BY <1>1, <3>1
    <3>4. z[j + 1].took
      BY <1>2, <1>4, <3>2, <3>3
    <3> QED BY <3>3, <3>4
  <2> QED BY <2>1
<1>7. Tooks(z) <=> Tooks(s)
  <2>1. ASSUME NEW i \in 1..Len(z), z[i].took PROVE Tooks(s)
    BY <1>1, <1>2, <1>3, <2>1 DEF Tooks
  <2>2. ASSUME NEW i \in 1..Len(s), s[i].took PROVE Tooks(z)
    <3>1. i + 1 \in 2..Len(z) /\ i + 1 \in 1..Len(z) /\ z[i + 1].took
      BY <1>1, <1>2, <1>4, <2>2
    <3> QED BY <3>1 DEF Tooks
  <2> QED BY <2>1, <2>2 DEF Tooks
<1> QED BY <1>5, <1>6, <1>7 DEF Takes, Needs

\* An activation that ends gives up the lock if it took it.
LEMMA PoppedTakes ==
  ASSUME NEW s \in Seq(Activations), NEW z \in Seq(Activations),
         Len(s) > 0, Takes(s), Popped(s, z)
  PROVE  Takes(z) /\ (Tooks(z) <=> Tooks(s) /\ ~s[1].took)
<1>1. Len(s) \in Nat /\ Len(z) = Len(s) - 1 /\ \A i \in 1..Len(z) : z[i] = s[i + 1]
  BY StackTypes DEF Popped
<1>2. \A i \in 1..Len(z) : i + 1 \in 1..Len(s) /\ i + 1 # 1
  BY <1>1
<1>3. \A i \in 1..Len(s) : i = 1 \/ (i - 1 \in 1..Len(z) /\ i - 1 + 1 = i)
  BY <1>1
<1>4. \A i, j \in 1..Len(z) : z[i].took /\ z[j].took => i = j
  <2>1. ASSUME NEW i \in 1..Len(z), NEW j \in 1..Len(z), z[i].took, z[j].took PROVE i = j
    <3>1. i + 1 = j + 1
      BY <1>1, <1>2, <2>1 DEF Takes
    <3> QED BY <3>1
  <2> QED BY <2>1
<1>5. \A i \in 1..Len(z) : Needs(z[i]) => \E j \in i..Len(z) : z[j].took
  <2>1. ASSUME NEW i \in 1..Len(z), Needs(z[i]) PROVE \E j \in i..Len(z) : z[j].took
    <3>1. i + 1 \in 1..Len(s) /\ Needs(s[i + 1])
      BY <1>1, <1>2, <2>1
    <3>2. PICK j \in (i + 1)..Len(s) : s[j].took
      BY <3>1 DEF Takes, Needs
    <3>3. j - 1 \in i..Len(z) /\ j - 1 \in 1..Len(z) /\ j - 1 + 1 = j
      BY <1>1, <3>1
    <3>4. z[j - 1].took
      BY <1>1, <3>2, <3>3
    <3> QED BY <3>3, <3>4
  <2> QED BY <2>1
<1>6. Tooks(z) => Tooks(s) /\ ~s[1].took
  <2>1. ASSUME NEW i \in 1..Len(z), z[i].took PROVE Tooks(s) /\ ~s[1].took
    <3>1. s[i + 1].took /\ i + 1 \in 1..Len(s) /\ i + 1 # 1 /\ 1 \in 1..Len(s)
      BY <1>1, <1>2, <2>1
    <3> QED BY <3>1 DEF Tooks, Takes
  <2> QED BY <2>1 DEF Tooks
<1>7. Tooks(s) /\ ~s[1].took => Tooks(z)
  <2>1. ASSUME NEW i \in 1..Len(s), s[i].took, ~s[1].took PROVE Tooks(z)
    <3>1. i - 1 \in 1..Len(z) /\ z[i - 1] = s[i]
      BY <1>1, <1>3, <2>1
    <3> QED BY <2>1, <3>1 DEF Tooks
  <2> QED BY <2>1 DEF Tooks
<1> QED BY <1>4, <1>5, <1>6, <1>7 DEF Takes, Needs

\* Whether a temporary value is still going to be taken back.
LEMMA ReplacedWill ==
  ASSUME NEW s \in Seq(Activations), NEW z \in Seq(Activations), NEW t,
         Len(s) > 0, Replaced(s, z, t)
  PROVE  /\ Restores(t) => WillRestore(z)
         /\ Recovers(t) => WillRecover(z)
         /\ WillRestore(s) /\ ~Restores(s[1]) => WillRestore(z)
         /\ WillRecover(s) /\ ~Recovers(s[1]) => WillRecover(z)
<1>1. Len(s) \in Nat /\ Len(z) = Len(s) /\ z[1] = t /\ \A i \in 2..Len(s) : z[i] = s[i]
  BY StackTypes DEF Replaced
<1>2. 1 \in 1..Len(z) /\ \A i \in 1..Len(s) : i # 1 => i \in 1..Len(z) /\ z[i] = s[i]
  BY <1>1
<1> HIDE DEF Restores, Recovers
<1> QED BY <1>1, <1>2 DEF WillRestore, WillRecover

LEMMA PushedWill ==
  ASSUME NEW s \in Seq(Activations), NEW z \in Seq(Activations), NEW t, NEW n,
         Len(s) > 0, Pushed(s, z, n, t)
  PROVE  /\ Restores(t) => WillRestore(z)
         /\ Recovers(t) => WillRecover(z)
         /\ WillRestore(s) /\ ~Restores(s[1]) => WillRestore(z)
         /\ WillRecover(s) /\ ~Recovers(s[1]) => WillRecover(z)
<1>1. /\ Len(s) \in Nat /\ Len(z) = Len(s) + 1 /\ z[2] = t
      /\ \A i \in 3..Len(z) : z[i] = s[i - 1]
  BY StackTypes DEF Pushed
<1>2. 2 \in 1..Len(z)
  BY <1>1
<1>3. \A i \in 1..Len(s) : i # 1 => i + 1 \in 1..Len(z) /\ z[i + 1] = s[i]
  <2>1. ASSUME NEW i \in 1..Len(s), i # 1 PROVE i + 1 \in 1..Len(z) /\ z[i + 1] = s[i]
    <3>1. i + 1 \in 3..Len(z) /\ i + 1 - 1 = i
      BY <1>1, <2>1
    <3> QED BY <1>1, <3>1
  <2> QED BY <2>1
<1> QED BY <1>1, <1>2, <1>3 DEF WillRestore, WillRecover

LEMMA PoppedWill ==
  ASSUME NEW s \in Seq(Activations), NEW z \in Seq(Activations), Len(s) > 0, Popped(s, z)
  PROVE  /\ WillRestore(s) /\ ~Restores(s[1]) => WillRestore(z)
         /\ WillRecover(s) /\ ~Recovers(s[1]) => WillRecover(z)
<1>1. Len(s) \in Nat /\ Len(z) = Len(s) - 1 /\ \A i \in 1..Len(z) : z[i] = s[i + 1]
  BY StackTypes DEF Popped
<1>2. \A i \in 1..Len(s) : i # 1 => i - 1 \in 1..Len(z) /\ z[i - 1] = s[i]
  BY <1>1
<1> QED BY <1>2 DEF WillRestore, WillRecover
-----------------------------------------------------------------------------
(* What a step of one thread has to keep for the invariant to hold.        *)

\* The transport's lock goes to a thread that waits, or becomes free, or the thread
\* that moves is not the one that waits.
Hold(c) ==
  \/ holder' = Nobody
  \/ holder' = c /\ Waits(stack'[c])
  \/ holder' = holder /\ ~Waits(stack[c])

\* Nobody else's history is touched, and the thread's own agrees with where it is.
Recalls(c) ==
  /\ \A d \in Threads \ {c} : since'[d] = since[d] /\ raised'[d] = raised[d]
  /\ Remembers(stack'[c], since'[c], raised'[c])

LEMMA Keeps ==
  ASSUME IInv, Globals', NEW c \in Threads, Moved(c), Shape(stack'[c]), Takes(stack'[c]),
         Tooks(stack'[c]) <=> opLock' = c,
         opLock' = opLock \/ {opLock, opLock'} \subseteq {Nobody, c},
         \/ timeout' = "default" \/ WillRestore(stack'[c])
         \/ timeout' = timeout /\ ~WillRestore(stack[c]),
         \/ ~inRecovery' \/ WillRecover(stack'[c])
         \/ inRecovery' = inRecovery /\ ~WillRecover(stack[c]),
         Hold(c), Recalls(c)
  PROVE  IInv'
<1>1. /\ stack' \in [Threads -> Seq(Activations)]
      /\ \A d \in Threads \ {c} : stack'[d] = stack[d]
  BY DEF Moved
<1>2. Control'
  BY <1>1 DEF IInv, Control
<1>3. Locking'
  <2>1. ASSUME NEW d \in Threads \ {c} PROVE opLock' = d <=> opLock = d
    BY <2>1, RecoveryAssumption
  <2>2. ASSUME NEW d \in Threads PROVE (Takes(stack[d]) /\ (Tooks(stack[d]) <=> opLock = d))'
    BY <1>1, <2>1 DEF IInv, Locking
  <2> QED BY <2>2 DEF Locking
<1>4. Temporary'
  <2>1. ASSUME timeout' # "default" PROVE \E d \in Threads : WillRestore(stack'[d])
    BY <1>1, <2>1 DEF IInv, Temporary
  <2>2. ASSUME inRecovery' PROVE \E d \in Threads : WillRecover(stack'[d])
    BY <1>1, <2>2 DEF IInv, Temporary
  <2> QED BY <2>1, <2>2 DEF Temporary, WillRestore, WillRecover
<1>5. HolderWaits'
  BY <1>1 DEF IInv, HolderWaits, Hold, Waits
<1>6. Memory'
  BY <1>1 DEF IInv, Memory, Recalls, Remembers
<1> QED BY <1>2, <1>3, <1>4, <1>5, <1>6 DEF IInv

\* The thread's innermost activation goes on.
LEMMA AdvanceKeeps ==
  ASSUME IInv, Globals', NEW c \in Threads, stack[c] # <<>>, Moved(c), NEW t,
         Replaced(stack[c], stack'[c], t), SameCall(Top(c), t), Sound(t),
         t.took <=> Top(c).took, Needs(t) => Needs(Top(c)), opLock' = opLock,
         timeout' = "default" \/ Restores(t) \/ (timeout' = timeout /\ ~Restores(Top(c))),
         ~inRecovery' \/ Recovers(t) \/ (inRecovery' = inRecovery /\ ~Recovers(Top(c))),
         Hold(c), Recalls(c)
  PROVE  IInv'
<1> DEFINE s == stack[c]
           z == stack'[c]
<1>1. /\ s \in Seq(Activations) /\ z \in Seq(Activations) /\ Shape(s) /\ Takes(s)
      /\ Tooks(s) <=> opLock = c
  BY DEF IInv, Control, Locking, Moved
<1>2. Top(c) = s[1] /\ Len(s) > 0 /\ t \in Activations
  BY TopIs DEF IInv, SameCall
<1>3. Shape(z)
  BY <1>1, <1>2, ReplacedShape
<1>4. Takes(z) /\ (Tooks(z) <=> Tooks(s))
  BY <1>1, <1>2, ReplacedTakes
<1>5. /\ Restores(t) => WillRestore(z)
      /\ Recovers(t) => WillRecover(z)
      /\ WillRestore(s) /\ ~Restores(s[1]) => WillRestore(z)
      /\ WillRecover(s) /\ ~Recovers(s[1]) => WillRecover(z)
  BY <1>1, <1>2, ReplacedWill
<1> HIDE DEF s, z
<1>6. \/ timeout' = "default" \/ WillRestore(z)
      \/ timeout' = timeout /\ ~WillRestore(s)
  BY <1>2, <1>5
<1>7. \/ ~inRecovery' \/ WillRecover(z)
      \/ inRecovery' = inRecovery /\ ~WillRecover(s)
  BY <1>2, <1>5
<1> QED BY <1>1, <1>3, <1>4, <1>6, <1>7, Keeps DEF s, z

\* The thread's innermost activation goes on and calls another one.
LEMMA PushKeeps ==
  ASSUME IInv, Globals', NEW c \in Threads, stack[c] # <<>>, Moved(c), NEW t,
         NEW n \in Activations, Pushed(stack[c], stack'[c], n, t),
         SameCall(Top(c), t), Sound(t), Sound(n), CalledBy(n, t), ~n.took, ~Needs(n),
         t.took <=> Top(c).took, Needs(t) => Needs(Top(c)), opLock' = opLock,
         timeout' = "default" \/ Restores(t) \/ (timeout' = timeout /\ ~Restores(Top(c))),
         ~inRecovery' \/ Recovers(t) \/ (inRecovery' = inRecovery /\ ~Recovers(Top(c))),
         Hold(c), Recalls(c)
  PROVE  IInv'
<1> DEFINE s == stack[c]
           z == stack'[c]
<1>1. /\ s \in Seq(Activations) /\ z \in Seq(Activations) /\ Shape(s) /\ Takes(s)
      /\ Tooks(s) <=> opLock = c
  BY DEF IInv, Control, Locking, Moved
<1>2. Top(c) = s[1] /\ Len(s) > 0 /\ t \in Activations
  BY TopIs DEF IInv, SameCall
<1>3. Shape(z)
  BY <1>1, <1>2, PushedShape
<1>4. Takes(z) /\ (Tooks(z) <=> Tooks(s))
  BY <1>1, <1>2, PushedTakes
<1>5. /\ Restores(t) => WillRestore(z)
      /\ Recovers(t) => WillRecover(z)
      /\ WillRestore(s) /\ ~Restores(s[1]) => WillRestore(z)
      /\ WillRecover(s) /\ ~Recovers(s[1]) => WillRecover(z)
  BY <1>1, <1>2, PushedWill
<1> HIDE DEF s, z
<1>6. \/ timeout' = "default" \/ WillRestore(z)
      \/ timeout' = timeout /\ ~WillRestore(s)
  BY <1>2, <1>5
<1>7. \/ ~inRecovery' \/ WillRecover(z)
      \/ inRecovery' = inRecovery /\ ~WillRecover(s)
  BY <1>2, <1>5
<1> QED BY <1>1, <1>3, <1>4, <1>6, <1>7, Keeps DEF s, z

\* The thread's innermost activation ends.
LEMMA PopKeeps ==
  ASSUME IInv, Globals', NEW c \in Threads, stack[c] # <<>>, NEW how, Leave(c, how),
         timeout' = "default" \/ (timeout' = timeout /\ ~Restores(Top(c))),
         ~inRecovery' \/ (inRecovery' = inRecovery /\ ~Recovers(Top(c))),
         Hold(c), Recalls(c)
  PROVE  IInv'
<1> DEFINE s == stack[c]
           z == stack'[c]
<1>1. Moved(c) /\ Popped(s, z)
  BY LeaveIs DEF IInv, Leave
<1>2. /\ s \in Seq(Activations) /\ z \in Seq(Activations) /\ Shape(s) /\ Takes(s)
      /\ Tooks(s) <=> opLock = c
  BY <1>1 DEF IInv, Control, Locking, Moved
<1>3. Top(c) = s[1] /\ Len(s) > 0 /\ 1 \in 1..Len(s)
  BY TopIs DEF IInv
<1>4. Shape(z)
  BY <1>1, <1>2, <1>3, PoppedShape
<1>5. Takes(z) /\ (Tooks(z) <=> Tooks(s) /\ ~s[1].took)
  BY <1>1, <1>2, <1>3, PoppedTakes
<1>6. /\ WillRestore(s) /\ ~Restores(s[1]) => WillRestore(z)
      /\ WillRecover(s) /\ ~Recovers(s[1]) => WillRecover(z)
  BY <1>1, <1>2, <1>3, PoppedWill
<1>7. opLock' = IF Top(c).took THEN Nobody ELSE opLock
  BY DEF Leave
<1>8. Top(c).took => Tooks(s)
  BY <1>3 DEF Tooks
<1> HIDE DEF s, z
<1>9. (Tooks(z) <=> opLock' = c) /\ (opLock' = opLock \/ {opLock, opLock'} \subseteq {Nobody, c})
  BY <1>2, <1>3, <1>5, <1>7, <1>8, RecoveryAssumption
<1>10. timeout' = "default" \/ WillRestore(z) \/ (timeout' = timeout /\ ~WillRestore(s))
  BY <1>3, <1>6
<1>11. ~inRecovery' \/ WillRecover(z) \/ (inRecovery' = inRecovery /\ ~WillRecover(s))
  BY <1>3, <1>6
<1> QED BY <1>1, <1>4, <1>5, <1>9, <1>10, <1>11, Keeps DEF s, z

\* The thread gets the lock, or has it already.
LEMMA TakeIs ==
  ASSUME Control, NEW c \in Threads, stack[c] # <<>>, NEW step \in Steps, NEW left \in Nat,
         Take(c, step, left)
  PROVE  /\ Moved(c)
         /\ \E t : /\ SameCall(Top(c), t) /\ t.step = step /\ t.left = left
                   /\ t.took <=> opLock = Nobody
                   /\ Replaced(stack[c], stack'[c], t)
<1>1. ASSUME NEW a \in Activations, NEW b \in BOOLEAN
      PROVE  LET t == [a EXCEPT !.step = step, !.left = left, !.took = b]
             IN SameCall(a, t) /\ t.step = step /\ t.left = left /\ (t.took <=> b)
  BY DEF SameCall, Activations
<1> DEFINE b == opLock = Nobody
           t == [Top(c) EXCEPT !.step = step, !.left = left, !.took = b]
<1>2. b \in BOOLEAN
  OBVIOUS
<1>3. stack' = [stack EXCEPT ![c] = [@ EXCEPT ![1] = t]]
  BY DEF Take, Top
<1> HIDE DEF b
<1>4. SameCall(Top(c), t) /\ t.step = step /\ t.left = left /\ (t.took <=> b)
  <2>1. Top(c) \in Activations
    BY TopIs
  <2> QED BY <1>1, <1>2, <2>1
<1>5. t \in Activations
  BY <1>4 DEF SameCall
<1>6. t.took <=> opLock = Nobody
  BY <1>4 DEF b
<1> HIDE DEF t
<1> QED BY <1>3, <1>4, <1>5, <1>6, ReplacedIs

LEMMA TakeKeeps ==
  ASSUME IInv, Globals', NEW c \in Threads, stack[c] # <<>>, Moved(c), NEW t,
         Replaced(stack[c], stack'[c], t), SameCall(Top(c), t), Sound(t),
         Top(c).step = "lock", LockFree(c), opLock' = c, t.took <=> opLock = Nobody,
         timeout' = timeout \/ Restores(t), inRecovery' = inRecovery,
         Top(c).op \in {"query", "read_once"}, Hold(c), Recalls(c)
  PROVE  IInv'
<1> DEFINE s == stack[c]
           z == stack'[c]
<1>1. /\ s \in Seq(Activations) /\ z \in Seq(Activations) /\ Shape(s) /\ Takes(s)
      /\ Tooks(s) <=> opLock = c
  BY DEF IInv, Control, Locking, Moved
<1>2. Top(c) = s[1] /\ Len(s) \in Nat /\ Len(s) > 0 /\ t \in Activations
  BY TopIs DEF IInv, SameCall
<1>3. Shape(z)
  BY <1>1, <1>2, ReplacedShape
<1>4. ~s[1].took /\ opLock \in {Nobody, c}
  BY <1>1, <1>2 DEF Shape, Sound, LockFree
<1>5. Len(z) = Len(s) /\ z[1] = t /\ \A i \in 2..Len(s) : z[i] = s[i]
  BY DEF Replaced
<1>6. /\ Restores(t) => WillRestore(z)
      /\ WillRestore(s) /\ ~Restores(s[1]) => WillRestore(z)
      /\ WillRecover(s) /\ ~Recovers(s[1]) => WillRecover(z)
  BY <1>1, <1>2, ReplacedWill
<1>7. ~Restores(s[1]) /\ ~Recovers(s[1])
  BY <1>2 DEF Restores, Recovers, RestoresAt, RecoversAt
<1>8. \A i \in 1..Len(s) : i = 1 \/ i \in 2..Len(s)
  BY <1>2
<1> HIDE DEF s, z
<1>9. Takes(z) /\ Tooks(z)
  <2>1. CASE opLock = Nobody
    <3>1. \A i \in 1..Len(s) : ~s[i].took
      BY <1>1, <2>1, RecoveryAssumption DEF Tooks
    <3>2. t.took /\ \A i \in 1..Len(z) : z[i].took => i = 1
      BY <1>2, <1>5, <1>8, <2>1, <3>1
    <3>3. \A i \in 2..Len(z) : ~Needs(z[i])
      <4>1. ASSUME NEW i \in 2..Len(z), Needs(z[i]) PROVE FALSE
        <5>1. i \in 1..Len(s) /\ Needs(s[i])
          BY <1>2, <1>5, <4>1
        <5>2. PICK j \in i..Len(s) : s[j].took
          BY <1>1, <5>1 DEF Takes, Needs
        <5>3. j \in 1..Len(s)
          BY <1>2, <4>1
        <5> QED BY <3>1, <5>2, <5>3
      <4> QED BY <4>1
    <3> QED BY <1>2, <1>5, <1>8, <3>2, <3>3 DEF Takes, Tooks, Needs
  <2>2. CASE opLock = c
    <3>1. ~t.took
      BY <2>2, RecoveryAssumption
    <3>2. PICK j \in 1..Len(s) : s[j].took
      BY <1>1, <2>2 DEF Tooks
    <3>3. j \in 2..Len(s) /\ z[j].took
      BY <1>4, <1>5, <1>8, <3>2
    <3>4. \A i \in 1..Len(z) : z[i].took => i \in 2..Len(s) /\ s[i].took
      BY <1>5, <1>8, <3>1
    <3>5. \A i, k \in 1..Len(z) : z[i].took /\ z[k].took => i = k
      BY <1>1, <1>5, <3>4 DEF Takes
    <3>6. \A i \in 1..Len(z) : Needs(z[i]) => \E k \in i..Len(z) : z[k].took
      <4>1. ASSUME NEW i \in 1..Len(z), Needs(z[i])
            PROVE  \E k \in i..Len(z) : z[k].took
        <5>1. CASE i = 1
          <6>1. j \in i..Len(z)
            BY <1>5, <5>1, <3>3
          <6> QED BY <3>3, <6>1
        <5>2. CASE i # 1
          <6>1. i \in 1..Len(s) /\ i \in 2..Len(s) /\ Needs(s[i])
            BY <1>5, <1>8, <4>1, <5>2
          <6>2. PICK k \in i..Len(s) : s[k].took
            BY <1>1, <6>1 DEF Takes, Needs
          <6>3. k \in 2..Len(s)
            BY <1>2, <6>1
          <6> QED BY <1>5, <6>2, <6>3
        <5> QED BY <5>1, <5>2
      <4> QED BY <4>1
    <3>7. Tooks(z)
      <4>1. j \in 1..Len(z)
        BY <1>5
      <4> QED BY <3>3, <4>1 DEF Tooks
    <3> QED BY <3>5, <3>6, <3>7 DEF Takes, Needs
  <2> QED BY <1>4, <2>1, <2>2
<1>10. timeout' = "default" \/ WillRestore(z) \/ (timeout' = timeout /\ ~WillRestore(s))
  BY <1>6, <1>7
<1>11. ~inRecovery' \/ WillRecover(z) \/ (inRecovery' = inRecovery /\ ~WillRecover(s))
  BY <1>6, <1>7
<1>12. {opLock, opLock'} \subseteq {Nobody, c}
  BY <1>4
<1>13. Moved(c) /\ Shape(stack'[c]) /\ Takes(stack'[c]) /\ (Tooks(stack'[c]) <=> opLock' = c)
  BY <1>3, <1>9 DEF z
<1> QED BY <1>10, <1>11, <1>12, <1>13, Keeps DEF s, z

\* What is called.
LEMMA ActivationIs ==
  ASSUME NEW kind \in OpKinds, NEW cmd \in Commands, NEW step \in StepsOf[kind]
  PROVE  LET n == Activation(kind, cmd, step)
         IN /\ n \in Activations /\ n.op = kind /\ n.cmd = cmd /\ n.step = step /\ n.left = 0
            /\ ~n.took /\ ~n.drain
<1>1. step \in Steps
  BY DEF Steps
<1> QED BY <1>1 DEF Activation, Activations

LEMMA QueryCallIs ==
  ASSUME NEW cmd \in Commands
  PROVE  LET n == QueryCall(cmd)
         IN /\ n \in Activations /\ n.op = "query" /\ n.cmd = cmd /\ n.step = "lock"
            /\ n.left = 0 /\ ~n.took /\ Sound(n)
<1>1. "query" \in OpKinds /\ "lock" \in StepsOf["query"]
  BY DEF OpKinds, StepsOf
<1> QED BY <1>1, ActivationIs DEF QueryCall, Sound

LEMMA RecoverCallIs ==
  ASSUME NEW drain \in BOOLEAN
  PROVE  LET n == RecoverCall(drain)
         IN /\ n \in Activations /\ n.op = "transport_recover" /\ n.step = "begin"
            /\ ~n.took /\ (n.drain <=> drain) /\ Sound(n)
<1> DEFINE a == Activation("transport_recover", "", "begin")
           n == [a EXCEPT !.drain = drain]
<1>1. "transport_recover" \in OpKinds /\ "begin" \in StepsOf["transport_recover"]
      /\ "" \in Commands
  BY DEF OpKinds, StepsOf, Commands
<1>2. a \in Activations /\ a.op = "transport_recover" /\ a.step = "begin" /\ ~a.took
  BY <1>1, ActivationIs
<1>3. RecoverCall(drain) = n
  BY DEF RecoverCall
<1> HIDE DEF a
<1>4. /\ n \in Activations /\ n.op = "transport_recover" /\ n.step = "begin"
      /\ ~n.took /\ (n.drain <=> drain)
  BY <1>2 DEF Activations
<1> HIDE DEF n
<1> QED BY <1>1, <1>3, <1>4 DEF Sound

LEMMA BeginIs ==
  ASSUME NEW c, NEW op \in Ops
  PROVE  LET n == Begin(c, op)
         IN /\ n \in Activations /\ Sound(n) /\ Public(n) /\ ~n.took /\ ~Needs(n)
            /\ n.op # "transport_recover" /\ n.step \in {"lock", "begin"} /\ n.left = 0
<1> DEFINE n == Begin(c, op)
           Goal == /\ n \in Activations /\ Sound(n) /\ Public(n) /\ ~n.took /\ ~Needs(n)
                   /\ n.op # "transport_recover" /\ n.step \in {"lock", "begin"}
                   /\ n.left = 0
<1>0. op \in {"query", "read", "write", "measure", "recover", "self_test"}
  BY RecoveryAssumption
<1> SUFFICES Goal
  OBVIOUS
<1> HIDE DEF n
<1>1. CASE op = "query"
  <2>1. n = QueryCall("*IDN?") /\ "*IDN?" \in Commands
    BY <1>1 DEF n, Begin, Commands
  <2>2. LET a == QueryCall("*IDN?")
        IN a \in Activations /\ a.op = "query" /\ a.step = "lock" /\ Sound(a)
    BY <2>1, QueryCallIs
  <2>3. QueryCall("*IDN?").took = FALSE /\ QueryCall("*IDN?").left = 0
    BY DEF QueryCall, Activation
  <2> QED BY <2>1, <2>2, <2>3 DEF Public, Needs
<1>2. CASE op = "read"
  <2>1. n = QueryCall("READ?") /\ "READ?" \in Commands
    BY <1>2 DEF n, Begin, Commands
  <2>2. LET a == QueryCall("READ?")
        IN a \in Activations /\ a.op = "query" /\ a.step = "lock" /\ Sound(a)
    BY <2>1, QueryCallIs
  <2>3. QueryCall("READ?").took = FALSE /\ QueryCall("READ?").left = 0
    BY DEF QueryCall, Activation
  <2> QED BY <2>1, <2>2, <2>3 DEF Public, Needs
<1>3. CASE op = "write"
  <2>1. n = Activation("write", "", "lock")
    BY <1>3 DEF n, Begin
  <2>2. "write" \in OpKinds /\ "" \in Commands /\ "lock" \in StepsOf["write"]
    BY <1>3 DEF OpKinds, Commands, StepsOf
  <2>3. LET a == Activation("write", "", "lock")
        IN a \in Activations /\ a.op = "write" /\ a.step = "lock"
    BY <2>2, ActivationIs
  <2>4. Activation("write", "", "lock").took = FALSE /\ Activation("write", "", "lock").left = 0
    BY DEF Activation
  <2> QED BY <1>3, <2>1, <2>2, <2>3, <2>4 DEF Public, Sound, Needs
<1>4. CASE op = "measure"
  <2>1. n = Activation("read_once", "", "lock")
    BY <1>4 DEF n, Begin
  <2>2. "read_once" \in OpKinds /\ "" \in Commands /\ "lock" \in StepsOf["read_once"]
    BY <1>4 DEF OpKinds, Commands, StepsOf
  <2>3. LET a == Activation("read_once", "", "lock")
        IN a \in Activations /\ a.op = "read_once" /\ a.step = "lock"
    BY <2>2, ActivationIs
  <2>4. Activation("read_once", "", "lock").took = FALSE /\ Activation("read_once", "", "lock").left = 0
    BY DEF Activation
  <2> QED BY <1>4, <2>1, <2>2, <2>3, <2>4 DEF Public, Sound, Needs
<1>5. CASE op \in {"recover", "self_test"}
  <2>1. n = Activation(op, "", "begin")
    BY <1>5 DEF n, Begin
  <2>2. op \in OpKinds /\ "" \in Commands /\ "begin" \in StepsOf[op]
    BY <1>5 DEF OpKinds, Commands, StepsOf
  <2>3. LET a == Activation(op, "", "begin")
        IN a \in Activations /\ a.op = op /\ a.step = "begin"
    BY <2>2, ActivationIs
  <2>4. Activation(op, "", "begin").took = FALSE /\ Activation(op, "", "begin").left = 0
    BY DEF Activation
  <2> QED BY <1>5, <2>1, <2>2, <2>3, <2>4 DEF Public, Sound, Needs
<1> QED BY <1>0, <1>1, <1>2, <1>3, <1>4, <1>5

\* A thread that is idle makes a public call.
LEMMA CallKeeps ==
  ASSUME IInv, Globals', NEW c \in Threads, NEW op \in Ops, Call(c, op)
  PROVE  IInv'
<1> DEFINE z == <<Begin(c, op)>>
           n == Begin(c, op)
<1>1. /\ n \in Activations /\ Sound(n) /\ Public(n) /\ ~n.took /\ ~Needs(n)
      /\ n.op # "transport_recover" /\ n.step \in {"lock", "begin"}
      /\ n.left = 0
  BY BeginIs
<1>2. stack[c] = <<>> /\ stack \in [Threads -> Seq(Activations)]
  BY DEF Call, Idle, IInv, Control
<1>3. stack' = [stack EXCEPT ![c] = z]
  BY DEF Call
<1> HIDE DEF n
<1>4. z \in Seq(Activations) /\ Len(z) = 1 /\ z[1] = n
  BY <1>1 DEF n
<1> HIDE DEF z
<1>5. stack'[c] = z /\ Moved(c)
  BY <1>2, <1>3, <1>4 DEF Moved
<1>6. Shape(z)
  BY <1>1, <1>4 DEF Shape
<1>7. Takes(z) /\ ~Tooks(z)
  BY <1>1, <1>4 DEF Takes, Tooks, Needs
<1>8. ~Tooks(stack[c]) /\ ~WillRestore(stack[c]) /\ ~WillRecover(stack[c])
      /\ ~Waits(stack[c])
  BY <1>2 DEF Tooks, WillRestore, WillRecover, Waits
<1>9. UNCHANGED <<opLock, timeout, inRecovery, holder, since, raised>>
  BY DEF Call, driver, link
<1>10. Tooks(stack'[c]) <=> opLock' = c
  BY <1>5, <1>7, <1>8, <1>9 DEF IInv, Locking
<1>11. Hold(c)
  BY <1>8, <1>9 DEF Hold
<1>12. Recalls(c)
  <2>1. Remembers(z, since'[c], raised'[c])
    BY <1>1, <1>4 DEF Remembers
  <2> QED BY <1>5, <1>9, <2>1 DEF Recalls
<1> QED BY <1>5, <1>6, <1>7, <1>8, <1>9, <1>10, <1>11, <1>12, Keeps
-----------------------------------------------------------------------------
(* The three ways a thread moves, by the operation and the step it is at.  *)

\* What is remembered where the activation goes on, and nobody else's memory.
OthersForget(c) == \A d \in Threads \ {c} : since'[d] = since[d] /\ raised'[d] = raised[d]

RemembersAt(op, step, drain, left, h, r) ==
  /\ op = "query" /\ step = "resend" => {"clear", "flush"} \subseteq h
  /\ op = "query" /\ step = "retry" /\ r = "ok" => {"clear", "flush"} \subseteq h
  /\ op = "transport_recover" /\ ~drain =>
       /\ step \notin Unclear => "clear" \in h
       /\ step \notin Unclear \cup Unflushed => "flush" \in h
  /\ op = "read_once" /\ step = "arm" /\ left = 1 => "reconfigure" \in h

LEMMA AtIs ==
  ASSUME IInv, NEW c \in Threads, NEW op, NEW step, At(c, op, step)
  PROVE  /\ stack[c] # <<>> /\ Len(stack[c]) \in Nat \ {0} /\ stack[c] \in Seq(Activations)
         /\ Top(c) = stack[c][1] /\ Top(c) \in Activations /\ Sound(Top(c))
         /\ Top(c).op = op /\ Top(c).step = step /\ op \in OpKinds
<1>1. stack[c] # <<>> /\ Top(c).op = op /\ Top(c).step = step
  BY DEF At
<1>2. Top(c) \in Activations /\ Top(c) = stack[c][1] /\ Len(stack[c]) \in Nat \ {0}
  BY <1>1, TopIs DEF IInv
<1>3. stack[c] \in Seq(Activations) /\ Shape(stack[c])
  BY DEF IInv, Control
<1>4. Sound(stack[c][1])
  BY <1>2, <1>3 DEF Shape
<1>5. op \in OpKinds
  BY <1>1, <1>2 DEF Activations
<1> QED BY <1>1, <1>2, <1>3, <1>4, <1>5

LEMMA OnwardKeeps ==
  ASSUME IInv, Globals', NEW c \in Threads, NEW op, NEW from, At(c, op, from),
         NEW t, NEW step \in StepsOf[op], Moved(c), Replaced(stack[c], stack'[c], t),
         SameCall(Top(c), t), t.step = step, t.took <=> Top(c).took,
         from # "lock", step # "lock", step \in {"drain", "drained"} => t.drain,
         op = "query" =>
           (step = "wait" /\ t.left = Top(c).left) \/ t.cmd \notin {"READ?", "*TST?"},
         op = "read_once" \/ t.left = Top(c).left,
         opLock' = opLock,
         timeout' = "default" \/ RestoresAt(op, step)
           \/ (timeout' = timeout /\ ~RestoresAt(op, from)),
         ~inRecovery' \/ RecoversAt(op, step)
           \/ (inRecovery' = inRecovery /\ ~RecoversAt(op, from)),
         Hold(c), OthersForget(c), RemembersAt(op, step, t.drain, t.left, since'[c], raised'[c]),
         step = "wait" \/ (from # "wait" /\ since'[c] = since[c]) \/ op # "query"
  PROVE  IInv'
<1>1. /\ stack[c] # <<>> /\ Len(stack[c]) \in Nat \ {0} /\ Top(c) = stack[c][1]
      /\ Sound(Top(c)) /\ Top(c).op = op /\ Top(c).step = from
  BY AtIs
<1>2. t.op = op /\ t \in Activations
  BY <1>1 DEF SameCall
<1>3. Sound(t)
  <2>1. t.cmd = Top(c).cmd
    BY DEF SameCall
  <2> QED BY <1>1, <1>2, <2>1 DEF Sound
<1>4. Needs(t) => Needs(Top(c))
  BY <1>1, <1>2 DEF Needs
<1>5. Recalls(c)
  <2>1. /\ Len(stack'[c]) = Len(stack[c]) /\ stack'[c][1] = t
        /\ Len(stack[c]) > 1 => stack'[c][2] = stack[c][2]
    BY <1>1 DEF Replaced
  <2>2. Remembers(stack[c], since[c], raised[c])
    BY DEF IInv, Memory
  <2> QED BY <1>1, <1>2, <2>1, <2>2 DEF Recalls, OthersForget, Remembers, RemembersAt
<1>6. \/ timeout' = "default" \/ Restores(t)
      \/ timeout' = timeout /\ ~Restores(Top(c))
  BY <1>1, <1>2 DEF Restores
<1>7. \/ ~inRecovery' \/ Recovers(t)
      \/ inRecovery' = inRecovery /\ ~Recovers(Top(c))
  BY <1>1, <1>2 DEF Recovers
<1> QED BY <1>1, <1>3, <1>4, <1>5, <1>6, <1>7, AdvanceKeeps

LEMMA GotoKeeps ==
  ASSUME IInv, Globals', NEW c \in Threads, NEW op, NEW from, At(c, op, from),
         NEW step \in StepsOf[op], Goto(c, step),
         from # "lock", step # "lock", step \in {"drain", "drained"} => Top(c).drain,
         op = "query" => step = "wait" \/ Top(c).cmd \notin {"READ?", "*TST?"},
         opLock' = opLock,
         timeout' = "default" \/ RestoresAt(op, step)
           \/ (timeout' = timeout /\ ~RestoresAt(op, from)),
         ~inRecovery' \/ RecoversAt(op, step)
           \/ (inRecovery' = inRecovery /\ ~RecoversAt(op, from)),
         \/ holder' = holder /\ (op # "query" \/ from # "wait")
         \/ holder' = c /\ op = "query" /\ step = "wait",
         OthersForget(c), RemembersAt(op, step, Top(c).drain, Top(c).left, since'[c], raised'[c]),
         step = "wait" \/ (from # "wait" /\ since'[c] = since[c]) \/ op # "query"
  PROVE  IInv'
<1>1. /\ stack[c] # <<>> /\ Len(stack[c]) \in Nat \ {0} /\ Top(c) = stack[c][1]
      /\ Top(c) \in Activations /\ Top(c).op = op /\ Top(c).step = from /\ op \in OpKinds
  BY AtIs
<1>2. step \in Steps
  BY <1>1 DEF Steps
<1>3. Moved(c) /\ \E t : Stepped(Top(c), t, step) /\ Replaced(stack[c], stack'[c], t)
  BY <1>1, <1>2, GotoIs DEF IInv
<1>4. PICK t : Stepped(Top(c), t, step) /\ Replaced(stack[c], stack'[c], t)
  BY <1>3
<1>5. /\ SameCall(Top(c), t) /\ t.step = step /\ t.left = Top(c).left /\ t.drain = Top(c).drain
      /\ t.op = op /\ t.cmd = Top(c).cmd
  BY <1>1, <1>4 DEF Stepped, SameCall
<1>6. t.took <=> Top(c).took
  BY <1>4 DEF Stepped
<1>7. Hold(c)
  BY <1>1, <1>4, <1>5 DEF Hold, Waits, Replaced
<1>8. RemembersAt(op, step, t.drain, t.left, since'[c], raised'[c])
  BY <1>5
<1>9. op = "query" =>
         (step = "wait" /\ t.left = Top(c).left) \/ t.cmd \notin {"READ?", "*TST?"}
  BY <1>5
<1>10. step \in {"drain", "drained"} => t.drain
  BY <1>5
<1> QED BY <1>3, <1>4, <1>5, <1>6, <1>7, <1>8, <1>9, <1>10, OnwardKeeps

\* A call of n: the caller waits at "step".
LEMMA CallsKeeps ==
  ASSUME IInv, Globals', NEW c \in Threads, NEW op, NEW from, At(c, op, from),
         NEW t, NEW n \in Activations, NEW step \in StepsOf[op],
         Moved(c), Pushed(stack[c], stack'[c], n, t),
         SameCall(Top(c), t), t.step = step, t.took <=> Top(c).took,
         Sound(n), ~n.took, n.step \in {"lock", "begin"}, ~Needs(n), CalledAt(n, op, step),
         from # "lock", step # "lock", step \in {"drain", "drained"} => Top(c).drain,
         op = "query" => Top(c).cmd \notin {"READ?", "*TST?"},
         op = "read_once" /\ n.op = "query" /\ t.left = 1 => "reconfigure" \in since'[c],
         opLock' = opLock,
         timeout' = "default" \/ RestoresAt(op, step)
           \/ (timeout' = timeout /\ ~RestoresAt(op, from)),
         ~inRecovery' \/ RecoversAt(op, step)
           \/ (inRecovery' = inRecovery /\ ~RecoversAt(op, from)),
         holder' = Nobody \/ (holder' = holder /\ (op # "query" \/ from # "wait")),
         OthersForget(c)
  PROVE  IInv'
<1>1. /\ stack[c] # <<>> /\ Len(stack[c]) \in Nat \ {0} /\ Top(c) = stack[c][1]
      /\ Sound(Top(c)) /\ Top(c).op = op /\ Top(c).step = from
  BY AtIs
<1>2. t.op = op /\ t \in Activations /\ t.cmd = Top(c).cmd /\ t.drain = Top(c).drain
  BY <1>1 DEF SameCall
<1>3. Sound(t)
  BY <1>1, <1>2 DEF Sound
<1>4. (Needs(t) => Needs(Top(c))) /\ CalledBy(n, t)
  BY <1>1, <1>2 DEF Needs, CalledBy
<1>5. Recalls(c)
  <2>1. Len(stack'[c]) = Len(stack[c]) + 1 /\ stack'[c][1] = n /\ stack'[c][2] = t
    BY DEF Pushed
  <2>2. n.op = "transport_recover" => n.step = "begin"
    BY DEF Sound, StepsOf
  <2> QED BY <1>1, <1>2, <2>1, <2>2 DEF Recalls, OthersForget, Remembers, Unclear
<1>6. Hold(c)
  BY <1>1 DEF Hold, Waits
<1>7. \/ timeout' = "default" \/ Restores(t)
      \/ timeout' = timeout /\ ~Restores(Top(c))
  BY <1>1, <1>2 DEF Restores
<1>8. \/ ~inRecovery' \/ Recovers(t)
      \/ inRecovery' = inRecovery /\ ~Recovers(Top(c))
  BY <1>1, <1>2 DEF Recovers
<1> QED BY <1>1, <1>3, <1>4, <1>5, <1>6, <1>7, <1>8, PushKeeps

\* A return, or an exception.
LEMMA LeaveKeeps ==
  ASSUME IInv, Globals', NEW c \in Threads, NEW op, NEW from, At(c, op, from),
         NEW how, Leave(c, how), since' = since,
         op = "transport_recover" /\ how = "ok" => from \notin Unclear \cup Unflushed,
         timeout' = "default" \/ (timeout' = timeout /\ ~RestoresAt(op, from)),
         ~inRecovery' \/ (inRecovery' = inRecovery /\ ~RecoversAt(op, from)),
         holder' = Nobody \/ (holder' = holder /\ (op # "query" \/ from # "wait"))
  PROVE  IInv'
<1>1. /\ stack[c] # <<>> /\ Len(stack[c]) \in Nat \ {0} /\ Top(c) = stack[c][1]
      /\ Sound(Top(c)) /\ Top(c).op = op /\ Top(c).step = from
  BY AtIs
<1>2. Popped(stack[c], stack'[c]) /\ Moved(c)
  BY <1>1, LeaveIs DEF IInv, Leave
<1>3. raised' = [raised EXCEPT ![c] = how] /\ raised \in [Threads -> {"ok", "timeout", "error", "escape"}]
  BY DEF Leave, IInv, Globals
<1>4. Recalls(c)
  <2> DEFINE s == stack[c]
             z == stack'[c]
  <2>1. Shape(s) /\ Remembers(s, since[c], raised[c]) /\ s[1] = Top(c)
    BY <1>1 DEF IInv, Control, Memory
  <2>2. Len(s) \in Nat /\ Len(s) > 0 /\ Len(z) = Len(s) - 1 /\ \A i \in 1..Len(z) : z[i] = s[i + 1]
    BY <1>1, <1>2 DEF Popped
  <2>3. since'[c] = since[c] /\ raised'[c] = how
    BY <1>3
  <2> HIDE DEF s, z
  <2>4. CASE Len(s) = 1
    <3>1. Len(z) = 0
      BY <2>2, <2>4
    <3>2. Remembers(z, since'[c], raised'[c])
      BY <3>1 DEF Remembers
    <3> QED BY <1>3, <3>2 DEF Recalls, z
  <2>5. CASE Len(s) # 1
    <3>1. 1 \in 1..(Len(s) - 1) /\ 1 \in 1..Len(z) /\ 2 \in 1..Len(s)
      BY <2>2, <2>5
    <3>2. z[1] = s[2] /\ CalledBy(s[1], s[2]) /\ Sound(s[2])
      <4>1. 1 + 1 = 2
        OBVIOUS
      <4> QED BY <2>1, <2>2, <3>1, <4>1 DEF Shape
    <3>3. /\ s[2].step \notin {"resend", "arm"}
          /\ s[2].op = "query" => s[1].op = "transport_recover" /\ ~s[1].drain /\ s[2].step = "retry"
          /\ s[2].op = "transport_recover" => s[2].step = "drained"
      BY <3>2 DEF CalledBy, CalledAt
    <3>4. s[2].op = "transport_recover" => s[2].drain
      BY <3>2, <3>3 DEF Sound
    <3>5. s[2].op = "query" /\ how = "ok" => {"clear", "flush"} \subseteq since[c]
      BY <1>1, <2>1, <2>2, <3>3 DEF Remembers
    <3>6. ASSUME Len(z) > 1 PROVE ~(z[2].op = "read_once" /\ z[1].op = "query")
      <4>1. 2 \in 1..(Len(s) - 1) /\ 2 \in 1..Len(z)
        BY <2>2, <3>6
      <4>2. z[2] = s[3] /\ CalledBy(s[2], s[3])
        <5>1. 2 + 1 = 3
          OBVIOUS
        <5> QED BY <2>1, <2>2, <4>1, <5>1 DEF Shape
      <4>3. s[2].op = "query" /\ s[3].op = "read_once" => s[2].cmd = "READ?"
        BY <4>2 DEF CalledBy, CalledAt
      <4> QED BY <3>2, <3>3, <4>2, <4>3 DEF Sound
    <3>7. Remembers(z, since'[c], raised'[c])
      BY <2>3, <3>2, <3>3, <3>4, <3>5, <3>6 DEF Remembers
    <3> QED BY <1>3, <3>7 DEF Recalls, z
  <2> QED BY <2>4, <2>5
<1>5. Hold(c)
  BY <1>1 DEF Hold, Waits
<1>6. timeout' = "default" \/ (timeout' = timeout /\ ~Restores(Top(c)))
  BY <1>1 DEF Restores
<1>7. ~inRecovery' \/ (inRecovery' = inRecovery /\ ~Recovers(Top(c)))
  BY <1>1 DEF Recovers
<1> QED BY <1>1, <1>4, <1>5, <1>6, <1>7, PopKeeps
-----------------------------------------------------------------------------
(* Every step keeps the invariant.                                         *)

LEMMA GlobalsStep ==
  ASSUME Globals, NEW c \in Threads, Step(c)
  PROVE  Globals'
<1> USE DEF Globals, States, Usable, Take, LockFree, Leave, Report, SetTimeout, Failure, driver
<1>1. CASE QueryBegin(c) BY <1>1 DEF QueryBegin
<1>2. CASE QuerySend(c) BY <1>2 DEF QuerySend
<1>3. CASE QueryRefused(c) BY <1>3 DEF QueryRefused
<1>4. CASE QueryReply(c) BY <1>4 DEF QueryReply
<1>5. CASE QueryTimeout(c) BY <1>5 DEF QueryTimeout
<1>6. CASE QueryError(c) BY <1>6 DEF QueryError
<1>7. CASE QueryEscapes(c) BY <1>7 DEF QueryEscapes
<1>8. CASE QueryRetry(c) BY <1>8 DEF QueryRetry
<1>9. CASE Write(c) BY <1>9 DEF Write
<1>10. CASE RecoverBegin(c) BY <1>10 DEF RecoverBegin
<1>11. CASE RecoverClear(c) BY <1>11 DEF RecoverClear
<1>12. ASSUME NEW how \in Failure, RecoverClearFails(c, how) PROVE Globals'
  BY <1>12 DEF RecoverClearFails
<1>13. CASE RecoverShorten(c) BY <1>13 DEF RecoverShorten
<1>14. CASE RecoverFlush(c) BY <1>14 DEF RecoverFlush
<1>15. CASE RecoverEscapes(c) BY <1>15 DEF RecoverEscapes
<1>16. CASE RecoverRestore(c) BY <1>16 DEF RecoverRestore
<1>17. CASE RecoverRemote(c) BY <1>17 DEF RecoverRemote
<1>18. CASE RecoverDrain(c) BY <1>18 DEF RecoverDrain
<1>19. CASE RecoverDrained(c) BY <1>19 DEF RecoverDrained
<1>20. CASE RecoverDrainEscapes(c) BY <1>20 DEF RecoverDrainEscapes
<1>21. CASE RecoverEnd(c) BY <1>21 DEF RecoverEnd
<1>22. CASE RecoverApiBegin(c) BY <1>22 DEF RecoverApiBegin
<1>23. CASE RecoverApiFails(c) BY <1>23 DEF RecoverApiFails
<1>24. CASE RecoverApiPlain(c) BY <1>24 DEF RecoverApiPlain
<1>25. CASE RecoverApiReconfigure(c) BY <1>25 DEF RecoverApiReconfigure
<1>26. CASE SelfTestBegin(c) BY <1>26 DEF SelfTestBegin
<1>27. CASE SelfTestEnd(c) BY <1>27 DEF SelfTestEnd
<1>28. CASE MeasureRefused(c) BY <1>28 DEF MeasureRefused
<1>29. CASE MeasureBegin(c) BY <1>29 DEF MeasureBegin
<1>30. CASE MeasureArm(c) BY <1>30 DEF MeasureArm, MeasureCatch, Goto, Enter
<1>31. CASE MeasureRead(c) BY <1>31 DEF MeasureRead, MeasureCatch, Goto, Enter
<1>32. CASE MeasureRecovered(c) BY <1>32 DEF MeasureRecovered
<1>33. CASE MeasureReconfigure(c) BY <1>33 DEF MeasureReconfigure
<1>34. CASE MeasureEnd(c) BY <1>34 DEF MeasureEnd
<1> QED
  BY <1>1, <1>2, <1>3, <1>4, <1>5, <1>6, <1>7, <1>8, <1>9, <1>10, <1>11, <1>12, <1>13, <1>14, <1>15, <1>16, <1>17, <1>18, <1>19, <1>20, <1>21, <1>22, <1>23, <1>24, <1>25, <1>26, <1>27, <1>28, <1>29, <1>30, <1>31, <1>32, <1>33, <1>34 DEF Step

\* What the activation remembers, at the step it is at.
LEMMA RememberedIs ==
  ASSUME IInv, NEW c \in Threads, NEW op, NEW step, At(c, op, step)
  PROVE  RemembersAt(op, step, Top(c).drain, Top(c).left, since[c], raised[c])
<1>1. /\ Len(stack[c]) \in Nat \ {0} /\ Top(c) = stack[c][1] /\ Top(c) \in Activations
      /\ Top(c).op = op /\ Top(c).step = step
  BY AtIs
<1>2. Remembers(stack[c], since[c], raised[c])
  BY DEF IInv, Memory
<1> QED BY <1>1, <1>2 DEF RemembersAt, Remembers

\* A call where only the step of the caller changes.
LEMMA EnterKeeps ==
  ASSUME IInv, Globals', NEW c \in Threads, NEW op, NEW from, At(c, op, from),
         NEW n \in Activations, NEW step \in StepsOf[op], Enter(c, step, n),
         Sound(n), ~n.took, n.step \in {"lock", "begin"}, ~Needs(n), CalledAt(n, op, step),
         from # "lock", step # "lock", step \in {"drain", "drained"} => Top(c).drain,
         op # "query",
         op = "read_once" /\ n.op = "query" /\ Top(c).left = 1 => "reconfigure" \in since'[c],
         opLock' = opLock,
         timeout' = "default" \/ RestoresAt(op, step)
           \/ (timeout' = timeout /\ ~RestoresAt(op, from)),
         ~inRecovery' \/ RecoversAt(op, step)
           \/ (inRecovery' = inRecovery /\ ~RecoversAt(op, from)),
         holder' = holder, OthersForget(c)
  PROVE  IInv'
<1>1. stack[c] # <<>> /\ Top(c) \in Activations /\ Top(c).op = op /\ op \in OpKinds
  BY AtIs
<1>2. step \in Steps
  BY <1>1 DEF Steps
<1>3. Moved(c) /\ \E t : Stepped(Top(c), t, step) /\ Pushed(stack[c], stack'[c], n, t)
  BY <1>1, <1>2, EnterIs DEF IInv
<1>4. PICK t : Stepped(Top(c), t, step) /\ Pushed(stack[c], stack'[c], n, t)
  BY <1>3
<1>5. SameCall(Top(c), t) /\ t.step = step /\ t.left = Top(c).left
  BY <1>4 DEF Stepped, SameCall
<1>6. t.took <=> Top(c).took
  BY <1>4 DEF Stepped
<1> QED BY <1>1, <1>3, <1>4, <1>5, <1>6, CallsKeeps

\* A call or a second attempt also counts.
Changed(a, t, step, left) ==
  SameCall(a, t) /\ t.step = step /\ t.left = left /\ t.took = a.took

LEMMA ChangedIs ==
  ASSUME NEW a \in Activations, NEW step \in Steps, NEW left \in Nat
  PROVE  Changed(a, [a EXCEPT !.step = step, !.left = left], step, left)
BY DEF Changed, SameCall, Activations

\* What query() and _transport_recover() start as when another method calls them.
LEMMA InnerCallIs ==
  /\ \A cmd \in Commands :
       LET n == QueryCall(cmd)
       IN /\ n \in Activations /\ n.op = "query" /\ n.cmd = cmd /\ n.step = "lock" /\ Sound(n)
          /\ ~n.took /\ ~Needs(n)
  /\ \A drain \in BOOLEAN :
       LET n == RecoverCall(drain)
       IN /\ n \in Activations /\ n.op = "transport_recover" /\ n.step = "begin" /\ Sound(n)
          /\ (n.drain <=> drain) /\ ~n.took /\ ~Needs(n)
<1>1. ASSUME NEW cmd \in Commands
      PROVE  LET n == QueryCall(cmd)
             IN /\ n \in Activations /\ n.op = "query" /\ n.cmd = cmd /\ n.step = "lock"
                /\ Sound(n) /\ ~n.took /\ ~Needs(n)
  BY QueryCallIs DEF Needs
<1>2. ASSUME NEW drain \in BOOLEAN
      PROVE  LET n == RecoverCall(drain)
             IN /\ n \in Activations /\ n.op = "transport_recover" /\ n.step = "begin"
                /\ Sound(n) /\ (n.drain <=> drain) /\ ~n.took /\ ~Needs(n)
  BY RecoverCallIs DEF Needs
<1> QED BY <1>1, <1>2

\* What the calls of the transport do to its lock.
LEMMA LinkIs ==
  ASSUME NEW c
  PROVE  /\ \A delivered : T!QuerySend(c, delivered) => holder' = c
         /\ T!QueryReply(c) => holder' = Nobody
         /\ \A how : T!QueryFails(c, how) => holder' = Nobody
         /\ Sent(c) => holder' = holder
         /\ \A how : NotSent(c, how) => holder' = holder
         /\ T!Refuse(c) => holder' = holder
         /\ T!ReadRawOk(c) => holder' = holder
         /\ \A how : T!ReadRawFails(c, how) => holder' = holder
         /\ T!ClearOk(c) => holder' = holder
         /\ \A how : T!ClearFails(c, how) => holder' = holder
BY DEF T!QuerySend, T!QueryReply, T!QueryFails, Sent, NotSent, T!WriteCommand, T!Refuse,
       T!ReadRawOk, T!ReadRawFails, T!ClearOk, T!ClearFails
LEMMA QueryKeeps ==
  ASSUME IInv, Globals', NEW c \in Threads,
         \/ QueryBegin(c) \/ QuerySend(c) \/ QueryRefused(c) \/ QueryReply(c)
         \/ QueryTimeout(c) \/ QueryError(c) \/ QueryEscapes(c) \/ QueryRetry(c)
  PROVE  IInv'
<1>1. CASE QueryBegin(c)
  <2> DEFINE left == IF ShouldRetry(Top(c).cmd) THEN MaxRetries ELSE 0
  <2>1. At(c, "query", "lock") /\ Take(c, "send", left)
    BY <1>1 DEF QueryBegin
  <2>2. left \in Nat /\ (Top(c).cmd \in {"READ?", "*TST?"} => left = 0)
    BY RecoveryAssumption DEF ShouldRetry
  <2> HIDE DEF left
  <2>3. stack[c] # <<>> /\ Sound(Top(c)) /\ Top(c).op = "query" /\ Top(c).step = "lock"
        /\ Top(c) = stack[c][1] /\ Len(stack[c]) \in Nat \ {0}
    BY <2>1, AtIs
  <2>4. "send" \in Steps /\ "send" \in StepsOf.query
    BY DEF Steps, StepsOf, OpKinds
  <2>5. Moved(c) /\ \E t : /\ SameCall(Top(c), t) /\ t.step = "send" /\ t.left = left
                           /\ t.took <=> opLock = Nobody
                           /\ Replaced(stack[c], stack'[c], t)
    BY <2>1, <2>2, <2>3, <2>4, TakeIs DEF IInv
  <2>6. PICK t : /\ SameCall(Top(c), t) /\ t.step = "send" /\ t.left = left
                 /\ t.took <=> opLock = Nobody
                 /\ Replaced(stack[c], stack'[c], t)
    BY <2>5
  <2>7. t.op = "query" /\ t.cmd = Top(c).cmd
    BY <2>3, <2>6 DEF SameCall
  <2>8. Sound(t)
    BY <2>2, <2>4, <2>6, <2>7 DEF Sound
  <2>9. UNCHANGED <<holder, timeout, inRecovery, since, raised>>
    BY <1>1 DEF QueryBegin, link
  <2>10. Hold(c)
    BY <2>3, <2>9 DEF Hold, Waits
  <2>11. Recalls(c)
    <3>1. Remembers(stack[c], since[c], raised[c])
      BY DEF IInv, Memory
    <3>2. /\ Len(stack'[c]) = Len(stack[c]) /\ stack'[c][1] = t
          /\ Len(stack[c]) > 1 => stack'[c][2] = stack[c][2]
      BY <2>3, <2>6 DEF Replaced
    <3> QED BY <2>3, <2>6, <2>7, <2>9, <3>1, <3>2 DEF Recalls, Remembers
  <2>12. opLock' = c /\ LockFree(c)
    BY <2>1 DEF Take
  <2> QED BY <2>3, <2>5, <2>6, <2>8, <2>9, <2>10, <2>11, <2>12, TakeKeeps
<1>2. CASE QuerySend(c)
  <2>1. PICK from \in {"send", "resend"} : At(c, "query", from)
    BY <1>2 DEF QuerySend
  <2>2. holder' = c
    BY <1>2, LinkIs DEF QuerySend
  <2>3. /\ Goto(c, "wait") /\ UNCHANGED <<timeout, inRecovery, opLock, raised>>
        /\ since' = [since EXCEPT ![c] = {}]
    BY <1>2 DEF QuerySend
  <2>4. OthersForget(c)
    BY <2>3 DEF OthersForget, IInv, Globals
  <2>5. "wait" \in StepsOf["query"]
    BY DEF StepsOf
  <2>6. RemembersAt("query", "wait", Top(c).drain, Top(c).left, since'[c], raised'[c])
    BY DEF RemembersAt
  <2>7. ~RestoresAt("query", from) /\ ~RecoversAt("query", from)
    BY DEF RestoresAt, RecoversAt
  <2> QED BY <2>1, <2>2, <2>3, <2>4, <2>5, <2>6, <2>7, GotoKeeps
<1> DEFINE Same == UNCHANGED <<timeout, inRecovery, since>>
<1>3. ~RestoresAt("query", "wait") /\ ~RecoversAt("query", "wait")
      /\ ~RestoresAt("query", "retry") /\ ~RecoversAt("query", "retry")
      /\ ~RestoresAt("query", "send") /\ ~RecoversAt("query", "send")
      /\ ~RestoresAt("query", "resend") /\ ~RecoversAt("query", "resend")
  BY DEF RestoresAt, RecoversAt
<1>4. CASE QueryRefused(c)
  <2>1. PICK from \in {"send", "resend"} : At(c, "query", from)
    BY <1>4 DEF QueryRefused
  <2>2. Leave(c, "error") /\ holder' = holder /\ Same
    BY <1>4, LinkIs DEF QueryRefused
  <2> QED BY <1>3, <2>1, <2>2, LeaveKeeps
<1>5. CASE QueryReply(c)
  <2>1. At(c, "query", "wait") /\ Leave(c, "ok") /\ holder' = Nobody /\ Same
    BY <1>5, LinkIs DEF QueryReply
  <2> QED BY <1>3, <2>1, LeaveKeeps
<1>6. CASE QueryTimeout(c)
  <2>1. At(c, "query", "wait") /\ holder' = Nobody /\ Same
    BY <1>6, LinkIs DEF QueryTimeout
  <2>2. CASE Top(c).left = 0
    <3>1. Leave(c, "timeout")
      BY <1>6, <2>2 DEF QueryTimeout
    <3> QED BY <1>3, <2>1, <3>1, LeaveKeeps
  <2>3. CASE Top(c).left # 0
    <3> DEFINE n == RecoverCall(FALSE)
               t == [Top(c) EXCEPT !.step = "retry", !.left = Top(c).left - 1]
    <3>1. stack[c] # <<>> /\ Top(c) \in Activations /\ Top(c).op = "query" /\ Top(c).step = "wait"
          /\ Sound(Top(c))
      BY <2>1, AtIs
    <3>2. Top(c).left - 1 \in Nat /\ "retry" \in Steps /\ "retry" \in StepsOf["query"]
      BY <2>3, <3>1 DEF Activations, Steps, StepsOf, OpKinds
    <3>3. SameCall(Top(c), t) /\ t.step = "retry" /\ (t.took <=> Top(c).took) /\ t \in Activations
      <4>1. Changed(Top(c), t, "retry", Top(c).left - 1)
        BY <3>1, <3>2, ChangedIs
      <4> HIDE DEF t
      <4> QED BY <4>1 DEF Changed, SameCall
    <3>4. n \in Activations /\ n.op = "transport_recover" /\ n.step = "begin" /\ Sound(n)
          /\ ~n.drain /\ ~n.took /\ ~Needs(n)
      BY InnerCallIs
    <3>5. stack' = [stack EXCEPT ![c] = <<n, t>> \o Tail(@)] /\ UNCHANGED <<raised, opLock>>
      BY <1>6, <2>3 DEF QueryTimeout
    <3> HIDE DEF n, t
    <3>6. Moved(c) /\ Pushed(stack[c], stack'[c], n, t)
      BY <3>1, <3>3, <3>4, <3>5, PushedIs DEF IInv
    <3>7. CalledAt(n, "query", "retry")
      BY <3>4 DEF CalledAt
    <3>8. OthersForget(c)
      BY <2>1, <3>5 DEF OthersForget
    <3>9. Top(c).cmd \notin {"READ?", "*TST?"}
      BY <2>3, <3>1 DEF Sound
    <3> QED BY <1>3, <2>1, <3>2, <3>3, <3>4, <3>5, <3>6, <3>7, <3>8, <3>9, CallsKeeps
  <2> QED BY <2>2, <2>3
<1>7. CASE QueryError(c)
  <2>1. At(c, "query", "wait") /\ Leave(c, "error") /\ holder' = Nobody /\ Same
    BY <1>7, LinkIs DEF QueryError
  <2> QED BY <1>3, <2>1, LeaveKeeps
<1>8. CASE QueryEscapes(c)
  <2>1. At(c, "query", "wait") /\ Leave(c, "escape") /\ holder' = Nobody /\ Same
    BY <1>8, LinkIs DEF QueryEscapes
  <2> QED BY <1>3, <2>1, LeaveKeeps
<1>9. CASE QueryRetry(c)
  <2>1. At(c, "query", "retry") /\ holder' = holder /\ Same
    BY <1>9 DEF QueryRetry, link
  <2>2. CASE raised[c] = "ok"
    <3>1. Goto(c, "resend") /\ UNCHANGED <<raised, opLock>>
      BY <1>9, <2>2 DEF QueryRetry
    <3>2. RemembersAt("query", "retry", Top(c).drain, Top(c).left, since[c], raised[c])
      BY <2>1, RememberedIs
    <3>3. RemembersAt("query", "resend", Top(c).drain, Top(c).left, since'[c], raised'[c])
      BY <2>1, <2>2, <3>1, <3>2 DEF RemembersAt
    <3>4. Sound(Top(c)) /\ Top(c).op = "query" /\ Top(c).step = "retry"
      BY <2>1, AtIs
    <3>5. Top(c).cmd \notin {"READ?", "*TST?"}
      BY <3>4 DEF Sound
    <3>6. "resend" \in StepsOf["query"]
      BY DEF StepsOf
    <3>7. OthersForget(c)
      BY <2>1, <3>1 DEF OthersForget
    <3> QED BY <1>3, <2>1, <3>1, <3>3, <3>5, <3>6, <3>7, GotoKeeps
  <2>3. CASE raised[c] # "ok"
    <3>1. Leave(c, raised[c])
      BY <1>9, <2>3 DEF QueryRetry
    <3> QED BY <1>3, <2>1, <3>1, LeaveKeeps
  <2> QED BY <2>2, <2>3
<1> QED BY <1>1, <1>2, <1>4, <1>5, <1>6, <1>7, <1>8, <1>9

LEMMA RecoverKeeps ==
  ASSUME IInv, Globals', NEW c \in Threads,
         \/ RecoverBegin(c) \/ RecoverClear(c) \/ \E how \in Failure : RecoverClearFails(c, how)
         \/ RecoverShorten(c) \/ RecoverFlush(c) \/ RecoverEscapes(c)
         \/ RecoverRestore(c) \/ RecoverRemote(c)
         \/ RecoverDrain(c) \/ RecoverDrained(c) \/ RecoverDrainEscapes(c) \/ RecoverEnd(c)
  PROVE  IInv'
<1> DEFINE op == "transport_recover"
           Kept(step) == RemembersAt(op, step, Top(c).drain, Top(c).left, since'[c], raised'[c])
<1>1. ASSUME NEW from, At(c, op, from), since' = since, raised' = raised,
             from \notin Unclear, NEW step,
             from \notin Unflushed \/ step \in Unflushed
      PROVE  Kept(step)
  <2>1. RemembersAt(op, from, Top(c).drain, Top(c).left, since[c], raised[c])
    BY <1>1, RememberedIs
  <2> QED BY <1>1, <2>1 DEF RemembersAt, Unclear, Unflushed
<1>2. StepsOf[op] = {"begin", "clear", "shorten", "flush", "undecodable", "restore",
                     "remote", "drain", "drained", "end"}
  BY DEF StepsOf
<1>3. /\ \A step : RestoresAt(op, step) <=> step \in {"flush", "restore", "undecodable"}
      /\ \A step : RecoversAt(op, step) <=> step # "begin"
  BY DEF RestoresAt, RecoversAt
<1>4. UNCHANGED <<since, raised>> => OthersForget(c)
  BY DEF OthersForget
<1>5. CASE RecoverBegin(c)
  <2>1. /\ At(c, op, "begin") /\ Goto(c, "clear")
        /\ UNCHANGED <<holder, timeout, opLock, since, raised>>
    BY <1>5 DEF RecoverBegin, link
  <2>2. Kept("clear")
    BY DEF RemembersAt, Unclear
  <2> QED BY <1>2, <1>3, <1>4, <2>1, <2>2, GotoKeeps DEF Unclear, Unflushed
<1>6. CASE RecoverClear(c)
  <2>1. /\ At(c, op, "clear") /\ Goto(c, "shorten") /\ holder' = holder
        /\ UNCHANGED <<timeout, inRecovery, opLock, raised>>
        /\ since' = [since EXCEPT ![c] = (@ \ {"flush"}) \cup {"clear"}]
    BY <1>6, LinkIs DEF RecoverClear, driver
  <2>2. OthersForget(c) /\ "clear" \in since'[c]
    BY <2>1 DEF OthersForget, IInv, Globals
  <2>3. Kept("shorten")
    BY <2>2 DEF RemembersAt, Unflushed
  <2>4. "shorten" \in StepsOf[op] /\ ~RestoresAt(op, "clear") /\ RecoversAt(op, "shorten")
    BY <1>2, <1>3
  <2> QED BY <2>1, <2>2, <2>3, <2>4, GotoKeeps DEF Unclear, Unflushed
<1>7. ASSUME NEW how \in Failure, RecoverClearFails(c, how) PROVE IInv'
  <2>1. /\ At(c, op, "clear") /\ Leave(c, how) /\ holder' = holder /\ ~inRecovery'
        /\ UNCHANGED <<timeout, since>> /\ how # "ok"
    BY <1>7, LinkIs DEF RecoverClearFails, Failure
  <2> QED BY <1>3, <2>1, LeaveKeeps DEF Unclear, Unflushed
<1>8. CASE RecoverShorten(c)
  <2>1. /\ At(c, op, "shorten") /\ Goto(c, "flush")
        /\ UNCHANGED <<holder, inRecovery, opLock, since, raised>>
    BY <1>8 DEF RecoverShorten, link
  <2> QED BY <1>1, <1>2, <1>3, <1>4, <2>1, GotoKeeps DEF Unclear, Unflushed
<1>9. CASE RecoverFlush(c)
  <2>1. /\ At(c, op, "flush") /\ holder' = holder
        /\ UNCHANGED <<timeout, inRecovery, opLock, raised>>
        /\ since' = [since EXCEPT ![c] = @ \cup {"flush"}]
        /\ (Goto(c, "restore") \/ Goto(c, "undecodable"))
    BY <1>9, LinkIs DEF RecoverFlush, driver
  <2>2. PICK step \in {"restore", "undecodable"} : Goto(c, step)
    BY <2>1
  <2>3. OthersForget(c) /\ since'[c] = since[c] \cup {"flush"}
    BY <2>1 DEF OthersForget, IInv, Globals
  <2>4. Kept(step)
    BY <2>1, <2>3, RememberedIs DEF RemembersAt, Unclear, Unflushed
  <2> QED BY <1>2, <1>3, <2>1, <2>2, <2>3, <2>4, GotoKeeps DEF Unclear, Unflushed
<1>10. CASE RecoverEscapes(c)
  <2>1. /\ At(c, op, "undecodable") /\ Leave(c, "escape") /\ ~inRecovery' /\ timeout' = "default"
        /\ UNCHANGED <<holder, since>>
    BY <1>10 DEF RecoverEscapes, SetTimeout, link
  <2> QED BY <2>1, LeaveKeeps DEF Unclear, Unflushed
<1>11. CASE RecoverRestore(c)
  <2> DEFINE step == IF IsSerial THEN "remote" ELSE IF Top(c).drain THEN "drain" ELSE "end"
  <2>1. /\ At(c, op, "restore") /\ Goto(c, step) /\ timeout' = "default"
        /\ UNCHANGED <<holder, inRecovery, opLock, since, raised>>
    BY <1>11 DEF RecoverRestore, SetTimeout, link
  <2>2. step \in StepsOf[op] \ {"lock", "begin", "drained"} /\ (step = "drain" => Top(c).drain)
    BY <1>2
  <2> HIDE DEF step
  <2> QED BY <1>1, <1>2, <1>3, <1>4, <2>1, <2>2, GotoKeeps DEF Unclear, Unflushed
<1>12. CASE RecoverRemote(c)
  <2> DEFINE step == IF Top(c).drain THEN "drain" ELSE "end"
  <2>1. /\ At(c, op, "remote") /\ Goto(c, step) /\ holder' = holder
        /\ UNCHANGED <<timeout, inRecovery, opLock, since, raised>>
    BY <1>12, LinkIs DEF RecoverRemote, driver
  <2>2. step \in StepsOf[op] \ {"lock", "begin", "drained"} /\ (step = "drain" => Top(c).drain)
    BY <1>2
  <2> HIDE DEF step
  <2> QED BY <1>1, <1>2, <1>3, <1>4, <2>1, <2>2, GotoKeeps DEF Unclear, Unflushed
<1>13. CASE RecoverDrain(c)
  <2> DEFINE n == QueryCall("SYST:ERR?")
             t == [Top(c) EXCEPT !.step = "drained", !.left = Top(c).left + 1]
  <2>1. /\ At(c, op, "drain") /\ UNCHANGED <<holder, timeout, inRecovery, opLock, since, raised>>
    BY <1>13 DEF RecoverDrain, link, driver
  <2>2. stack[c] # <<>> /\ Top(c) \in Activations /\ Sound(Top(c)) /\ Top(c).step = "drain"
    BY <2>1, AtIs
  <2>3. Top(c).left + 1 \in Nat /\ "drained" \in Steps /\ "SYST:ERR?" \in Commands
    <3>1. "transport_recover" \in OpKinds /\ "SYST:ERR?" \in Commands
      BY DEF OpKinds, Commands
    <3>2. "drained" \in Steps
      BY <1>2, <3>1 DEF Steps
    <3> QED BY <2>2, <3>1, <3>2 DEF Activations
  <2>4. SameCall(Top(c), t) /\ t.step = "drained" /\ (t.took <=> Top(c).took) /\ t \in Activations
    <3>1. Changed(Top(c), t, "drained", Top(c).left + 1)
      BY <2>2, <2>3, ChangedIs
    <3> HIDE DEF t
    <3> QED BY <3>1 DEF Changed, SameCall
  <2>5. n \in Activations /\ n.op = "query" /\ n.cmd = "SYST:ERR?" /\ n.step = "lock" /\ Sound(n)
        /\ ~n.took /\ ~Needs(n)
    BY <2>3, InnerCallIs
  <2>6. stack' = [stack EXCEPT ![c] = <<n, t>> \o Tail(@)]
    BY <1>13 DEF RecoverDrain
  <2> HIDE DEF n, t
  <2>7. Moved(c) /\ Pushed(stack[c], stack'[c], n, t)
    BY <2>2, <2>4, <2>5, <2>6, PushedIs DEF IInv
  <2>8. CalledAt(n, op, "drained") /\ Top(c).drain
    BY <2>2, <2>5 DEF CalledAt, Sound
  <2> QED BY <1>2, <1>3, <1>4, <2>1, <2>4, <2>5, <2>7, <2>8, CallsKeeps
<1>14. CASE RecoverDrained(c)
  <2>1. /\ At(c, op, "drained")
        /\ UNCHANGED <<holder, timeout, inRecovery, opLock, since, raised>>
    BY <1>14 DEF RecoverDrained, link, driver
  <2>2. Sound(Top(c)) /\ Top(c).step = "drained"
    BY <2>1, AtIs
  <2>3. Top(c).drain
    BY <2>2 DEF Sound
  <2>4. PICK step \in {"drain", "end"} : Goto(c, step)
    BY <1>14 DEF RecoverDrained
  <2>5. Kept(step)
    BY <1>1, <2>1 DEF Unclear, Unflushed
  <2> QED BY <1>2, <1>3, <1>4, <2>1, <2>3, <2>4, <2>5, GotoKeeps DEF Unclear, Unflushed
<1>15. CASE RecoverDrainEscapes(c)
  <2>1. /\ At(c, op, "drained") /\ Leave(c, "escape") /\ ~inRecovery'
        /\ UNCHANGED <<holder, timeout, since>>
    BY <1>15 DEF RecoverDrainEscapes, link
  <2> QED BY <1>3, <2>1, LeaveKeeps DEF Unclear, Unflushed
<1>16. CASE RecoverEnd(c)
  <2>1. At(c, op, "end") /\ Leave(c, "ok") /\ ~inRecovery' /\ UNCHANGED <<holder, timeout, since>>
    BY <1>16 DEF RecoverEnd, link
  <2> QED BY <1>3, <2>1, LeaveKeeps DEF Unclear, Unflushed
<1> QED BY <1>5, <1>6, <1>7, <1>8, <1>9, <1>10, <1>11, <1>12, <1>13, <1>14, <1>15, <1>16
LEMMA ApiKeeps ==
  ASSUME IInv, Globals', NEW c \in Threads,
         \/ Write(c)
         \/ RecoverApiBegin(c) \/ RecoverApiFails(c) \/ RecoverApiPlain(c)
         \/ RecoverApiReconfigure(c)
         \/ SelfTestBegin(c) \/ SelfTestEnd(c)
         \/ MeasureRefused(c)
  PROVE  IInv'
<1> USE DEF link
<1>1. /\ ~RestoresAt("write", "lock") /\ ~RecoversAt("write", "lock")
      /\ ~RestoresAt("recover", "begin") /\ ~RecoversAt("recover", "begin")
      /\ ~RestoresAt("recover", "recovered") /\ ~RecoversAt("recover", "recovered")
      /\ ~RestoresAt("self_test", "begin") /\ ~RecoversAt("self_test", "begin")
      /\ RestoresAt("self_test", "end") /\ ~RecoversAt("self_test", "end")
      /\ ~RestoresAt("read_once", "lock") /\ ~RecoversAt("read_once", "lock")
  BY DEF RestoresAt, RecoversAt
<1>2. CASE Write(c)
  <2>1. At(c, "write", "lock") /\ holder' = holder /\ UNCHANGED <<timeout, inRecovery, since>>
    BY <1>2, LinkIs DEF Write
  <2>2. PICK how : Leave(c, how)
    BY <1>2 DEF Write
  <2> QED BY <1>1, <2>1, <2>2, LeaveKeeps
<1>3. CASE RecoverApiBegin(c)
  <2> DEFINE n == RecoverCall(TRUE)
  <2>1. /\ At(c, "recover", "begin") /\ Enter(c, "recovered", n)
        /\ UNCHANGED <<holder, timeout, inRecovery, opLock, since, raised>>
    BY <1>3 DEF RecoverApiBegin, driver
  <2>2. /\ n \in Activations /\ n.op = "transport_recover" /\ n.step = "begin" /\ Sound(n)
        /\ n.drain /\ ~n.took /\ ~Needs(n)
    BY InnerCallIs
  <2> HIDE DEF n
  <2>3. "recovered" \in StepsOf["recover"] /\ CalledAt(n, "recover", "recovered")
    BY <2>2 DEF StepsOf, CalledAt
  <2>4. OthersForget(c)
    BY <2>1 DEF OthersForget
  <2> QED BY <1>1, <2>1, <2>2, <2>3, <2>4, EnterKeeps
<1>4. CASE RecoverApiFails(c)
  <2>1. At(c, "recover", "recovered") /\ UNCHANGED <<holder, timeout, inRecovery, since>>
    BY <1>4 DEF RecoverApiFails
  <2>2. PICK how : Leave(c, how)
    BY <1>4 DEF RecoverApiFails
  <2> QED BY <1>1, <2>1, <2>2, LeaveKeeps
<1>5. CASE RecoverApiPlain(c)
  <2>1. /\ At(c, "recover", "recovered") /\ UNCHANGED <<holder, timeout, inRecovery, since>>
        /\ Leave(c, "ok")
    BY <1>5 DEF RecoverApiPlain
  <2> QED BY <1>1, <2>1, LeaveKeeps
<1>6. CASE RecoverApiReconfigure(c)
  <2>1. /\ At(c, "recover", "recovered") /\ holder' = holder
        /\ UNCHANGED <<timeout, inRecovery, since>> /\ Leave(c, "ok")
    BY <1>6, LinkIs DEF RecoverApiReconfigure
  <2> QED BY <1>1, <2>1, LeaveKeeps
<1>7. CASE SelfTestBegin(c)
  <2> DEFINE n == QueryCall("*TST?")
  <2>1. /\ At(c, "self_test", "begin") /\ Enter(c, "end", n)
        /\ UNCHANGED <<holder, inRecovery, opLock, since, raised>>
    BY <1>7 DEF SelfTestBegin
  <2>2. "*TST?" \in Commands
    BY DEF Commands
  <2>3. /\ n \in Activations /\ n.op = "query" /\ n.cmd = "*TST?" /\ n.step = "lock" /\ Sound(n)
        /\ ~n.took /\ ~Needs(n)
    BY <2>2, InnerCallIs
  <2> HIDE DEF n
  <2>4. "end" \in StepsOf["self_test"] /\ CalledAt(n, "self_test", "end")
    BY <2>3 DEF StepsOf, CalledAt
  <2>5. OthersForget(c)
    BY <2>1 DEF OthersForget
  <2> QED BY <1>1, <2>1, <2>3, <2>4, <2>5, EnterKeeps
<1>8. CASE SelfTestEnd(c)
  <2>1. /\ At(c, "self_test", "end") /\ timeout' = "default" /\ Leave(c, raised[c])
        /\ UNCHANGED <<holder, inRecovery, since>>
    BY <1>8 DEF SelfTestEnd, SetTimeout
  <2> QED BY <1>1, <2>1, LeaveKeeps
<1>9. CASE MeasureRefused(c)
  <2>1. /\ At(c, "read_once", "lock") /\ Leave(c, "error")
        /\ UNCHANGED <<holder, timeout, inRecovery, since>>
    BY <1>9 DEF MeasureRefused
  <2> QED BY <1>1, <2>1, LeaveKeeps
<1> QED BY <1>2, <1>3, <1>4, <1>5, <1>6, <1>7, <1>8, <1>9

LEMMA CatchKeeps ==
  ASSUME IInv, Globals', NEW c \in Threads, NEW from \in {"arm", "read"},
         At(c, "read_once", from), NEW how, MeasureCatch(c, how),
         UNCHANGED <<timeout, inRecovery, opLock, since>>, holder' = holder
  PROVE  IInv'
<1>1. /\ \A step : step # "lock" => RestoresAt("read_once", step)
      /\ \A step : ~RecoversAt("read_once", step)
      /\ {"recovered", "end"} \subseteq StepsOf["read_once"]
  BY DEF RestoresAt, RecoversAt, StepsOf
<1>2. CASE Enter(c, "recovered", RecoverCall(TRUE)) /\ UNCHANGED raised
  <2> DEFINE n == RecoverCall(TRUE)
  <2>1. /\ n \in Activations /\ n.op = "transport_recover" /\ n.step = "begin" /\ Sound(n)
        /\ n.drain /\ ~n.took /\ ~Needs(n)
    BY InnerCallIs
  <2>2. Enter(c, "recovered", n)
    BY <1>2
  <2> HIDE DEF n
  <2>3. CalledAt(n, "read_once", "recovered") /\ OthersForget(c)
    BY <1>2, <2>1 DEF CalledAt, OthersForget
  <2> QED BY <1>1, <1>2, <2>1, <2>2, <2>3, EnterKeeps
<1>3. CASE Goto(c, "end") /\ raised' = [raised EXCEPT ![c] = how]
  <2>1. OthersForget(c)
    BY <1>3 DEF OthersForget, IInv, Globals
  <2>2. RemembersAt("read_once", "end", Top(c).drain, Top(c).left, since'[c], raised'[c])
    BY DEF RemembersAt
  <2> QED BY <1>1, <1>3, <2>1, <2>2, GotoKeeps
<1> QED BY <1>2, <1>3 DEF MeasureCatch

LEMMA MeasureKeeps ==
  ASSUME IInv, Globals', NEW c \in Threads,
         \/ MeasureBegin(c) \/ MeasureArm(c) \/ MeasureRead(c)
         \/ MeasureRecovered(c) \/ MeasureReconfigure(c) \/ MeasureEnd(c)
  PROVE  IInv'
<1>1. /\ \A step : step # "lock" => RestoresAt("read_once", step)
      /\ \A step : ~RecoversAt("read_once", step)
      /\ {"arm", "read", "recovered", "reconfigure", "end"} \subseteq StepsOf["read_once"]
  BY DEF RestoresAt, RecoversAt, StepsOf
<1>2. CASE MeasureBegin(c)
  <2>1. /\ At(c, "read_once", "lock") /\ Take(c, "arm", 0)
        /\ UNCHANGED <<holder, inRecovery, since, raised>>
    BY <1>2 DEF MeasureBegin, link
  <2>2. stack[c] # <<>> /\ Sound(Top(c)) /\ Top(c).op = "read_once" /\ Top(c).step = "lock"
        /\ Top(c) = stack[c][1] /\ Len(stack[c]) \in Nat \ {0}
    BY <2>1, AtIs
  <2>3. "read_once" \in OpKinds
    BY DEF OpKinds
  <2>4. "arm" \in Steps
    BY <1>1, <2>3 DEF Steps
  <2>5. Moved(c) /\ \E t : /\ SameCall(Top(c), t) /\ t.step = "arm" /\ t.left = 0
                           /\ t.took <=> opLock = Nobody
                           /\ Replaced(stack[c], stack'[c], t)
    BY <2>1, <2>2, <2>4, TakeIs DEF IInv
  <2>6. PICK t : /\ SameCall(Top(c), t) /\ t.step = "arm" /\ t.left = 0
                 /\ t.took <=> opLock = Nobody
                 /\ Replaced(stack[c], stack'[c], t)
    BY <2>5
  <2>7. t.op = "read_once"
    BY <2>2, <2>6 DEF SameCall
  <2>8. Sound(t) /\ Restores(t)
    BY <1>1, <2>6, <2>7 DEF Sound, Restores
  <2>9. Hold(c)
    BY <2>1, <2>2 DEF Hold, Waits
  <2>10. Recalls(c)
    <3>1. Len(stack'[c]) = Len(stack[c]) /\ stack'[c][1] = t
      BY <2>2, <2>6 DEF Replaced
    <3> QED BY <2>1, <2>6, <2>7, <3>1 DEF Recalls, Remembers
  <2>11. opLock' = c /\ LockFree(c)
    BY <2>1 DEF Take
  <2> QED BY <2>1, <2>2, <2>5, <2>6, <2>8, <2>9, <2>10, <2>11, TakeKeeps
<1>3. CASE MeasureArm(c)
  <2>1. /\ At(c, "read_once", "arm") /\ UNCHANGED <<timeout, inRecovery, opLock, since>>
        /\ holder' = holder
    BY <1>3, LinkIs DEF MeasureArm
  <2>2. CASE Enter(c, "read", QueryCall("READ?")) /\ UNCHANGED raised
    <3> DEFINE n == QueryCall("READ?")
    <3>1. "READ?" \in Commands
      BY DEF Commands
    <3>2. /\ n \in Activations /\ n.op = "query" /\ n.cmd = "READ?" /\ n.step = "lock" /\ Sound(n)
          /\ ~n.took /\ ~Needs(n)
      BY <3>1, InnerCallIs
    <3>3. Enter(c, "read", n)
      BY <2>2
    <3> HIDE DEF n
    <3>4. CalledAt(n, "read_once", "read") /\ OthersForget(c)
      BY <2>1, <2>2, <3>2 DEF CalledAt, OthersForget
    <3>5. Top(c).left = 1 => "reconfigure" \in since'[c]
      BY <2>1, RememberedIs DEF RemembersAt
    <3> QED BY <1>1, <2>1, <3>2, <3>3, <3>4, <3>5, EnterKeeps
  <2>3. ASSUME NEW how, MeasureCatch(c, how) PROVE IInv'
    BY <2>1, <2>3, CatchKeeps
  <2> QED BY <1>3, <2>2, <2>3 DEF MeasureArm
<1>4. CASE MeasureRead(c)
  BY <1>4, CatchKeeps DEF MeasureRead, driver, link
<1>5. CASE MeasureRecovered(c)
  <2>1. /\ At(c, "read_once", "recovered")
        /\ UNCHANGED <<holder, inRecovery, opLock, since, raised>>
    BY <1>5 DEF MeasureRecovered, link
  <2>2. PICK step \in {"reconfigure", "end"} : Goto(c, step)
    BY <1>5 DEF MeasureRecovered
  <2>3. RemembersAt("read_once", step, Top(c).drain, Top(c).left, since'[c], raised'[c])
    BY DEF RemembersAt
  <2>4. OthersForget(c)
    BY <2>1 DEF OthersForget
  <2> QED BY <1>1, <2>1, <2>2, <2>3, <2>4, GotoKeeps
<1>6. CASE MeasureReconfigure(c)
  <2>1. /\ At(c, "read_once", "reconfigure") /\ UNCHANGED <<timeout, inRecovery, opLock>>
        /\ holder' = holder
    BY <1>6, LinkIs DEF MeasureReconfigure
  <2>2. CASE /\ stack' = [stack EXCEPT ![c][1] = [@ EXCEPT !.step = "arm", !.left = 1]]
             /\ since' = [since EXCEPT ![c] = @ \cup {"reconfigure"}]
             /\ UNCHANGED raised
    <3> DEFINE t == [Top(c) EXCEPT !.step = "arm", !.left = 1]
    <3>1. stack[c] # <<>> /\ Top(c) \in Activations /\ Top(c).op = "read_once"
      BY <2>1, AtIs
    <3>2. "read_once" \in OpKinds
      BY DEF OpKinds
    <3>3. "arm" \in Steps /\ 1 \in Nat
      BY <1>1, <3>2 DEF Steps
    <3>4. Changed(Top(c), t, "arm", 1)
      BY <3>1, <3>3, ChangedIs
    <3>5. stack' = [stack EXCEPT ![c] = [@ EXCEPT ![1] = t]]
      BY <2>2 DEF Top
    <3> HIDE DEF t
    <3>6. SameCall(Top(c), t) /\ t.step = "arm" /\ t.left = 1 /\ (t.took <=> Top(c).took)
          /\ t \in Activations
      BY <3>4 DEF Changed, SameCall
    <3>7. Moved(c) /\ Replaced(stack[c], stack'[c], t)
      BY <3>1, <3>5, <3>6, ReplacedIs DEF IInv
    <3>8. OthersForget(c) /\ "reconfigure" \in since'[c]
      BY <2>2 DEF OthersForget, IInv, Globals
    <3>9. RemembersAt("read_once", "arm", t.drain, t.left, since'[c], raised'[c])
      BY <3>8 DEF RemembersAt
    <3>10. Hold(c)
      <4>1. Top(c) = stack[c][1]
        BY <2>1, AtIs
      <4> QED BY <2>1, <3>1, <4>1 DEF Hold, Waits
    <3> QED BY <1>1, <2>1, <3>6, <3>7, <3>8, <3>9, <3>10, OnwardKeeps
  <2>3. ASSUME NEW how, Goto(c, "end"), raised' = [raised EXCEPT ![c] = how], since' = since
        PROVE  IInv'
    <3>1. OthersForget(c)
      BY <2>3 DEF OthersForget, IInv, Globals
    <3>2. RemembersAt("read_once", "end", Top(c).drain, Top(c).left, since'[c], raised'[c])
      BY DEF RemembersAt
    <3> QED BY <1>1, <2>1, <2>3, <3>1, <3>2, GotoKeeps
  <2> QED BY <1>6, <2>2, <2>3 DEF MeasureReconfigure
<1>7. CASE MeasureEnd(c)
  <2>1. /\ At(c, "read_once", "end") /\ timeout' = "default" /\ Leave(c, raised[c])
        /\ UNCHANGED <<holder, inRecovery, since>>
    BY <1>7 DEF MeasureEnd, SetTimeout, link
  <2> QED BY <1>1, <2>1, LeaveKeeps
<1> QED BY <1>2, <1>3, <1>4, <1>5, <1>6, <1>7

\* The invariant holds at the start, and every step keeps it.
LEMMA InitOK == Init => IInv
<1> SUFFICES ASSUME Init PROVE IInv
  OBVIOUS
<1> USE DEF Init
<1>1. Globals
  BY DEF Globals, States, Usable
<1>2. stack \in [Threads -> Seq(Activations)] /\ \A c \in Threads : stack[c] = <<>>
  OBVIOUS
<1>3. Len(<<>>) = 0
  OBVIOUS
<1>4. Control
  BY <1>2, <1>3 DEF Control, Shape
<1>5. Locking
  BY <1>2, <1>3, RecoveryAssumption DEF Locking, Takes, Tooks
<1>6. Temporary /\ HolderWaits
  BY DEF Temporary, HolderWaits
<1>7. Memory
  BY <1>2, <1>3 DEF Memory, Remembers
<1> QED BY <1>1, <1>4, <1>5, <1>6, <1>7 DEF IInv

LEMMA Same ==
  ASSUME IInv,
         UNCHANGED <<holder, timeout, state, inRecovery, opLock, stack, raised, report, since>>
  PROVE  IInv'
<1>1. Globals'
  BY DEF IInv, Globals
<1>2. Control' /\ Locking'
  BY DEF IInv, Control, Locking
<1>3. Temporary' /\ HolderWaits' /\ Memory'
  BY DEF IInv, Temporary, HolderWaits, Memory
<1> QED BY <1>1, <1>2, <1>3 DEF IInv

LEMMA StepKeeps == IInv /\ [Next]_vars => IInv'
<1> SUFFICES ASSUME IInv, [Next]_vars PROVE IInv'
  OBVIOUS
<1>1. ASSUME NEW c \in Threads, Step(c) PROVE IInv'
  <2>1. Globals'
    BY <1>1, GlobalsStep DEF IInv
  <2> QED BY <1>1, <2>1, QueryKeeps, RecoverKeeps, ApiKeeps, MeasureKeeps DEF Step
<1>2. ASSUME NEW c \in Threads, NEW op \in Ops, Call(c, op) PROVE IInv'
  <2>1. Globals'
    BY <1>2 DEF Call, IInv, Globals, driver
  <2> QED BY <1>2, <2>1, CallKeeps
<1>3. CASE Lose
  BY <1>3, Same DEF Lose, T!Lose, driver, control
<1>4. CASE UNCHANGED vars
  BY <1>4, Same DEF vars, link, driver, control
<1> QED BY <1>1, <1>2, <1>3, <1>4 DEF Next, Done

LEMMA Inductive == Spec => []IInv
  BY InitOK, StepKeeps, PTL DEF Spec
-----------------------------------------------------------------------------
(* What the invariant says of the calls.                                   *)

\* When every call has returned, the timeout is the default, no recovery is marked as
\* running, and neither lock is held (the "finally" clauses of legacy_driver.py).
THEOREM NothingStays == Spec => []NothingLeftBehind
<1>1. IInv => NothingLeftBehind
  <2> SUFFICES ASSUME IInv, AtRest PROVE timeout = "default" /\ ~inRecovery /\ opLock = Nobody /\ holder = Nobody
    BY DEF NothingLeftBehind
  <2>1. \A c \in Threads : stack[c] = <<>> /\ Len(stack[c]) = 0
    BY DEF AtRest, Idle
  <2>2. \A c \in Threads :
          /\ ~Tooks(stack[c]) /\ ~WillRestore(stack[c]) /\ ~WillRecover(stack[c])
          /\ ~Waits(stack[c])
    BY <2>1 DEF Tooks, WillRestore, WillRecover, Waits
  <2> QED BY <2>2 DEF IInv, Globals, Locking, Temporary, HolderWaits
<1> QED BY Inductive, <1>1, PTL

\* A command sent again follows a clear that succeeded and the flush read after it, and
\* nothing else was asked in between (query() and _transport_recover(), R11).
THEOREM ClearsBeforeRetry == Spec => RetryFollowsClear
<1>1. IInv =>
        \A c \in Threads : QuerySend(c) /\ Top(c).step = "resend" => {"clear", "flush"} \subseteq since[c]
  <2> SUFFICES ASSUME IInv, NEW c \in Threads, QuerySend(c), Top(c).step = "resend"
               PROVE  {"clear", "flush"} \subseteq since[c]
    OBVIOUS
  <2>1. At(c, "query", "resend")
    BY DEF QuerySend, At
  <2> QED BY <2>1, RememberedIs DEF RemembersAt
<1> QED BY Inductive, <1>1, PTL DEF RetryFollowsClear

\* The second READ? of read_once() follows a configuration that was written again after
\* the recovery (read_once(), R1 and R6).
THEOREM ConfiguresBeforeReread == Spec => RereadIsConfigured
<1>1. IInv =>
        \A c \in Threads : QuerySend(c) /\ Measuring(c) /\ stack[c][2].left = 1
                             => "reconfigure" \in since[c]
  <2> SUFFICES ASSUME IInv, NEW c \in Threads, QuerySend(c), Measuring(c), stack[c][2].left = 1
               PROVE  "reconfigure" \in since[c]
    OBVIOUS
  <2>1. PICK from \in {"send", "resend"} : At(c, "query", from)
    BY DEF QuerySend
  <2>2. Top(c) = stack[c][1] /\ Top(c).op = "query" /\ Top(c).step = from
    BY <2>1, AtIs
  <2> QED BY <2>2 DEF IInv, Memory, Remembers, Measuring
<1> QED BY Inductive, <1>1, PTL DEF RereadIsConfigured
-----------------------------------------------------------------------------
(* The link, the state and the timeout.                                    *)

L == INSTANCE TransportProofs WITH Callers <- Threads, RawQuestions <- FALSE

\* At most one answer is on its way, and one that a clear left there only until the
\* flush read.
Single == \A x, y \in line : x = y
Flushing(s) == Len(s) > 0 /\ s[1].op = "transport_recover" /\ s[1].step \in {"shorten", "flush"}
StrayFree ==
  line \cap unguarded # {} => ~ClearDrains /\ \E c \in Threads : Flushing(stack[c])
Fresh == Single /\ StrayFree /\ OwnAnswersOnly

\* The state says "ready" only with the flag down, and a reading that succeeded left it
\* down.
HasRead(s) == Len(s) > 0 /\ s[1].op = "read_once" /\ s[1].step \in {"read", "end"}
Ready ==
  /\ unread => state \notin Usable
  /\ \A c \in Threads : HasRead(stack[c]) /\ raised[c] = "ok" => ~unread

\* The measurement's timeout is set from the arming of a reading to its end.
Reading(a) == a.op = "read_once" /\ a.step \in {"arm", "read", "reconfigure"}
Timed == \A c \in Threads : \A i \in 1..Len(stack[c]) : Reading(stack[c][i]) => timeout = "active"
\* The driver uses the link through the transport's methods only: each of its steps is a
\* step of Transport or leaves the link alone.
LEMMA LinkAssumption == L!TransportAssumption
BY RecoveryAssumption DEF L!TransportAssumption

LEMMA LinkCalls ==
  ASSUME NEW c \in Threads
  PROVE  /\ \A d \in BOOLEAN : T!QuerySend(c, d) => L!Call(c)
         /\ T!QueryReply(c) => L!Call(c)
         /\ \A how \in Failure : T!QueryFails(c, how) => L!Call(c)
         /\ Sent(c) => L!Call(c)
         /\ \A how \in Failure : NotSent(c, how) => L!Call(c)
         /\ T!Refuse(c) => L!Call(c)
         /\ T!ReadRawOk(c) => L!Call(c)
         /\ \A how \in Failure : T!ReadRawFails(c, how) => L!Call(c)
         /\ T!ClearOk(c) => L!Call(c)
         /\ \A how \in Failure : T!ClearFails(c, how) => L!Call(c)
<1> USE DEF T!Free, L!Free, T!Ends, L!Ends, T!Outcome, L!Outcome, T!FirstOf, L!FirstOf,
            L!Failure, Failure
<1>1. ASSUME NEW d \in BOOLEAN, T!QuerySend(c, d) PROVE L!Call(c)
  <2>1. L!QuerySend(c, d)
    BY <1>1 DEF T!QuerySend, L!QuerySend, T!Room, L!Room
  <2> QED BY <2>1 DEF L!Call
<1>2. ASSUME T!QueryReply(c) PROVE L!Call(c)
  <2>1. L!QueryReply(c)
    BY <1>2 DEF T!QueryReply, L!QueryReply
  <2> QED BY <2>1 DEF L!Call
<1>3. ASSUME NEW how \in Failure, T!QueryFails(c, how) PROVE L!Call(c)
  <2>1. L!QueryFails(c, how)
    BY <1>3 DEF T!QueryFails, L!QueryFails
  <2> QED BY <2>1 DEF L!Call
<1>4. ASSUME NEW how \in {"ok"} \cup Failure, T!WriteCommand(c, how) PROVE L!Call(c)
  <2>1. L!WriteCommand(c, how)
    BY <1>4 DEF T!WriteCommand, L!WriteCommand
  <2> QED BY <2>1 DEF L!Call
<1>5. ASSUME T!Refuse(c) PROVE L!Call(c)
  <2>1. L!Refuse(c)
    BY <1>5 DEF T!Refuse, L!Refuse
  <2> QED BY <2>1 DEF L!Call
<1>6. ASSUME T!ReadRawOk(c) PROVE L!Call(c)
  <2>1. L!ReadRawOk(c)
    BY <1>6 DEF T!ReadRawOk, L!ReadRawOk
  <2> QED BY <2>1 DEF L!Call
<1>7. ASSUME NEW how \in Failure, T!ReadRawFails(c, how) PROVE L!Call(c)
  <2>1. L!ReadRawFails(c, how)
    BY <1>7 DEF T!ReadRawFails, L!ReadRawFails
  <2> QED BY <2>1 DEF L!Call
<1>8. ASSUME T!ClearOk(c) PROVE L!Call(c)
  <2>1. L!ClearOk(c)
    BY <1>8 DEF T!ClearOk, L!ClearOk, T!AfterClear, L!AfterClear
  <2> QED BY <2>1 DEF L!Call
<1>9. ASSUME NEW how \in Failure, T!ClearFails(c, how) PROVE L!Call(c)
  <2>1. L!ClearFails(c, how)
    BY <1>9 DEF T!ClearFails, L!ClearFails
  <2> QED BY <2>1 DEF L!Call
<1>10. (Sent(c) => L!Call(c)) /\ \A how \in Failure : NotSent(c, how) => L!Call(c)
  BY <1>4, <1>5 DEF Sent, NotSent
<1> QED BY <1>1, <1>2, <1>3, <1>5, <1>6, <1>7, <1>8, <1>9, <1>10

\* The steps that do not touch the link.
Apart(c) ==
  \/ QueryBegin(c) \/ QueryRetry(c) \/ RecoverBegin(c) \/ RecoverShorten(c)
  \/ RecoverEscapes(c) \/ RecoverRestore(c) \/ RecoverDrain(c) \/ RecoverDrained(c)
  \/ RecoverDrainEscapes(c) \/ RecoverEnd(c) \/ RecoverApiBegin(c)
  \/ RecoverApiFails(c) \/ RecoverApiPlain(c) \/ SelfTestBegin(c) \/ SelfTestEnd(c)
  \/ MeasureRefused(c) \/ MeasureBegin(c) \/ MeasureRead(c) \/ MeasureRecovered(c)
  \/ MeasureEnd(c)

LEMMA ApartIs ==
  ASSUME NEW c, Apart(c)
  PROVE  UNCHANGED link
BY DEF Apart, driver, QueryBegin, QueryRetry, RecoverBegin, RecoverShorten, RecoverEscapes, RecoverRestore, RecoverDrain, RecoverDrained, RecoverDrainEscapes, RecoverEnd, RecoverApiBegin, RecoverApiFails, RecoverApiPlain, SelfTestBegin, SelfTestEnd, MeasureRefused, MeasureBegin, MeasureRead, MeasureRecovered, MeasureEnd

LEMMA LinkStep ==
  ASSUME NEW c \in Threads, Step(c)
  PROVE  L!Call(c) \/ UNCHANGED link
<1>1. CASE Apart(c) BY <1>1, ApartIs
<1>2. CASE QuerySend(c) BY <1>2, LinkCalls DEF QuerySend
<1>3. CASE QueryRefused(c) BY <1>3, LinkCalls DEF QueryRefused
<1>4. CASE QueryReply(c) BY <1>4, LinkCalls DEF QueryReply
<1>5. CASE QueryTimeout(c) BY <1>5, LinkCalls DEF QueryTimeout, Failure
<1>6. CASE QueryError(c) BY <1>6, LinkCalls DEF QueryError, Failure
<1>7. CASE QueryEscapes(c) BY <1>7, LinkCalls DEF QueryEscapes, Failure
<1>8. CASE Write(c) BY <1>8, LinkCalls DEF Write, Failure
<1>9. CASE RecoverClear(c) BY <1>9, LinkCalls DEF RecoverClear
<1>10. ASSUME NEW how \in Failure, RecoverClearFails(c, how) PROVE L!Call(c)
  BY <1>10, LinkCalls DEF RecoverClearFails
<1>11. CASE RecoverFlush(c) BY <1>11, LinkCalls DEF RecoverFlush, Failure
<1>12. CASE RecoverRemote(c) BY <1>12, LinkCalls DEF RecoverRemote, Failure
<1>13. CASE RecoverApiReconfigure(c) BY <1>13, LinkCalls DEF RecoverApiReconfigure, Failure
<1>14. CASE MeasureArm(c) BY <1>14, LinkCalls DEF MeasureArm, Failure
<1>15. CASE MeasureReconfigure(c) BY <1>15, LinkCalls DEF MeasureReconfigure, Failure
<1> QED
  BY <1>1, <1>2, <1>3, <1>4, <1>5, <1>6, <1>7, <1>8, <1>9, <1>10, <1>11, <1>12, <1>13, <1>14, <1>15 DEF Step, Apart

LEMMA LinkMoves == [Next]_vars => [L!Next]_(L!vars)
<1> SUFFICES ASSUME [Next]_vars PROVE [L!Next]_(L!vars)
  OBVIOUS
<1>1. ASSUME NEW c \in Threads, Step(c) PROVE [L!Next]_(L!vars)
  BY <1>1, LinkStep DEF L!Next, L!vars, link
<1>2. ASSUME NEW c \in Threads, NEW op \in Ops, Call(c, op) PROVE [L!Next]_(L!vars)
  BY <1>2 DEF Call, L!vars, link
<1>3. CASE Lose
  <2>1. L!Lose
    BY <1>3 DEF Lose, T!Lose, L!Lose
  <2> QED BY <2>1 DEF L!Next
<1>4. CASE UNCHANGED vars
  BY <1>4 DEF vars, link, L!vars
<1> QED BY <1>1, <1>2, <1>3, <1>4 DEF Next, Done

LEMMA LinkKeeps == L!IInv /\ [Next]_vars => L!IInv'
<1> SUFFICES ASSUME L!IInv, [Next]_vars PROVE L!IInv'
  OBVIOUS
<1>1. [L!Next]_(L!vars)
  BY LinkMoves
<1>2. L!TypeOK'
  BY <1>1, LinkAssumption, L!TypeStep DEF L!IInv
<1>3. L!Coverage'
  BY <1>1, LinkAssumption, L!CoverageStep DEF L!IInv, L!Coverage
<1> QED BY <1>2, <1>3 DEF L!IInv, L!Coverage

\* The transport's own invariant holds under the driver, whose session is open from the
\* start.
LEMMA LinkInductive == Spec => []L!IInv
<1>1. Init => L!IInv
  <2> SUFFICES ASSUME Init PROVE L!IInv
    OBVIOUS
  <2> USE DEF Init
  <2>1. L!TypeOK
    BY LinkAssumption DEF L!TypeOK, L!Outcomes, L!Questions, T!Outcome
  <2>2. L!Waiting /\ L!FlagCoversLine /\ L!OneOutstanding /\ L!NoStaleAnswer
    BY DEF L!Waiting, L!FlagCoversLine, L!OneOutstanding, L!NoStaleAnswer, T!Outcome
  <2> QED BY <2>1, <2>2 DEF L!IInv
<1> QED BY <1>1, LinkKeeps, PTL DEF Spec

\* Every variable of the driver and of the link keeps its type, and a thread inside an
\* activation that took the operation lock owns it (Hp34401A, all methods).
THEOREM TypeCorrect == Spec => []TypeOK
<1>1. IInv /\ L!IInv => TypeOK
  <2> SUFFICES ASSUME IInv, L!IInv PROVE TypeOK
    OBVIOUS
  <2>1. T!TypeOK
    BY DEF L!IInv, L!TypeOK, L!Outcomes, L!Questions, T!TypeOK, T!Outcomes, T!Questions
  <2>2. ASSUME NEW c \in Threads, NEW i \in DOMAIN stack[c], stack[c][i].took
        PROVE  opLock = c
    <3>1. stack[c] \in Seq(Activations)
      BY DEF IInv, Control
    <3>2. i \in 1..Len(stack[c])
      BY <3>1
    <3> QED BY <2>2, <3>2 DEF IInv, Locking, Tooks
  <2> QED BY <2>1, <2>2 DEF TypeOK, IInv, Globals
<1> QED BY Inductive, LinkInductive, <1>1, PTL
-----------------------------------------------------------------------------
(* Which thread runs.  recover() and self_test() do not take the operation *)
(* lock: without them, or with one thread, one thread at a time has the    *)
(* link to itself.                                                         *)

Alone == \A c, d \in Threads : c = d

\* A thread that needs the lock has it.
LEMMA NeedsHas ==
  ASSUME IInv, NEW c \in Threads, NEW i \in 1..Len(stack[c]), Needs(stack[c][i])
  PROVE  opLock = c
<1>1. PICK j \in i..Len(stack[c]) : stack[c][j].took
  BY DEF IInv, Locking, Takes, Needs
<1>2. stack[c] \in Seq(Activations)
  BY DEF IInv, Control
<1>3. Len(stack[c]) \in Nat
  BY <1>2
<1>4. j \in 1..Len(stack[c])
  BY <1>3
<1> QED BY <1>1, <1>4 DEF IInv, Locking, Tooks

\* A thread inside _transport_recover() has the lock, unless it is inside recover().
LEMMA RecoverHas ==
  ASSUME IInv, NEW c \in Threads, NEW i \in 1..Len(stack[c]),
         stack[c][i].op = "transport_recover", "recover" \notin Ops
  PROVE  opLock = c
<1> DEFINE s == stack[c]
<1>1. s \in Seq(Activations) /\ Shape(s)
  BY DEF IInv, Control
<1>2. Len(s) \in Nat
  BY <1>1
<1>3. i # Len(s)
  BY DEF IInv, Control, Shape, Public
<1>4. i \in 1..(Len(s) - 1) /\ i + 1 \in 1..Len(s)
  BY <1>2, <1>3
<1>5. CalledBy(s[i], s[i + 1])
  BY <1>1, <1>4 DEF Shape
<1>6. s[i + 1].op # "recover"
  <2> SUFFICES ASSUME s[i + 1].op = "recover" PROVE FALSE
    OBVIOUS
  <2>1. CASE i + 1 = Len(s)
    BY <1>1, <1>2, <2>1 DEF Shape, Public
  <2>2. CASE i + 1 # Len(s)
    <3>1. i + 1 \in 1..(Len(s) - 1)
      BY <1>2, <1>4, <2>2
    <3>2. CalledBy(s[i + 1], s[i + 1 + 1])
      BY <1>1, <3>1 DEF Shape
    <3> QED BY <3>2 DEF CalledBy, CalledAt
  <2> QED BY <2>1, <2>2
<1>7. Needs(s[i + 1])
  BY <1>5, <1>6 DEF CalledBy, CalledAt, Needs
<1> QED BY <1>4, <1>7, NeedsHas

\* A thread with a question to send or an answer to wait for keeps every other thread
\* out of query(), and out of _transport_recover() unless recover() is called.
LEMMA Exclusive ==
  ASSUME IInv, NEW c \in Threads, NEW d \in Threads, NEW i \in 1..Len(stack[d]),
         NEW op, NEW step, At(c, op, step), op \in {"query", "read_once"}, step # "lock",
         \/ Needs(stack[d][i])
         \/ stack[d][i].op = "transport_recover" /\ ("recover" \notin Ops \/ Alone)
  PROVE  c = d
<1>1. /\ Len(stack[c]) \in Nat \ {0} /\ Top(c) = stack[c][1]
      /\ Top(c).op = op /\ Top(c).step = step
  BY AtIs
<1>2. 1 \in 1..Len(stack[c]) /\ Needs(stack[c][1])
  BY <1>1 DEF Needs
<1>3. opLock = c
  BY <1>2, NeedsHas
<1>4. CASE Needs(stack[d][i])
  BY <1>3, <1>4, NeedsHas
<1>5. CASE stack[d][i].op = "transport_recover" /\ "recover" \notin Ops
  BY <1>3, <1>5, RecoverHas
<1>6. CASE Alone
  BY <1>6 DEF Alone
<1> QED BY <1>4, <1>5, <1>6

\* A step of a thread leaves the stacks and what they raised of the others alone.
LEMMA StepIsOwn ==
  ASSUME IInv, NEW c \in Threads, Step(c)
  PROVE  \A d \in Threads \ {c} : stack'[d] = stack[d] /\ raised'[d] = raised[d]
<1>1. stack \in [Threads -> Seq(Activations)] /\ DOMAIN raised = Threads
  BY DEF IInv, Control, Globals
<1> USE DEF Take, Leave, Goto, Enter
<1> DEFINE Others == \A d \in Threads \ {c} : stack'[d] = stack[d] /\ raised'[d] = raised[d]
<1>2. CASE QueryBegin(c) BY <1>1, <1>2 DEF QueryBegin
<1>3. CASE QuerySend(c) BY <1>1, <1>3 DEF QuerySend
<1>4. CASE QueryRefused(c) BY <1>1, <1>4 DEF QueryRefused
<1>5. CASE QueryReply(c) BY <1>1, <1>5 DEF QueryReply
<1>6. CASE QueryTimeout(c) BY <1>1, <1>6 DEF QueryTimeout
<1>7. CASE QueryError(c) BY <1>1, <1>7 DEF QueryError
<1>8. CASE QueryEscapes(c) BY <1>1, <1>8 DEF QueryEscapes
<1>9. CASE QueryRetry(c) BY <1>1, <1>9 DEF QueryRetry
<1>10. CASE Write(c) BY <1>1, <1>10 DEF Write
<1>11. CASE RecoverBegin(c) BY <1>1, <1>11 DEF RecoverBegin
<1>12. CASE RecoverClear(c) BY <1>1, <1>12 DEF RecoverClear
<1>13. ASSUME NEW how \in Failure, RecoverClearFails(c, how) PROVE Others
  BY <1>1, <1>13 DEF RecoverClearFails
<1>14. CASE RecoverShorten(c) BY <1>1, <1>14 DEF RecoverShorten
<1>15. CASE RecoverFlush(c) BY <1>1, <1>15 DEF RecoverFlush
<1>16. CASE RecoverEscapes(c) BY <1>1, <1>16 DEF RecoverEscapes
<1>17. CASE RecoverRestore(c) BY <1>1, <1>17 DEF RecoverRestore
<1>18. CASE RecoverRemote(c) BY <1>1, <1>18 DEF RecoverRemote
<1>19. CASE RecoverDrain(c) BY <1>1, <1>19 DEF RecoverDrain
<1>20. CASE RecoverDrained(c) BY <1>1, <1>20 DEF RecoverDrained
<1>21. CASE RecoverDrainEscapes(c) BY <1>1, <1>21 DEF RecoverDrainEscapes
<1>22. CASE RecoverEnd(c) BY <1>1, <1>22 DEF RecoverEnd
<1>23. CASE RecoverApiBegin(c) BY <1>1, <1>23 DEF RecoverApiBegin
<1>24. CASE RecoverApiFails(c) BY <1>1, <1>24 DEF RecoverApiFails
<1>25. CASE RecoverApiPlain(c) BY <1>1, <1>25 DEF RecoverApiPlain
<1>26. CASE RecoverApiReconfigure(c) BY <1>1, <1>26 DEF RecoverApiReconfigure
<1>27. CASE SelfTestBegin(c) BY <1>1, <1>27 DEF SelfTestBegin
<1>28. CASE SelfTestEnd(c) BY <1>1, <1>28 DEF SelfTestEnd
<1>29. CASE MeasureRefused(c) BY <1>1, <1>29 DEF MeasureRefused
<1>30. CASE MeasureBegin(c) BY <1>1, <1>30 DEF MeasureBegin
<1>31. CASE MeasureArm(c) BY <1>1, <1>31 DEF MeasureArm, MeasureCatch
<1>32. CASE MeasureRead(c) BY <1>1, <1>32 DEF MeasureRead, MeasureCatch
<1>33. CASE MeasureRecovered(c) BY <1>1, <1>33 DEF MeasureRecovered
<1>34. CASE MeasureReconfigure(c) BY <1>1, <1>34 DEF MeasureReconfigure
<1>35. CASE MeasureEnd(c) BY <1>1, <1>35 DEF MeasureEnd
<1> QED
  BY <1>2, <1>3, <1>4, <1>5, <1>6, <1>7, <1>8, <1>9, <1>10, <1>11, <1>12, <1>13, <1>14, <1>15, <1>16, <1>17, <1>18, <1>19, <1>20, <1>21, <1>22, <1>23, <1>24, <1>25, <1>26, <1>27, <1>28, <1>29, <1>30, <1>31, <1>32, <1>33, <1>34, <1>35 DEF Step
-----------------------------------------------------------------------------
(* Whose answer a query returns.                                           *)

\* A clear empties the line, or the flush read after it does, with no other thread's
\* question in between.
Cleared == ClearDrains \/ (FlushWaits /\ ("recover" \notin Ops \/ Alone))

LEMMA FlushingMoves ==
  ASSUME NEW c \in Threads, Step(c), Flushing(stack[c])
  PROVE  RecoverShorten(c) \/ RecoverFlush(c)
<1>1. Top(c).op = "transport_recover" /\ Top(c).step \in {"shorten", "flush"}
  BY DEF Flushing, Top
<1>2. \A op, step : At(c, op, step) => op = "transport_recover" /\ step \in {"shorten", "flush"}
  BY <1>1 DEF At
<1> SUFFICES ASSUME ~RecoverShorten(c), ~RecoverFlush(c) PROVE FALSE
  OBVIOUS
<1>3. CASE QueryBegin(c) BY <1>2, <1>3 DEF QueryBegin
<1>4. CASE QuerySend(c) BY <1>2, <1>4 DEF QuerySend
<1>5. CASE QueryRefused(c) BY <1>2, <1>5 DEF QueryRefused
<1>6. CASE QueryReply(c) BY <1>2, <1>6 DEF QueryReply
<1>7. CASE QueryTimeout(c) BY <1>2, <1>7 DEF QueryTimeout
<1>8. CASE QueryError(c) BY <1>2, <1>8 DEF QueryError
<1>9. CASE QueryEscapes(c) BY <1>2, <1>9 DEF QueryEscapes
<1>10. CASE QueryRetry(c) BY <1>2, <1>10 DEF QueryRetry
<1>11. CASE Write(c) BY <1>2, <1>11 DEF Write
<1>12. CASE RecoverBegin(c) BY <1>2, <1>12 DEF RecoverBegin
<1>13. CASE RecoverClear(c) BY <1>2, <1>13 DEF RecoverClear
<1>14. ASSUME NEW how \in Failure, RecoverClearFails(c, how) PROVE FALSE
  BY <1>2, <1>14 DEF RecoverClearFails
<1>15. CASE RecoverEscapes(c) BY <1>2, <1>15 DEF RecoverEscapes
<1>16. CASE RecoverRestore(c) BY <1>2, <1>16 DEF RecoverRestore
<1>17. CASE RecoverRemote(c) BY <1>2, <1>17 DEF RecoverRemote
<1>18. CASE RecoverDrain(c) BY <1>2, <1>18 DEF RecoverDrain
<1>19. CASE RecoverDrained(c) BY <1>2, <1>19 DEF RecoverDrained
<1>20. CASE RecoverDrainEscapes(c) BY <1>2, <1>20 DEF RecoverDrainEscapes
<1>21. CASE RecoverEnd(c) BY <1>2, <1>21 DEF RecoverEnd
<1>22. CASE RecoverApiBegin(c) BY <1>2, <1>22 DEF RecoverApiBegin
<1>23. CASE RecoverApiFails(c) BY <1>2, <1>23 DEF RecoverApiFails
<1>24. CASE RecoverApiPlain(c) BY <1>2, <1>24 DEF RecoverApiPlain
<1>25. CASE RecoverApiReconfigure(c) BY <1>2, <1>25 DEF RecoverApiReconfigure
<1>26. CASE SelfTestBegin(c) BY <1>2, <1>26 DEF SelfTestBegin
<1>27. CASE SelfTestEnd(c) BY <1>2, <1>27 DEF SelfTestEnd
<1>28. CASE MeasureRefused(c) BY <1>2, <1>28 DEF MeasureRefused
<1>29. CASE MeasureBegin(c) BY <1>2, <1>29 DEF MeasureBegin
<1>30. CASE MeasureArm(c) BY <1>2, <1>30 DEF MeasureArm
<1>31. CASE MeasureRead(c) BY <1>2, <1>31 DEF MeasureRead
<1>32. CASE MeasureRecovered(c) BY <1>2, <1>32 DEF MeasureRecovered
<1>33. CASE MeasureReconfigure(c) BY <1>2, <1>33 DEF MeasureReconfigure
<1>34. CASE MeasureEnd(c) BY <1>2, <1>34 DEF MeasureEnd
<1> QED
  BY <1>3, <1>4, <1>5, <1>6, <1>7, <1>8, <1>9, <1>10, <1>11, <1>12, <1>13, <1>14, <1>15, <1>16, <1>17, <1>18, <1>19, <1>20, <1>21, <1>22, <1>23, <1>24, <1>25, <1>26, <1>27, <1>28, <1>29, <1>30, <1>31, <1>32, <1>33, <1>34 DEF Step

LEMMA NoStray ==
  ASSUME IInv, Fresh, Cleared, NEW c \in Threads, NEW step, At(c, "query", step), step # "lock"
  PROVE  line \cap unguarded = {}
<1> SUFFICES ASSUME line \cap unguarded # {} PROVE FALSE
  OBVIOUS
<1>1. PICK d \in Threads : Flushing(stack[d])
  BY DEF Fresh, StrayFree
<1>2. "recover" \notin Ops \/ Alone
  BY DEF Fresh, StrayFree, Cleared
<1>3. stack[d] \in Seq(Activations)
  BY DEF IInv, Control
<1>4. 1 \in 1..Len(stack[d]) /\ stack[d][1].op = "transport_recover"
  BY <1>1, <1>3 DEF Flushing
<1>5. c = d
  BY <1>2, <1>4, Exclusive
<1>6. stack[c][1].op = "query"
  BY AtIs
<1> QED BY <1>4, <1>5, <1>6

LEMMA StrayStays ==
  ASSUME StrayFree, NEW c \in Threads, \A d \in Threads \ {c} : stack'[d] = stack[d],
         line' \cap unguarded' \subseteq line \cap unguarded,
         Flushing(stack[c]) => Flushing(stack'[c])
  PROVE  StrayFree'
<1> SUFFICES ASSUME line' \cap unguarded' # {}
             PROVE  ~ClearDrains /\ \E d \in Threads : Flushing(stack'[d])
  BY DEF StrayFree, Flushing
<1>1. PICK d \in Threads : Flushing(stack[d])
  BY DEF StrayFree
<1>2. Flushing(stack'[d])
  BY <1>1
<1> QED BY <1>2 DEF StrayFree

\* A step that leaves the line alone and gives no answer.
LEMMA QuietKeeps ==
  ASSUME L!IInv, Fresh, NEW c \in Threads, \A d \in Threads \ {c} : stack'[d] = stack[d],
         Flushing(stack[c]) => Flushing(stack'[c]), UNCHANGED <<line, unguarded>>,
         \/ result' = result
         \/ \E kind : kind # "answer" /\ result' = [result EXCEPT ![c] = T!Outcome(kind, 0, 0)]
  PROVE  Fresh'
<1>1. StrayFree'
  BY StrayStays DEF Fresh
<1>2. Single'
  BY DEF Fresh, Single
<1>3. OwnAnswersOnly'
  BY DEF Fresh, OwnAnswersOnly, L!IInv, L!TypeOK, T!Outcome
<1> QED BY <1>1, <1>2, <1>3 DEF Fresh

\* A command, a refusal or a clear that fails is such a step.
LEMMA QuietIs ==
  ASSUME NEW c, \/ Sent(c) \/ T!Refuse(c)
                \/ \E how \in Failure : NotSent(c, how) \/ T!ClearFails(c, how)
                                          \/ T!ReadRawFails(c, how)
  PROVE  /\ UNCHANGED <<line, unguarded>>
         /\ \E kind : kind # "answer" /\ result' = [result EXCEPT ![c] = T!Outcome(kind, 0, 0)]
<1> USE DEF T!Ends
<1>1. CASE Sent(c) BY <1>1 DEF Sent, T!WriteCommand
<1>2. CASE T!Refuse(c) BY <1>2 DEF T!Refuse
<1>3. ASSUME NEW how \in Failure, T!ClearFails(c, how) \/ T!ReadRawFails(c, how)
      PROVE  /\ UNCHANGED <<line, unguarded>>
             /\ how # "answer" /\ result' = [result EXCEPT ![c] = T!Outcome(how, 0, 0)]
  BY <1>3 DEF T!ClearFails, T!ReadRawFails, Failure
<1>4. ASSUME NEW how \in Failure, NotSent(c, how), ~T!Refuse(c)
      PROVE  /\ UNCHANGED <<line, unguarded>>
             /\ how # "answer" /\ result' = [result EXCEPT ![c] = T!Outcome(how, 0, 0)]
  BY <1>4 DEF NotSent, T!WriteCommand, Failure
<1> QED BY <1>1, <1>2, <1>3, <1>4

LEMMA FreshStep ==
  ASSUME IInv, IInv', L!IInv, Fresh, Cleared, NEW c \in Threads, Step(c)
  PROVE  Fresh'
<1>1. \A d \in Threads \ {c} : stack'[d] = stack[d]
  BY StepIsOwn
<1>2. result \in [Threads -> L!Outcomes]
  BY DEF L!IInv, L!TypeOK
<1>3. CASE RecoverShorten(c)
  <2>1. At(c, "transport_recover", "shorten") /\ Goto(c, "flush") /\ UNCHANGED link
    BY <1>3 DEF RecoverShorten
  <2>2. Flushing(stack'[c])
    <3>1. stack[c] # <<>> /\ Len(stack[c]) \in Nat \ {0} /\ Top(c).op = "transport_recover"
      BY <2>1, AtIs
    <3>2. "flush" \in Steps
      BY DEF Steps, StepsOf, OpKinds
    <3>3. \E t : Stepped(Top(c), t, "flush") /\ Replaced(stack[c], stack'[c], t)
      BY <2>1, <3>1, <3>2, GotoIs DEF IInv
    <3> QED BY <3>1, <3>3 DEF Stepped, Replaced, Flushing
  <2> QED BY <1>1, <2>1, <2>2, QuietKeeps DEF link
<1>4. CASE RecoverFlush(c)
  <2>1. line' \cap unguarded' = {} /\ Single' /\ OwnAnswersOnly'
    <3>1. CASE T!ReadRawOk(c)
      <4>1. PICK a \in line : /\ line' = line \ {a}
                              /\ result' = [result EXCEPT ![c] = T!Outcome("raw", 0, a)]
        BY <3>1 DEF T!ReadRawOk
      <4>2. line' = {}
        BY <4>1 DEF Fresh, Single
      <4>3. OwnAnswersOnly'
        BY <1>2, <4>1 DEF Fresh, OwnAnswersOnly, T!Outcome
      <4> QED BY <4>2, <4>3 DEF Single
    <3>2. ASSUME NEW how \in Failure, T!ReadRawFails(c, how),
                 FlushWaits => line \cap unguarded = {}
          PROVE  line' \cap unguarded' = {} /\ Single' /\ OwnAnswersOnly'
      <4>1. line \cap unguarded = {}
        BY <3>2 DEF Cleared, Fresh, StrayFree
      <4>2. /\ UNCHANGED <<line, unguarded>>
            /\ \E kind : kind # "answer" /\ result' = [result EXCEPT ![c] = T!Outcome(kind, 0, 0)]
        BY <3>2, QuietIs
      <4>3. OwnAnswersOnly'
        BY <1>2, <4>2 DEF Fresh, OwnAnswersOnly, T!Outcome
      <4> QED BY <4>1, <4>2, <4>3 DEF Fresh, Single
    <3> QED BY <1>4, <3>1, <3>2 DEF RecoverFlush, Failure
  <2> QED BY <2>1 DEF Fresh, StrayFree
<1>5. CASE ~Flushing(stack[c])
  <2>1. CASE Apart(c)
    BY <1>1, <1>5, <2>1, ApartIs, QuietKeeps DEF link
  <2>2. CASE QuerySend(c)
    <3>1. PICK d \in BOOLEAN : T!QuerySend(c, d)
      BY <2>2 DEF QuerySend
    <3>2. PICK step \in {"send", "resend"} : At(c, "query", step)
      BY <2>2 DEF QuerySend
    <3>3. line \cap unguarded = {}
      BY <3>2, NoStray
    <3>4. ~unread
      BY <3>1 DEF T!QuerySend
    <3>5. line = {}
      BY <3>3, <3>4 DEF L!IInv, L!FlagCoversLine
    <3>6. line' \subseteq {asked + 1} /\ unguarded' = unguarded
      BY <3>1, <3>5 DEF T!QuerySend
    <3>7. asked + 1 \notin unguarded
      BY DEF L!IInv, L!TypeOK, L!Questions
    <3>8. line' \cap unguarded' = {} /\ Single'
      BY <3>6, <3>7 DEF Single
    <3>9. OwnAnswersOnly'
      <4>1. result' = [result EXCEPT ![c] = T!Outcome("pending", asked + 1, 0)]
        BY <3>1 DEF T!QuerySend
      <4> QED BY <1>2, <4>1 DEF Fresh, OwnAnswersOnly, T!Outcome
    <3> QED BY <3>8, <3>9 DEF Fresh, StrayFree
  <2>3. CASE QueryReply(c)
    <3>1. PICK a \in line :
            /\ line' = line \ {a}
            /\ result' = [result EXCEPT ![c].kind = "answer", ![c].answer = a]
            /\ unguarded' = unguarded \cup ({result[c].question} \ {a})
      BY <2>3 DEF QueryReply, T!QueryReply
    <3>2. At(c, "query", "wait") /\ holder = c
      BY <2>3 DEF QueryReply, T!QueryReply
    <3>3. line \cap unguarded = {}
      BY <3>2, NoStray
    <3>4. line \ unguarded \subseteq {result[c].question}
      BY <3>2, RecoveryAssumption DEF L!IInv, L!Waiting
    <3>5. a = result[c].question
      BY <3>3, <3>4
    <3>6. line' \cap unguarded' = {} /\ Single'
      BY <3>1, <3>3, <3>5 DEF Fresh, Single
    <3>7. OwnAnswersOnly'
      BY <1>2, <3>1, <3>5 DEF Fresh, OwnAnswersOnly, L!Outcomes
    <3> QED BY <3>6, <3>7 DEF Fresh, StrayFree
  <2>4. ASSUME NEW how \in Failure, T!QueryFails(c, how) PROVE Fresh'
    <3>1. line' \subseteq line /\ unguarded' = unguarded /\ result' = [result EXCEPT ![c].kind = how]
      BY <2>4 DEF T!QueryFails
    <3>2. Single' /\ StrayFree'
      BY <1>1, <1>5, <3>1, StrayStays DEF Fresh, Single
    <3>3. OwnAnswersOnly'
      BY <1>2, <3>1 DEF Fresh, OwnAnswersOnly, L!Outcomes, Failure
    <3> QED BY <3>2, <3>3 DEF Fresh
  <2>5. CASE QueryTimeout(c) \/ QueryError(c) \/ QueryEscapes(c)
    BY <2>4, <2>5 DEF QueryTimeout, QueryError, QueryEscapes, Failure
  <2>6. CASE RecoverClear(c)
    <3>1. line' \in T!AfterClear /\ unguarded' = unguarded \cup line' /\ T!Ends(c, "ok")
      BY <2>6 DEF RecoverClear, T!ClearOk
    <3>2. line' \subseteq line /\ (ClearDrains => line' = {})
      BY <3>1 DEF T!AfterClear
    <3>3. At(c, "transport_recover", "clear") /\ Goto(c, "shorten")
      BY <2>6 DEF RecoverClear
    <3>4. Flushing(stack'[c])
      <4>1. stack[c] # <<>> /\ Len(stack[c]) \in Nat \ {0} /\ Top(c).op = "transport_recover"
        BY <3>3, AtIs
      <4>2. "shorten" \in Steps
        BY DEF Steps, StepsOf, OpKinds
      <4>3. \E t : Stepped(Top(c), t, "shorten") /\ Replaced(stack[c], stack'[c], t)
        BY <3>3, <4>1, <4>2, GotoIs DEF IInv
      <4> QED BY <4>1, <4>3 DEF Stepped, Replaced, Flushing
    <3>5. Single'
      BY <3>2 DEF Fresh, Single
    <3>6. StrayFree'
      BY <3>2, <3>4 DEF StrayFree, Flushing
    <3>7. OwnAnswersOnly'
      BY <1>2, <3>1 DEF Fresh, OwnAnswersOnly, T!Ends, T!Outcome
    <3> QED BY <3>5, <3>6, <3>7 DEF Fresh
  <2>7. ASSUME \/ Sent(c) \/ T!Refuse(c)
               \/ \E how \in Failure : NotSent(c, how) \/ T!ClearFails(c, how)
        PROVE  Fresh'
    BY <1>1, <1>5, <2>7, QuietIs, QuietKeeps
  <2>8. CASE \/ QueryRefused(c) \/ Write(c) \/ RecoverRemote(c) \/ RecoverApiReconfigure(c)
             \/ MeasureArm(c) \/ MeasureReconfigure(c)
             \/ \E how \in Failure : RecoverClearFails(c, how)
    BY <2>7, <2>8
       DEF QueryRefused, Write, RecoverRemote, RecoverApiReconfigure, MeasureArm,
           MeasureReconfigure, RecoverClearFails, Failure
  <2> QED BY <1>5, <2>1, <2>2, <2>3, <2>5, <2>6, <2>8, <1>3, <1>4 DEF Step, Apart
<1> QED BY <1>3, <1>4, <1>5, FlushingMoves

\* The line stays without a stray, except between a clear and its flush read.
LEMMA AlwaysFresh == Cleared => (Spec => []Fresh)
<1> SUFFICES ASSUME Cleared PROVE Spec => []Fresh
  OBVIOUS
<1>1. Init => Fresh
  BY DEF Init, Fresh, Single, StrayFree, OwnAnswersOnly, T!Outcome
<1>2. IInv /\ IInv' /\ L!IInv /\ Fresh /\ [Next]_vars => Fresh'
  <2> SUFFICES ASSUME IInv, IInv', L!IInv, Fresh, [Next]_vars PROVE Fresh'
    OBVIOUS
  <2>1. ASSUME NEW c \in Threads, Step(c) PROVE Fresh'
    BY <2>1, FreshStep
  <2>2. ASSUME UNCHANGED <<unguarded, result>>, line' \subseteq line,
               \A c \in Threads : Flushing(stack[c]) => Flushing(stack'[c])
        PROVE  Fresh'
    <3>1. StrayFree'
      <4> SUFFICES ASSUME line' \cap unguarded' # {}
                   PROVE  ~ClearDrains /\ \E d \in Threads : Flushing(stack'[d])
        BY DEF StrayFree, Flushing
      <4> QED BY <2>2 DEF Fresh, StrayFree
    <3> QED BY <2>2, <3>1 DEF Fresh, Single, OwnAnswersOnly
  <2>3. ASSUME NEW c \in Threads, NEW op \in Ops, Call(c, op) PROVE Fresh'
    <3>1. stack[c] = <<>> /\ stack' = [stack EXCEPT ![c] = <<Begin(c, op)>>] /\ UNCHANGED link
      BY <2>3 DEF Call, Idle
    <3>2. \A d \in Threads \ {c} : stack'[d] = stack[d]
      BY <3>1 DEF IInv, Control
    <3>3. ~Flushing(stack[c])
      BY <3>1 DEF Flushing
    <3> QED BY <2>2, <3>1, <3>2, <3>3 DEF link
  <2>4. CASE Lose
    BY <2>2, <2>4 DEF Lose, T!Lose, control
  <2>5. CASE UNCHANGED vars
    BY <2>2, <2>5 DEF vars, link, control
  <2> QED BY <2>1, <2>3, <2>4, <2>5 DEF Next, Done
<1> QED BY Inductive, LinkInductive, <1>1, <1>2, PTL DEF Spec

\* A query returns the answer to its own command, whatever timed out before it
\* (docs/safety.md), if a clear leaves nothing on the line; or, on a line that keeps an
\* answer through a clear, if the flush read that follows waits for it and no thread
\* calls recover() beside another's query.
THEOREM AnswersAreOwn == Cleared => (Spec => []OwnAnswersOnly)
<1>1. Fresh => OwnAnswersOnly
  BY DEF Fresh
<1> QED BY AlwaysFresh, <1>1, PTL
-----------------------------------------------------------------------------
(* The driver as an implementation of the exchange without strays.  The    *)
(* transport implements the exchange with them (L!ExchangeStep); a driver  *)
(* whose answers are its own uses none, and it asks only inside query().   *)

\* Only query() asks: the thread that asked is the one that waits.
LEMMA AskersWait == ASSUME L!TypeOK, [L!Next]_(L!vars) PROVE asked' = asked \/ holder' # Nobody
<1> USE LinkAssumption DEF L!TransportAssumption
<1>1. ASSUME NEW c \in Threads, L!Call(c) PROVE asked' = asked \/ holder' # Nobody
  BY <1>1 DEF L!Call, L!OpenOk, L!OpenFails, L!Close, L!Refuse, L!WriteCommand, L!WriteQuestion,
       L!WriteRaw, L!QuerySend, L!QueryReply, L!QueryFails, L!ReadRawOk, L!ReadRawFails,
       L!ClearOk, L!ClearFails
<1>2. CASE L!Lose BY <1>2 DEF L!Lose
<1>3. CASE UNCHANGED L!vars BY <1>3 DEF L!vars
<1> QED BY <1>1, <1>2, <1>3 DEF L!Next

\* A step of the exchange that leaves no answer but a caller's own is one without strays.
LEMMA StrictStep ==
  ASSUME L!IInv, L!TypeOK', OwnAnswersOnly', [Next]_vars
  PROVE  [Strict!Next]_(Strict!vars)
<1>1. [L!Next]_(L!vars) /\ [L!Abstract!Next]_(L!Abstract!vars)
  BY LinkMoves, LinkAssumption, L!ExchangeStep DEF L!IInv
<1>2. CASE UNCHANGED L!Abstract!vars
  BY <1>2 DEF L!Abstract!vars, Strict!vars
<1>3. ASSUME NEW c \in Threads, L!Abstract!Ask(c) PROVE Strict!Ask(c)
  BY <1>3 DEF L!Abstract!Ask, Strict!Ask
<1>4. ASSUME NEW c \in Threads, L!Abstract!Answer(c) PROVE Strict!Answer(c)
  <2>1. PICK a : result' = [result EXCEPT ![c].kind = "answer", ![c].answer = a]
    BY <1>4 DEF L!Abstract!Answer
  <2>2. /\ result'[c].kind = "answer" /\ result'[c].answer = a
        /\ result'[c].question = result[c].question
    BY <2>1 DEF L!IInv, L!TypeOK, L!Outcomes
  <2>3. a = result[c].question
    BY <2>2 DEF OwnAnswersOnly
  <2> QED BY <1>4, <2>1, <2>3 DEF L!Abstract!Answer, Strict!Answer
<1>5. ASSUME NEW c \in Threads, L!Abstract!Fail(c) PROVE Strict!Fail(c)
  BY <1>5 DEF L!Abstract!Fail, Strict!Fail, L!Abstract!NoAnswer, Strict!NoAnswer,
       L!Abstract!Others, Strict!Others
<1>6. ASSUME NEW c \in Threads, L!Abstract!Other(c) PROVE Strict!Other(c)
  BY <1>6 DEF L!Abstract!Other, Strict!Other, L!Abstract!NoAnswer, Strict!NoAnswer,
       L!Abstract!Others, Strict!Others
<1>7. ASSUME NEW c \in Threads, L!Abstract!Unblock(c) PROVE Strict!Unblock(c)
  BY <1>7 DEF L!Abstract!Unblock, Strict!Unblock, L!Abstract!NoAnswer, Strict!NoAnswer,
       L!Abstract!Others, Strict!Others
<1>8. ASSUME NEW c \in Threads, L!Abstract!AskUnheard(c) PROVE FALSE
  <2>1. holder' = Nobody /\ asked' = asked + 1 /\ asked \in Nat
    BY <1>8 DEF L!Abstract!AskUnheard, L!IInv, L!TypeOK
  <2> QED BY <1>1, <2>1, AskersWait DEF L!IInv
<1> QED
  BY <1>1, <1>2, <1>3, <1>4, <1>5, <1>6, <1>7, <1>8 DEF L!Abstract!Next, Strict!Next

\* For any number of threads, retries, drains and calls, the driver is an exchange that
\* hands out a thread's own answer or a failure, and asks nothing after a failure before
\* a recovery (query(), _transport_recover(), recover()), where AnswersAreOwn holds.
THEOREM DriverIsStrict == Cleared => (Spec => ImplementsStrictExchange)
<1> SUFFICES ASSUME Cleared PROVE Spec => ImplementsStrictExchange
  OBVIOUS
<1>1. Init => Strict!Init
  BY DEF Init, Strict!Init, T!Outcome
<1>2. L!IInv /\ L!IInv' /\ Fresh' /\ [Next]_vars => [Strict!Next]_(Strict!vars)
  BY StrictStep DEF L!IInv, Fresh
<1> QED BY AlwaysFresh, LinkInductive, <1>1, <1>2, PTL DEF Spec, Strict!Spec, ImplementsStrictExchange
-----------------------------------------------------------------------------
(* What a state that says "ready" means.                                   *)

\* A step after which the thread is at the end of a READ? that went well.
Reads(c) == HasRead(stack'[c]) /\ raised'[c] = "ok"

LEMMA GotoNoRead ==
  ASSUME IInv, NEW c \in Threads, NEW op, NEW from, At(c, op, from),
         NEW step \in StepsOf[op], Goto(c, step),
         op # "read_once" \/ step \notin {"read", "end"}
  PROVE  ~HasRead(stack'[c])
<1>1. stack[c] # <<>> /\ Len(stack[c]) \in Nat \ {0} /\ Top(c).op = op /\ op \in OpKinds
  BY AtIs
<1>2. step \in Steps
  BY <1>1 DEF Steps
<1>3. \E t : Stepped(Top(c), t, step) /\ Replaced(stack[c], stack'[c], t)
  BY <1>1, <1>2, GotoIs DEF IInv
<1> QED BY <1>1, <1>3 DEF Stepped, Replaced, HasRead

LEMMA EnterNoRead ==
  ASSUME NEW c \in Threads, IInv, NEW n, NEW t, n.op # "read_once",
         stack' = [stack EXCEPT ![c] = <<n, t>> \o Tail(@)], stack[c] # <<>>
  PROVE  ~HasRead(stack'[c])
<1>1. stack \in [Threads -> Seq(Activations)] /\ stack[c] \in Seq(Activations)
  BY DEF IInv, Control
<1>2. Len(stack[c]) \in Nat \ {0}
  BY <1>1, EmptySeq
<1>3. Tail(stack[c]) \in Seq(Activations)
  BY <1>1, <1>2
<1> DEFINE y == Tail(stack[c])
           x == <<n, t>>
<1>4. x \in Seq({n, t}) /\ Len(x) = 2 /\ x[1] = n
  OBVIOUS
<1> HIDE DEF x, y
<1>5. x \in Seq(Activations \cup {n, t}) /\ y \in Seq(Activations \cup {n, t}) /\ Len(y) \in Nat
  BY <1>1, <1>2, <1>3 DEF x, y
<1>6. (x \o y)[1] = n
  <2>1. \A i \in 1..(Len(x) + Len(y)) :
          (x \o y)[i] = IF i <= Len(x) THEN x[i] ELSE y[i - Len(x)]
    BY <1>5, ConcatProperties
  <2> QED BY <1>4, <1>5, <2>1
<1>7. stack'[c] = x \o y
  BY <1>1 DEF x, y
<1> QED BY <1>6, <1>7 DEF HasRead

LEMMA LeaveNoRead ==
  ASSUME IInv, NEW c \in Threads, NEW op, NEW from, At(c, op, from), op # "query",
         NEW how, Leave(c, how)
  PROVE  ~HasRead(stack'[c])
<1> SUFFICES ASSUME HasRead(stack'[c]) PROVE FALSE
  OBVIOUS
<1>1. /\ stack[c] # <<>> /\ Len(stack[c]) \in Nat \ {0} /\ Top(c) = stack[c][1]
      /\ Sound(Top(c)) /\ Top(c).op = op /\ Top(c).step = from
  BY AtIs
<1>2. Popped(stack[c], stack'[c])
  BY <1>1, LeaveIs DEF IInv, Leave
<1>3. 1 \in 1..(Len(stack[c]) - 1) /\ stack'[c][1] = stack[c][1 + 1]
  BY <1>1, <1>2 DEF Popped, HasRead
<1>4. CalledBy(stack[c][1], stack[c][1 + 1])
  BY <1>3 DEF IInv, Control, Shape
<1> QED BY <1>1, <1>3, <1>4 DEF CalledBy, CalledAt, HasRead

LEMMA TakeNoRead ==
  ASSUME IInv, NEW c \in Threads, stack[c] # <<>>, NEW step \in {"send", "arm"},
         NEW left \in Nat, Take(c, step, left)
  PROVE  ~HasRead(stack'[c])
<1>1. step \in Steps
  BY DEF Steps, StepsOf, OpKinds
<1>2. \E t : t.step = step /\ Replaced(stack[c], stack'[c], t)
  BY <1>1, TakeIs DEF IInv
<1> QED BY <1>2 DEF Replaced, HasRead

LEMMA CatchReads ==
  ASSUME IInv, NEW c \in Threads, NEW from, At(c, "read_once", from), NEW how,
         MeasureCatch(c, how), Reads(c)
  PROVE  how = "ok"
<1>1. CASE Enter(c, "recovered", RecoverCall(TRUE))
  <2> DEFINE n == RecoverCall(TRUE)
             t == [Top(c) EXCEPT !.step = "recovered"]
  <2>1. n.op # "read_once"
    <3>1. n.op = "transport_recover"
      BY InnerCallIs
    <3> HIDE DEF n
    <3> QED BY <3>1
  <2>2. stack[c] # <<>>
    BY AtIs
  <2>3. stack' = [stack EXCEPT ![c] = <<n, t>> \o Tail(@)]
    BY <1>1 DEF Enter
  <2> HIDE DEF n, t
  <2> QED BY <2>1, <2>2, <2>3, EnterNoRead DEF Reads
<1>2. CASE raised' = [raised EXCEPT ![c] = how]
  BY <1>2 DEF Reads, IInv, Globals
<1> QED BY <1>1, <1>2 DEF MeasureCatch

\* Only a reply, or the step after it, gets there.
LEMMA ReadsIs ==
  ASSUME IInv, NEW c \in Threads, Step(c), Reads(c)
  PROVE  QueryReply(c) \/ (MeasureRead(c) /\ raised[c] = "ok")
<1> SUFFICES ASSUME ~QueryReply(c) PROVE MeasureRead(c) /\ raised[c] = "ok"
  OBVIOUS
<1> USE DEF Reads
<1>1. ASSUME NEW how, how # "ok", Leave(c, how) PROVE FALSE
  BY <1>1 DEF Leave, IInv, Globals
<1>2. ASSUME NEW op \in OpKinds, op # "query", NEW from, At(c, op, from),
             NEW how, Leave(c, how)
      PROVE  FALSE
  BY <1>2, LeaveNoRead
<1>3. ASSUME NEW op \in OpKinds \ {"read_once"}, NEW from, At(c, op, from),
             NEW step \in StepsOf[op], Goto(c, step)
      PROVE  FALSE
  BY <1>3, GotoNoRead
<1>5. /\ QueryCall("*TST?").op = "query" /\ QueryCall("READ?").op = "query"
      /\ QueryCall("SYST:ERR?").op = "query"
      /\ RecoverCall(TRUE).op = "transport_recover"
      /\ RecoverCall(FALSE).op = "transport_recover"
  <2>1. {"*TST?", "READ?", "SYST:ERR?"} \subseteq Commands
    BY DEF Commands
  <2> QED BY <2>1, InnerCallIs
<1>6. /\ {"query", "write", "read_once", "recover", "self_test", "transport_recover"} = OpKinds
      /\ {"wait", "resend"} \subseteq StepsOf["query"]
      /\ {"clear", "shorten", "flush", "undecodable", "restore", "remote", "drain", "end"}
           \subseteq StepsOf["transport_recover"]
      /\ {"reconfigure", "arm", "recovered"} \subseteq StepsOf["read_once"]
  BY DEF OpKinds, StepsOf
<1>7. CASE QueryBegin(c)
  <2>1. Take(c, "send", IF ShouldRetry(Top(c).cmd) THEN MaxRetries ELSE 0) /\ stack[c] # <<>>
    BY <1>7 DEF QueryBegin, At
  <2>2. (IF ShouldRetry(Top(c).cmd) THEN MaxRetries ELSE 0) \in Nat
    BY RecoveryAssumption
  <2> QED BY <2>1, <2>2, TakeNoRead
<1>8. CASE QuerySend(c)
  <2>1. PICK from \in {"send", "resend"} : At(c, "query", from)
    BY <1>8 DEF QuerySend
  <2> QED BY <1>3, <1>6, <1>8, <2>1 DEF QuerySend
<1>9. CASE QueryRefused(c) BY <1>1, <1>9 DEF QueryRefused
<1>10. CASE QueryTimeout(c)
  <2>1. CASE Leave(c, "timeout") BY <1>1, <2>1
  <2>2. CASE Top(c).left # 0
    <3> DEFINE n == RecoverCall(FALSE)
               t == [Top(c) EXCEPT !.step = "retry", !.left = Top(c).left - 1]
    <3>1. stack' = [stack EXCEPT ![c] = <<n, t>> \o Tail(@)] /\ stack[c] # <<>>
      BY <1>10, <2>2 DEF QueryTimeout, At
    <3>2. n.op = "transport_recover"
      BY <1>5
    <3> HIDE DEF n, t
    <3> QED
      <4>1. n.op # "read_once"
        BY <3>2
      <4> QED BY <3>1, <4>1, EnterNoRead
  <2> QED BY <1>10, <2>1, <2>2 DEF QueryTimeout
<1>11. CASE QueryError(c) BY <1>1, <1>11 DEF QueryError
<1>12. CASE QueryEscapes(c) BY <1>1, <1>12 DEF QueryEscapes
<1>13. CASE QueryRetry(c)
  <2>1. CASE Goto(c, "resend") BY <1>3, <1>6, <1>13, <2>1 DEF QueryRetry
  <2> QED BY <1>1, <1>13, <2>1 DEF QueryRetry
<1>14. CASE Write(c)
  <2>1. PICK how : Leave(c, how)
    BY <1>14 DEF Write
  <2> QED BY <1>2, <1>6, <1>14, <2>1 DEF Write
<1>15. CASE RecoverBegin(c) BY <1>3, <1>6, <1>15 DEF RecoverBegin
<1>16. CASE RecoverClear(c) BY <1>3, <1>6, <1>16 DEF RecoverClear
<1>17. ASSUME NEW how \in Failure, RecoverClearFails(c, how) PROVE FALSE
  BY <1>2, <1>6, <1>17 DEF RecoverClearFails
<1>18. CASE RecoverShorten(c) BY <1>3, <1>6, <1>18 DEF RecoverShorten
<1>19. CASE RecoverFlush(c)
  <2>1. PICK step \in {"restore", "undecodable"} : Goto(c, step)
    BY <1>19 DEF RecoverFlush
  <2> QED BY <1>3, <1>6, <1>19, <2>1 DEF RecoverFlush
<1>20. CASE RecoverEscapes(c) BY <1>2, <1>6, <1>20 DEF RecoverEscapes
<1>21. CASE RecoverRestore(c)
  <2>1. PICK step \in {"remote", "drain", "end"} : Goto(c, step)
    BY <1>21 DEF RecoverRestore
  <2> QED BY <1>3, <1>6, <1>21, <2>1 DEF RecoverRestore
<1>22. CASE RecoverRemote(c)
  <2>1. PICK step \in {"drain", "end"} : Goto(c, step)
    BY <1>22 DEF RecoverRemote
  <2> QED BY <1>3, <1>6, <1>22, <2>1 DEF RecoverRemote
<1>23. CASE RecoverDrain(c)
  <2> DEFINE n == QueryCall("SYST:ERR?")
             t == [Top(c) EXCEPT !.step = "drained", !.left = Top(c).left + 1]
  <2>1. stack' = [stack EXCEPT ![c] = <<n, t>> \o Tail(@)] /\ stack[c] # <<>>
    BY <1>23 DEF RecoverDrain, At
  <2>2. n.op = "query"
    BY <1>5
  <2> HIDE DEF n, t
  <2> QED
    <3>1. n.op # "read_once"
      BY <2>2
    <3> QED BY <2>1, <3>1, EnterNoRead
<1>24. CASE RecoverDrained(c)
  <2>1. PICK step \in {"drain", "end"} : Goto(c, step)
    BY <1>24 DEF RecoverDrained
  <2> QED BY <1>3, <1>6, <1>24, <2>1 DEF RecoverDrained
<1>25. CASE RecoverDrainEscapes(c) BY <1>2, <1>6, <1>25 DEF RecoverDrainEscapes
<1>26. CASE RecoverEnd(c) BY <1>2, <1>6, <1>26 DEF RecoverEnd
<1>27. CASE RecoverApiBegin(c)
  <2> DEFINE n == RecoverCall(TRUE)
             t == [Top(c) EXCEPT !.step = "recovered"]
  <2>1. stack' = [stack EXCEPT ![c] = <<n, t>> \o Tail(@)] /\ stack[c] # <<>>
    BY <1>27 DEF RecoverApiBegin, Enter, At
  <2>2. n.op = "transport_recover"
    BY <1>5
  <2> HIDE DEF n, t
  <2> QED
    <3>1. n.op # "read_once"
      BY <2>2
    <3> QED BY <2>1, <3>1, EnterNoRead
<1>28. CASE RecoverApiFails(c)
  <2>1. PICK how : Leave(c, how)
    BY <1>28 DEF RecoverApiFails
  <2> QED BY <1>2, <1>6, <1>28, <2>1 DEF RecoverApiFails
<1>29. CASE RecoverApiPlain(c) BY <1>2, <1>6, <1>29 DEF RecoverApiPlain
<1>30. CASE RecoverApiReconfigure(c) BY <1>2, <1>6, <1>30 DEF RecoverApiReconfigure
<1>31. CASE SelfTestBegin(c)
  <2> DEFINE n == QueryCall("*TST?")
             t == [Top(c) EXCEPT !.step = "end"]
  <2>1. stack' = [stack EXCEPT ![c] = <<n, t>> \o Tail(@)] /\ stack[c] # <<>>
    BY <1>31 DEF SelfTestBegin, Enter, At
  <2>2. n.op = "query"
    BY <1>5
  <2> HIDE DEF n, t
  <2> QED
    <3>1. n.op # "read_once"
      BY <2>2
    <3> QED BY <2>1, <3>1, EnterNoRead
<1>32. CASE SelfTestEnd(c) BY <1>2, <1>6, <1>32 DEF SelfTestEnd
<1>33. CASE MeasureRefused(c) BY <1>2, <1>6, <1>33 DEF MeasureRefused
<1>34. CASE MeasureBegin(c)
  <2>1. Take(c, "arm", 0) /\ stack[c] # <<>>
    BY <1>34 DEF MeasureBegin, At
  <2> QED BY <2>1, TakeNoRead
<1>35. CASE MeasureArm(c)
  <2>1. CASE Enter(c, "read", QueryCall("READ?"))
    <3> DEFINE n == QueryCall("READ?")
               t == [Top(c) EXCEPT !.step = "read"]
    <3>1. stack' = [stack EXCEPT ![c] = <<n, t>> \o Tail(@)] /\ stack[c] # <<>>
      BY <1>35, <2>1 DEF MeasureArm, Enter, At
    <3>2. n.op = "query"
      BY <1>5
    <3> HIDE DEF n, t
    <3> QED
      <4>1. n.op # "read_once"
        BY <3>2
      <4> QED BY <3>1, <4>1, EnterNoRead
  <2>2. ASSUME NEW how \in {"timeout", "error"}, MeasureCatch(c, how) PROVE FALSE
    BY <1>35, <2>2, CatchReads DEF MeasureArm
  <2> QED BY <1>35, <2>1, <2>2 DEF MeasureArm
<1>36. CASE MeasureRead(c)
  BY <1>36, CatchReads DEF MeasureRead
<1>37. CASE MeasureRecovered(c)
  <2>1. raised[c] = "ok"
    BY <1>37 DEF MeasureRecovered
  <2>2. At(c, "read_once", "recovered") /\ Goto(c, "reconfigure")
    BY <1>37, <2>1 DEF MeasureRecovered
  <2> QED BY <1>6, <2>2, GotoNoRead
<1>38. CASE MeasureReconfigure(c)
  <2>1. CASE stack' = [stack EXCEPT ![c][1] = [@ EXCEPT !.step = "arm", !.left = 1]]
    <3> DEFINE t == [Top(c) EXCEPT !.step = "arm", !.left = 1]
    <3>1. stack[c] # <<>> /\ Top(c) \in Activations
      BY <1>38, AtIs DEF MeasureReconfigure
    <3>2. "arm" \in Steps /\ 1 \in Nat
      BY <1>6 DEF Steps
    <3>3. Changed(Top(c), t, "arm", 1)
      BY <3>1, <3>2, ChangedIs
    <3>4. stack' = [stack EXCEPT ![c] = [@ EXCEPT ![1] = t]]
      BY <2>1 DEF Top
    <3> HIDE DEF t
    <3>5. t \in Activations /\ t.step = "arm"
      BY <3>3 DEF Changed, SameCall
    <3>6. Replaced(stack[c], stack'[c], t)
      BY <3>1, <3>4, <3>5, ReplacedIs DEF IInv
    <3> QED BY <3>5, <3>6 DEF Replaced, HasRead
  <2>2. ASSUME NEW how \in {"timeout", "error"}, raised' = [raised EXCEPT ![c] = how] PROVE FALSE
    BY <2>2 DEF IInv, Globals
  <2> QED BY <1>38, <2>1, <2>2 DEF MeasureReconfigure
<1>39. CASE MeasureEnd(c) BY <1>2, <1>6, <1>39 DEF MeasureEnd
<1> QED
  BY <1>7, <1>8, <1>9, <1>10, <1>11, <1>12, <1>13, <1>14, <1>15, <1>16, <1>17,
     <1>18, <1>19, <1>20, <1>21, <1>22, <1>23, <1>24, <1>25, <1>26, <1>27, <1>28,
     <1>29, <1>30, <1>31, <1>32, <1>33, <1>34, <1>35, <1>36, <1>37, <1>38, <1>39 DEF Step
\* The flag and the state, step by step: the flag goes up with a question only, and the
\* state becomes ready where the flag is down.
LEMMA FlagIs ==
  ASSUME NEW c, unread \in BOOLEAN
  PROVE  /\ Sent(c) => ~unread /\ unread' = unread
         /\ \A how : NotSent(c, how) => unread' = unread
         /\ T!Refuse(c) => unread' = unread
         /\ \A how : T!QueryFails(c, how) => unread' = unread
         /\ T!QueryReply(c) => ~unread'
         /\ T!ClearOk(c) => ~unread'
         /\ \A how : T!ClearFails(c, how) => unread' = unread
         /\ T!ReadRawOk(c) => ~unread'
         /\ \A how : T!ReadRawFails(c, how) => unread' = unread
BY DEF Sent, NotSent, T!WriteCommand, T!Refuse, T!QueryFails, T!QueryReply, T!ClearOk,
       T!ClearFails, T!ReadRawOk, T!ReadRawFails

LEMMA NoRecover ==
  ASSUME IInv, NEW c \in Threads, NEW step, "recover" \notin Ops
  PROVE  ~At(c, "recover", step)
<1> SUFFICES ASSUME At(c, "recover", step) PROVE FALSE
  OBVIOUS
<1>1. Len(stack[c]) \in Nat \ {0} /\ stack[c][1].op = "recover"
  BY AtIs
<1>2. Shape(stack[c])
  BY DEF IInv, Control
<1>3. CASE Len(stack[c]) = 1
  BY <1>1, <1>2, <1>3 DEF Shape, Public
<1>4. CASE Len(stack[c]) # 1
  <2>1. 1 \in 1..(Len(stack[c]) - 1)
    <3>1. \A n \in Nat \ {0} : n # 1 => 1 \in 1..(n - 1)
      OBVIOUS
    <3> QED BY <1>1, <1>4, <3>1
  <2>2. CalledBy(stack[c][1], stack[c][1 + 1])
    BY <1>2, <2>1 DEF Shape
  <2> QED BY <1>1, <2>2 DEF CalledBy, CalledAt
<1> QED BY <1>3, <1>4

LEMMA FlagStep ==
  ASSUME IInv, L!IInv, Ready, NEW c \in Threads, Step(c), "recover" \notin Ops
  PROVE  /\ unread' => unread \/ QuerySend(c)
         /\ unread' => state' \notin Usable
<1>0. unread \in BOOLEAN /\ (unread => state \notin Usable)
  BY DEF L!IInv, L!TypeOK, Ready
<1> USE DEF Usable
<1> DEFINE Goal == (unread' => unread \/ QuerySend(c)) /\ (unread' => state' \notin Usable)
<1>1. CASE QuerySend(c)
  BY <1>1 DEF QuerySend
<1>2. CASE QueryReply(c)
  BY <1>0, <1>2, FlagIs DEF QueryReply
<1>3. CASE RecoverApiPlain(c) \/ RecoverApiReconfigure(c)
  BY <1>3, NoRecover DEF RecoverApiPlain, RecoverApiReconfigure
<1>4. CASE MeasureReconfigure(c)
  <2>1. CASE Sent(c)
    BY <1>0, <2>1, FlagIs
  <2>2. ASSUME NEW how, NotSent(c, how), state' = "ERROR_RECOVERY" PROVE Goal
    <3>1. unread' = unread
      BY <1>0, <2>2, FlagIs
    <3> QED BY <1>0, <2>2, <3>1
  <2> QED BY <1>4, <2>1, <2>2 DEF MeasureReconfigure
<1>5. CASE MeasureEnd(c)
  <2>1. stack[c] # <<>> /\ Len(stack[c]) \in Nat \ {0} /\ Top(c) = stack[c][1]
        /\ Top(c).op = "read_once" /\ Top(c).step = "end"
    BY <1>5, AtIs DEF MeasureEnd
  <2>2. raised[c] = "ok" => ~unread
    BY <2>1 DEF Ready, HasRead
  <2>3. unread' = unread /\ state' = IF raised[c] = "ok" THEN "CONNECTED_REMOTE" ELSE state
    BY <1>5 DEF MeasureEnd, link
  <2>4. CASE raised[c] = "ok"
    BY <2>2, <2>3, <2>4
  <2>5. CASE raised[c] # "ok"
    BY <1>0, <2>3, <2>5
  <2> QED BY <2>4, <2>5
<1>6. CASE QueryBegin(c) BY <1>0, <1>6 DEF QueryBegin, link
<1>7. CASE QueryRefused(c) BY <1>0, <1>7, FlagIs DEF QueryRefused
<1>8. CASE QueryTimeout(c)
  <2>1. T!QueryFails(c, "timeout") /\ state' = "ERROR_RECOVERY"
    BY <1>8 DEF QueryTimeout
  <2> QED BY <1>0, <2>1, FlagIs
<1>9. CASE QueryError(c) BY <1>0, <1>9, FlagIs DEF QueryError
<1>10. CASE QueryEscapes(c) BY <1>0, <1>10, FlagIs DEF QueryEscapes
<1>11. CASE QueryRetry(c) BY <1>0, <1>11 DEF QueryRetry, link, driver
<1>12. CASE Write(c) BY <1>0, <1>12, FlagIs DEF Write, link
<1>13. CASE RecoverBegin(c) BY <1>0, <1>13 DEF RecoverBegin, link
<1>14. CASE RecoverClear(c) BY <1>0, <1>14, FlagIs DEF RecoverClear, link, driver
<1>15. ASSUME NEW how \in Failure, RecoverClearFails(c, how) PROVE Goal
  BY <1>0, <1>15, FlagIs DEF RecoverClearFails
<1>16. CASE RecoverShorten(c) BY <1>0, <1>16 DEF RecoverShorten, link
<1>17. CASE RecoverFlush(c) BY <1>0, <1>17, FlagIs DEF RecoverFlush, link, driver
<1>18. CASE RecoverEscapes(c) BY <1>0, <1>18 DEF RecoverEscapes, link
<1>19. CASE RecoverRestore(c) BY <1>0, <1>19 DEF RecoverRestore, link
<1>20. CASE RecoverRemote(c) BY <1>0, <1>20, FlagIs DEF RecoverRemote, link, driver
<1>21. CASE RecoverDrain(c) BY <1>0, <1>21 DEF RecoverDrain, link, driver
<1>22. CASE RecoverDrained(c) BY <1>0, <1>22 DEF RecoverDrained, link, driver
<1>23. CASE RecoverDrainEscapes(c) BY <1>0, <1>23 DEF RecoverDrainEscapes, link
<1>24. CASE RecoverEnd(c) BY <1>0, <1>24 DEF RecoverEnd, link
<1>25. CASE RecoverApiBegin(c) BY <1>0, <1>25 DEF RecoverApiBegin, link, driver
<1>26. CASE RecoverApiFails(c) BY <1>0, <1>26 DEF RecoverApiFails, link
<1>27. CASE SelfTestBegin(c) BY <1>0, <1>27 DEF SelfTestBegin, link
<1>28. CASE SelfTestEnd(c) BY <1>0, <1>28 DEF SelfTestEnd, link
<1>29. CASE MeasureRefused(c) BY <1>0, <1>29 DEF MeasureRefused, link
<1>30. CASE MeasureBegin(c) BY <1>0, <1>30 DEF MeasureBegin, link
<1>31. CASE MeasureArm(c) BY <1>0, <1>31, FlagIs DEF MeasureArm, link
<1>32. CASE MeasureRead(c) BY <1>0, <1>32 DEF MeasureRead, link, driver
<1>33. CASE MeasureRecovered(c) BY <1>0, <1>33 DEF MeasureRecovered, link
<1> QED
  BY <1>1, <1>2, <1>3, <1>4, <1>5, <1>6, <1>7, <1>8, <1>9, <1>10, <1>11, <1>12,
     <1>13, <1>14, <1>15, <1>16, <1>17, <1>18, <1>19, <1>20, <1>21, <1>22,
     <1>23, <1>24, <1>25, <1>26, <1>27, <1>28, <1>29, <1>30, <1>31, <1>32, <1>33
     DEF Step

LEMMA ReadyStep ==
  ASSUME IInv, L!IInv, Ready, NEW c \in Threads, Step(c), "recover" \notin Ops
  PROVE  Ready'
<1>1. unread' => unread \/ QuerySend(c)
  BY FlagStep
<1>2. unread' => state' \notin Usable
  BY FlagStep
<1>3. ASSUME NEW d \in Threads, HasRead(stack'[d]), raised'[d] = "ok" PROVE ~unread'
  <2>1. CASE d = c
    <3>1. QueryReply(c) \/ (MeasureRead(c) /\ raised[c] = "ok")
      BY <1>3, <2>1, ReadsIs DEF Reads
    <3>2. CASE QueryReply(c)
      BY <3>2, FlagIs DEF QueryReply, L!IInv, L!TypeOK
    <3>3. CASE MeasureRead(c) /\ raised[c] = "ok"
      <4>1. Len(stack[c]) \in Nat \ {0} /\ Top(c) = stack[c][1]
            /\ Top(c).op = "read_once" /\ Top(c).step = "read"
        BY <3>3, AtIs DEF MeasureRead
      <4>2. ~unread
        BY <3>3, <4>1 DEF Ready, HasRead
      <4> QED BY <3>3, <4>2 DEF MeasureRead, link
    <3> QED BY <3>1, <3>2, <3>3
  <2>2. CASE d # c
    <3>1. stack'[d] = stack[d] /\ raised'[d] = raised[d]
      BY <2>2, StepIsOwn
    <3>2. ~unread
      BY <1>3, <3>1 DEF Ready
    <3>3. ASSUME QuerySend(c) PROVE FALSE
      <4>1. PICK step \in {"send", "resend"} : At(c, "query", step)
        BY <3>3 DEF QuerySend
      <4>2. stack[d] \in Seq(Activations)
        BY DEF IInv, Control
      <4>3. 1 \in 1..Len(stack[d]) /\ Needs(stack[d][1])
        BY <1>3, <3>1, <4>2 DEF HasRead, Needs
      <4> QED BY <2>2, <4>1, <4>3, Exclusive
    <3> QED BY <1>1, <3>2, <3>3
  <2> QED BY <2>1, <2>2
<1> QED BY <1>2, <1>3 DEF Ready, HasRead

\* Without recover(), whose error-queue drain may swallow a timeout, a driver between two
\* calls that says it is ready is ready: the transport does not refuse the next command
\* (_state and _has_unread_output).
THEOREM ReadyIsUnblocked == "recover" \notin Ops => (Spec => []ReadyMeansUnblocked)
<1> SUFFICES ASSUME "recover" \notin Ops PROVE Spec => []ReadyMeansUnblocked
  OBVIOUS
<1>1. Init => Ready
  <2> SUFFICES ASSUME Init PROVE Ready
    OBVIOUS
  <2>1. \A c \in Threads : stack[c] = <<>>
    BY DEF Init
  <2>2. \A c \in Threads : ~HasRead(stack[c])
    BY <2>1 DEF HasRead
  <2> QED BY <2>2 DEF Init, Ready
<1>2. IInv /\ L!IInv /\ Ready /\ [Next]_vars => Ready'
  <2> SUFFICES ASSUME IInv, L!IInv, Ready, [Next]_vars PROVE Ready'
    OBVIOUS
  <2>1. ASSUME NEW c \in Threads, Step(c) PROVE Ready'
    BY <2>1, ReadyStep
  <2>2. ASSUME NEW c \in Threads, NEW op \in Ops, Call(c, op) PROVE Ready'
    <3> DEFINE n == Begin(c, op)
    <3>1. stack' = [stack EXCEPT ![c] = <<n>>] /\ UNCHANGED <<unread, state, raised>>
      BY <2>2 DEF Call, link, driver
    <3>2. n.step \in {"lock", "begin"}
      BY BeginIs
    <3> HIDE DEF n
    <3>3. stack'[c] = <<n>> /\ \A d \in Threads \ {c} : stack'[d] = stack[d]
      BY <3>1 DEF IInv, Control
    <3>4. ~HasRead(stack'[c])
      BY <3>2, <3>3 DEF HasRead
    <3> QED BY <3>1, <3>3, <3>4 DEF Ready, HasRead
  <2>3. CASE Lose
    BY <2>3 DEF Lose, T!Lose, driver, control, Ready, HasRead
  <2>4. CASE UNCHANGED vars
    BY <2>4 DEF vars, link, driver, control, Ready, HasRead
  <2> QED BY <2>1, <2>2, <2>3, <2>4 DEF Next, Done
<1>3. Ready => ReadyMeansUnblocked
  BY DEF Ready, ReadyMeansUnblocked
<1> QED BY Inductive, LinkInductive, <1>1, <1>2, <1>3, PTL DEF Spec
-----------------------------------------------------------------------------
(* The timeout of a reading.                                               *)

\* No reading begins with this step of the thread.
Old(c) ==
  \A i \in 1..Len(stack'[c]) :
    Reading(stack'[c][i]) => \E j \in 1..Len(stack[c]) : Reading(stack[c][j])

LEMMA ReplacedOld ==
  ASSUME IInv, NEW c \in Threads, stack[c] # <<>>, NEW t, Replaced(stack[c], stack'[c], t),
         Reading(t) => Reading(Top(c))
  PROVE  Old(c)
<1>1. Len(stack[c]) \in Nat \ {0} /\ Top(c) = stack[c][1]
  BY TopIs DEF IInv
<1>2. /\ Len(stack'[c]) = Len(stack[c]) /\ stack'[c][1] = t
      /\ \A i \in 2..Len(stack[c]) : stack'[c][i] = stack[c][i]
  BY DEF Replaced
<1>3. 1 \in 1..Len(stack[c]) /\ \A i \in 1..Len(stack[c]) : i = 1 \/ i \in 2..Len(stack[c])
  BY <1>1
<1> QED BY <1>1, <1>2, <1>3 DEF Old

LEMMA GotoOld ==
  ASSUME IInv, NEW c \in Threads, NEW op, NEW from, At(c, op, from),
         NEW step \in StepsOf[op], Goto(c, step),
         op # "read_once" \/ step \notin {"arm", "read", "reconfigure"}
  PROVE  Old(c)
<1>1. stack[c] # <<>> /\ Top(c).op = op /\ op \in OpKinds
  BY AtIs
<1>2. step \in Steps
  BY <1>1 DEF Steps
<1>3. \E t : Stepped(Top(c), t, step) /\ Replaced(stack[c], stack'[c], t)
  BY <1>1, <1>2, GotoIs DEF IInv
<1>4. PICK t : Stepped(Top(c), t, step) /\ Replaced(stack[c], stack'[c], t)
  BY <1>3
<1>5. ~Reading(t)
  BY <1>1, <1>4 DEF Stepped, Reading
<1> QED BY <1>1, <1>4, <1>5, ReplacedOld

LEMMA EnterOld ==
  ASSUME IInv, NEW c \in Threads, stack[c] # <<>>, NEW t \in Activations,
         NEW n \in Activations, stack' = [stack EXCEPT ![c] = <<n, t>> \o Tail(@)],
         n.op # "read_once", Reading(t) => Reading(Top(c))
  PROVE  Old(c)
<1>1. Len(stack[c]) \in Nat \ {0} /\ Top(c) = stack[c][1]
  BY TopIs DEF IInv
<1>2. Pushed(stack[c], stack'[c], n, t)
  BY PushedIs DEF IInv
<1>3. ~Reading(n)
  BY DEF Reading
<1>4. ASSUME NEW i \in 1..Len(stack'[c]), Reading(stack'[c][i])
      PROVE  \E j \in 1..Len(stack[c]) : Reading(stack[c][j])
  <2>1. i # 1
    BY <1>2, <1>3, <1>4 DEF Pushed
  <2>2. CASE i = 2
    <3>1. Reading(stack[c][1]) /\ 1 \in 1..Len(stack[c])
      BY <1>1, <1>2, <1>4, <2>2 DEF Pushed
    <3> QED BY <3>1
  <2>3. CASE i # 2
    <3>1. i \in 3..Len(stack'[c]) /\ i - 1 \in 1..Len(stack[c])
      BY <1>1, <1>2, <2>1, <2>3 DEF Pushed
    <3>2. stack'[c][i] = stack[c][i - 1]
      BY <1>2, <3>1 DEF Pushed
    <3> QED BY <1>4, <3>1, <3>2
  <2> QED BY <2>2, <2>3
<1> QED BY <1>4 DEF Old

LEMMA LeaveOld ==
  ASSUME IInv, NEW c \in Threads, stack[c] # <<>>, NEW how, Leave(c, how)
  PROVE  Old(c)
<1>1. Len(stack[c]) \in Nat \ {0}
  BY TopIs DEF IInv
<1>2. Popped(stack[c], stack'[c])
  BY LeaveIs DEF IInv, Leave
<1>3. \A i \in 1..Len(stack'[c]) : i + 1 \in 1..Len(stack[c]) /\ stack'[c][i] = stack[c][i + 1]
  BY <1>1, <1>2 DEF Popped
<1> QED BY <1>3 DEF Old

LEMMA CatchOld ==
  ASSUME IInv, NEW c \in Threads, NEW from, At(c, "read_once", from), NEW how,
         MeasureCatch(c, how)
  PROVE  Old(c)
<1>1. stack[c] # <<>> /\ Top(c) \in Activations /\ "read_once" \in OpKinds
  BY AtIs
<1>2. {"recovered", "end"} \subseteq StepsOf["read_once"] /\ "recovered" \in Steps
  BY <1>1 DEF Steps, StepsOf
<1>3. CASE Enter(c, "recovered", RecoverCall(TRUE))
  <2> DEFINE n == RecoverCall(TRUE)
             t == [Top(c) EXCEPT !.step = "recovered"]
  <2>1. n \in Activations /\ n.op = "transport_recover"
    BY InnerCallIs
  <2>2. Stepped(Top(c), t, "recovered")
    BY <1>1, <1>2, SteppedIs
  <2>3. stack' = [stack EXCEPT ![c] = <<n, t>> \o Tail(@)]
    BY <1>3 DEF Enter
  <2> HIDE DEF n, t
  <2>4. t \in Activations /\ ~Reading(t) /\ n.op # "read_once"
    BY <2>1, <2>2 DEF Stepped, Reading
  <2> QED BY <1>1, <2>1, <2>3, <2>4, EnterOld
<1>4. CASE Goto(c, "end")
  BY <1>2, <1>4, GotoOld
<1> QED BY <1>3, <1>4 DEF MeasureCatch

\* A reading begins under its own timeout.
LEMMA ReadingBegins ==
  ASSUME IInv, NEW c \in Threads, Step(c)
  PROVE  Old(c) \/ timeout' = "active"
<1>1. ASSUME NEW op, NEW from, At(c, op, from), NEW how, Leave(c, how) PROVE Old(c)
  BY <1>1, LeaveOld DEF At
<1>2. ASSUME NEW op \in OpKinds \ {"read_once"}, NEW from, At(c, op, from),
             NEW step \in StepsOf[op], Goto(c, step)
      PROVE  Old(c)
  BY <1>2, GotoOld
<1>3. ASSUME NEW op, NEW from, At(c, op, from), NEW step \in Steps, NEW n \in Activations,
             Enter(c, step, n), n.op # "read_once",
             op # "read_once" \/ (from = "arm" /\ step = "read")
      PROVE  Old(c)
  <2> DEFINE t == [Top(c) EXCEPT !.step = step]
  <2>1. stack[c] # <<>> /\ Top(c) \in Activations /\ Top(c).op = op /\ Top(c).step = from
    BY <1>3, AtIs
  <2>2. Stepped(Top(c), t, step)
    BY <2>1, SteppedIs
  <2>3. stack' = [stack EXCEPT ![c] = <<n, t>> \o Tail(@)]
    BY <1>3 DEF Enter
  <2> HIDE DEF t
  <2>4. t \in Activations /\ (Reading(t) => Reading(Top(c)))
    BY <1>3, <2>1, <2>2 DEF Stepped, Reading
  <2> QED BY <1>3, <2>1, <2>3, <2>4, EnterOld
<1>4. ASSUME NEW op \in {"query", "transport_recover"}, NEW from, At(c, op, from),
             NEW step \in Steps, NEW left, NEW t, Changed(Top(c), t, step, left),
             NEW n \in Activations, n.op # "read_once",
             stack' = [stack EXCEPT ![c] = <<n, t>> \o Tail(@)]
      PROVE  Old(c)
  <2>1. stack[c] # <<>> /\ Top(c).op = op
    BY <1>4, AtIs
  <2>2. t \in Activations /\ t.op = op
    BY <1>4, <2>1 DEF Changed, SameCall
  <2>3. ~Reading(t)
    BY <2>2 DEF Reading
  <2> QED BY <1>4, <2>1, <2>2, <2>3, EnterOld
<1>5. /\ \A cmd \in Commands : QueryCall(cmd) \in Activations /\ QueryCall(cmd).op = "query"
      /\ RecoverCall(TRUE) \in Activations /\ RecoverCall(TRUE).op = "transport_recover"
      /\ RecoverCall(FALSE) \in Activations /\ RecoverCall(FALSE).op = "transport_recover"
      /\ {"*TST?", "READ?", "SYST:ERR?"} \subseteq Commands
  BY InnerCallIs DEF Commands
<1>6. /\ {"query", "write", "read_once", "recover", "self_test", "transport_recover"} = OpKinds
      /\ {"wait", "resend"} \subseteq StepsOf["query"]
      /\ {"clear", "shorten", "flush", "undecodable", "restore", "remote", "drain", "end"}
           \subseteq StepsOf["transport_recover"]
      /\ {"reconfigure", "arm", "recovered", "end"} \subseteq StepsOf["read_once"]
      /\ {"read", "recovered", "end", "send", "arm"} \subseteq Steps
  BY DEF OpKinds, StepsOf, Steps
<1>7. CASE QueryBegin(c)
  <2> DEFINE left == IF ShouldRetry(Top(c).cmd) THEN MaxRetries ELSE 0
  <2>1. Take(c, "send", left) /\ At(c, "query", "lock")
    BY <1>7 DEF QueryBegin
  <2>2. left \in Nat
    BY RecoveryAssumption
  <2> HIDE DEF left
  <2>3. stack[c] # <<>> /\ Top(c).op = "query"
    BY <2>1, AtIs
  <2>4. \E t : SameCall(Top(c), t) /\ Replaced(stack[c], stack'[c], t)
    BY <1>6, <2>1, <2>2, <2>3, TakeIs DEF IInv
  <2>5. PICK t : SameCall(Top(c), t) /\ Replaced(stack[c], stack'[c], t)
    BY <2>4
  <2>6. ~Reading(t)
    BY <2>3, <2>5 DEF SameCall, Reading
  <2> QED BY <2>3, <2>5, <2>6, ReplacedOld
<1>8. CASE QuerySend(c)
  <2>1. PICK from \in {"send", "resend"} : At(c, "query", from)
    BY <1>8 DEF QuerySend
  <2> QED BY <1>2, <1>6, <1>8, <2>1 DEF QuerySend
<1>9. CASE QueryRefused(c)
  <2>1. PICK from \in {"send", "resend"} : At(c, "query", from)
    BY <1>9 DEF QueryRefused
  <2> QED BY <1>1, <1>9, <2>1 DEF QueryRefused
<1>10. CASE QueryTimeout(c)
  <2>1. CASE Leave(c, "timeout") BY <1>1, <1>10, <2>1 DEF QueryTimeout
  <2>2. CASE Top(c).left # 0
    <3> DEFINE t == [Top(c) EXCEPT !.step = "retry", !.left = Top(c).left - 1]
               n == RecoverCall(FALSE)
    <3>1. At(c, "query", "wait") /\ stack' = [stack EXCEPT ![c] = <<n, t>> \o Tail(@)]
      BY <1>10, <2>2 DEF QueryTimeout
    <3>2. Top(c) \in Activations
      BY <3>1, AtIs
    <3>3. "retry" \in Steps /\ Top(c).left - 1 \in Nat
      BY <2>2, <3>2 DEF Activations, Steps, StepsOf, OpKinds
    <3>4. Changed(Top(c), t, "retry", Top(c).left - 1)
      BY <3>2, <3>3, ChangedIs
    <3>5. n \in Activations /\ n.op # "read_once"
      BY <1>5
    <3> HIDE DEF n, t
    <3> QED BY <1>4, <3>1, <3>3, <3>4, <3>5
  <2> QED BY <1>10, <2>1, <2>2 DEF QueryTimeout
<1>11. CASE QueryError(c) BY <1>1, <1>11 DEF QueryError
<1>12. CASE QueryEscapes(c) BY <1>1, <1>12 DEF QueryEscapes
<1>13. CASE QueryRetry(c)
  <2>1. CASE Goto(c, "resend") BY <1>2, <1>6, <1>13, <2>1 DEF QueryRetry
  <2> QED BY <1>1, <1>13, <2>1 DEF QueryRetry
<1>14. CASE Write(c)
  <2>1. PICK how : Leave(c, how)
    BY <1>14 DEF Write
  <2> QED BY <1>1, <1>14, <2>1 DEF Write
<1>15. CASE RecoverBegin(c) BY <1>2, <1>6, <1>15 DEF RecoverBegin
<1>16. CASE RecoverClear(c) BY <1>2, <1>6, <1>16 DEF RecoverClear
<1>17. ASSUME NEW how \in Failure, RecoverClearFails(c, how) PROVE Old(c)
  BY <1>1, <1>17 DEF RecoverClearFails
<1>18. CASE RecoverShorten(c) BY <1>2, <1>6, <1>18 DEF RecoverShorten
<1>19. CASE RecoverFlush(c)
  <2>1. PICK step \in {"restore", "undecodable"} : Goto(c, step)
    BY <1>19 DEF RecoverFlush
  <2> QED BY <1>2, <1>6, <1>19, <2>1 DEF RecoverFlush
<1>20. CASE RecoverEscapes(c) BY <1>1, <1>20 DEF RecoverEscapes
<1>21. CASE RecoverRestore(c)
  <2>1. PICK step \in {"remote", "drain", "end"} : Goto(c, step)
    BY <1>21 DEF RecoverRestore
  <2> QED BY <1>2, <1>6, <1>21, <2>1 DEF RecoverRestore
<1>22. CASE RecoverRemote(c)
  <2>1. PICK step \in {"drain", "end"} : Goto(c, step)
    BY <1>22 DEF RecoverRemote
  <2> QED BY <1>2, <1>6, <1>22, <2>1 DEF RecoverRemote
<1>23. CASE RecoverDrain(c)
  <2> DEFINE t == [Top(c) EXCEPT !.step = "drained", !.left = Top(c).left + 1]
             n == QueryCall("SYST:ERR?")
  <2>1. /\ At(c, "transport_recover", "drain")
        /\ stack' = [stack EXCEPT ![c] = <<n, t>> \o Tail(@)]
    BY <1>23 DEF RecoverDrain
  <2>2. Top(c) \in Activations
    BY <2>1, AtIs
  <2>3. "drained" \in Steps /\ Top(c).left + 1 \in Nat
    BY <2>2 DEF Activations, Steps, StepsOf, OpKinds
  <2>4. Changed(Top(c), t, "drained", Top(c).left + 1)
    BY <2>2, <2>3, ChangedIs
  <2>5. n \in Activations /\ n.op # "read_once"
    BY <1>5
  <2> HIDE DEF n, t
  <2> QED BY <1>4, <2>1, <2>3, <2>4, <2>5
<1>24. CASE RecoverDrained(c)
  <2>1. PICK step \in {"drain", "end"} : Goto(c, step)
    BY <1>24 DEF RecoverDrained
  <2> QED BY <1>2, <1>6, <1>24, <2>1 DEF RecoverDrained
<1>25. CASE RecoverDrainEscapes(c) BY <1>1, <1>25 DEF RecoverDrainEscapes
<1>26. CASE RecoverEnd(c) BY <1>1, <1>26 DEF RecoverEnd
<1>27. CASE RecoverApiBegin(c)
  <2>1. At(c, "recover", "begin") /\ Enter(c, "recovered", RecoverCall(TRUE))
    BY <1>27 DEF RecoverApiBegin
  <2>2. RecoverCall(TRUE) \in Activations /\ RecoverCall(TRUE).op # "read_once"
    BY <1>5
  <2> DEFINE n == RecoverCall(TRUE)
  <2>3. At(c, "recover", "begin") /\ Enter(c, "recovered", n) /\ n \in Activations
        /\ n.op # "read_once" /\ "recovered" \in Steps
    BY <1>6, <2>1, <2>2
  <2> HIDE DEF n
  <2> QED BY <1>3, <2>3
<1>28. CASE RecoverApiFails(c)
  <2>1. PICK how : Leave(c, how)
    BY <1>28 DEF RecoverApiFails
  <2> QED BY <1>1, <1>28, <2>1 DEF RecoverApiFails
<1>29. CASE RecoverApiPlain(c) BY <1>1, <1>29 DEF RecoverApiPlain
<1>30. CASE RecoverApiReconfigure(c) BY <1>1, <1>30 DEF RecoverApiReconfigure
<1>31. CASE SelfTestBegin(c) BY <1>3, <1>5, <1>6, <1>31 DEF SelfTestBegin
<1>32. CASE SelfTestEnd(c) BY <1>1, <1>32 DEF SelfTestEnd
<1>33. CASE MeasureRefused(c) BY <1>1, <1>33 DEF MeasureRefused
<1>34. CASE MeasureBegin(c) BY <1>34 DEF MeasureBegin, SetTimeout
<1>35. CASE MeasureArm(c)
  <2>1. CASE Enter(c, "read", QueryCall("READ?"))
    BY <1>3, <1>5, <1>6, <1>35, <2>1 DEF MeasureArm
  <2>2. ASSUME NEW how, MeasureCatch(c, how) PROVE Old(c)
    BY <1>35, <2>2, CatchOld DEF MeasureArm
  <2> QED BY <1>35, <2>1, <2>2 DEF MeasureArm
<1>36. CASE MeasureRead(c) BY <1>36, CatchOld DEF MeasureRead
<1>37. CASE MeasureRecovered(c)
  <2>1. CASE raised[c] = "ok"
    BY <1>37, <2>1 DEF MeasureRecovered, SetTimeout
  <2>2. CASE raised[c] # "ok"
    BY <1>6, <1>37, <2>2, GotoOld DEF MeasureRecovered
  <2> QED BY <2>1, <2>2
<1>38. CASE MeasureReconfigure(c)
  <2>1. CASE stack' = [stack EXCEPT ![c][1] = [@ EXCEPT !.step = "arm", !.left = 1]]
    <3> DEFINE t == [Top(c) EXCEPT !.step = "arm", !.left = 1]
    <3>1. stack[c] # <<>> /\ Top(c) \in Activations /\ Top(c).op = "read_once"
          /\ Top(c).step = "reconfigure"
      BY <1>38, AtIs DEF MeasureReconfigure
    <3>2. "arm" \in Steps /\ 1 \in Nat
      BY <1>6
    <3>3. Changed(Top(c), t, "arm", 1)
      BY <3>1, <3>2, ChangedIs
    <3>4. stack' = [stack EXCEPT ![c] = [@ EXCEPT ![1] = t]]
      BY <2>1 DEF Top
    <3> HIDE DEF t
    <3>5. t \in Activations
      BY <3>3 DEF Changed, SameCall
    <3>6. Replaced(stack[c], stack'[c], t)
      BY <3>1, <3>4, <3>5, ReplacedIs DEF IInv
    <3>7. Reading(Top(c))
      BY <3>1 DEF Reading
    <3> QED BY <3>1, <3>6, <3>7, ReplacedOld
  <2>2. CASE Goto(c, "end")
    BY <1>6, <1>38, <2>2, GotoOld DEF MeasureReconfigure
  <2> QED BY <1>38, <2>1, <2>2 DEF MeasureReconfigure
<1>39. CASE MeasureEnd(c) BY <1>1, <1>39 DEF MeasureEnd
<1>40. CASE QueryReply(c) BY <1>1, <1>40 DEF QueryReply
<1> QED
  BY <1>40, <1>7, <1>8, <1>9, <1>10, <1>11, <1>12, <1>13, <1>14, <1>15, <1>16, <1>17,
     <1>18, <1>19, <1>20, <1>21, <1>22, <1>23, <1>24, <1>25, <1>26, <1>27,
     <1>28, <1>29, <1>30, <1>31, <1>32, <1>33, <1>34, <1>35, <1>36, <1>37,
     <1>38, <1>39 DEF Step

\* The caller of a reading's READ? is the second activation of its thread: any other place
\* has no reading inside.
LEMMA NoReading ==
  ASSUME IInv, NEW c \in Threads, NEW op, NEW from, At(c, op, from), op # "query",
         op # "read_once" \/ from \notin {"arm", "read", "reconfigure"}
  PROVE  \A j \in 1..Len(stack[c]) : ~Reading(stack[c][j])
<1> SUFFICES ASSUME NEW j \in 1..Len(stack[c]), Reading(stack[c][j]) PROVE FALSE
  OBVIOUS
<1> DEFINE s == stack[c]
<1>1. /\ Len(s) \in Nat \ {0} /\ Top(c) = s[1] /\ Top(c).op = op /\ Top(c).step = from
  BY AtIs
<1>2. Shape(s)
  BY DEF IInv, Control
<1>3. j # 1
  BY <1>1 DEF Reading
<1>4. j - 1 \in 1..(Len(s) - 1) /\ j - 1 + 1 = j /\ j - 1 \in 1..Len(s)
  BY <1>1, <1>3
<1>5. CalledBy(s[j - 1], s[j]) /\ Sound(s[j - 1])
  BY <1>2, <1>4 DEF Shape
<1>6. s[j - 1].op = "query" /\ s[j - 1].cmd = "READ?" /\ s[j - 1].step # "retry"
  BY <1>5 DEF CalledBy, CalledAt, Reading, Sound
<1>7. j - 1 # 1
  BY <1>1, <1>6
<1>8. j - 2 \in 1..(Len(s) - 1) /\ j - 2 + 1 = j - 1
  BY <1>1, <1>4, <1>7
<1>9. CalledBy(s[j - 2], s[j - 1])
  BY <1>2, <1>8 DEF Shape
<1> QED BY <1>6, <1>9 DEF CalledBy, CalledAt

\* The places where the timeout is set to something else.
Resets(c) ==
  \/ \E from \in {"shorten", "restore", "undecodable"} : At(c, "transport_recover", from)
  \/ \E from \in {"begin", "end"} : At(c, "self_test", from)
  \/ At(c, "read_once", "end")

LEMMA TimeoutIs ==
  ASSUME NEW c \in Threads, Step(c)
  PROVE  timeout' \in {timeout, "active"} \/ Resets(c)
<1> USE DEF Resets, driver
<1>1. CASE QueryBegin(c) BY <1>1 DEF QueryBegin
<1>2. CASE QuerySend(c) BY <1>2 DEF QuerySend
<1>3. CASE QueryRefused(c) BY <1>3 DEF QueryRefused
<1>4. CASE QueryReply(c) BY <1>4 DEF QueryReply
<1>5. CASE QueryTimeout(c) BY <1>5 DEF QueryTimeout
<1>6. CASE QueryError(c) BY <1>6 DEF QueryError
<1>7. CASE QueryEscapes(c) BY <1>7 DEF QueryEscapes
<1>8. CASE QueryRetry(c) BY <1>8 DEF QueryRetry
<1>9. CASE Write(c) BY <1>9 DEF Write
<1>10. CASE RecoverBegin(c) BY <1>10 DEF RecoverBegin
<1>11. CASE RecoverClear(c) BY <1>11 DEF RecoverClear
<1>12. CASE RecoverShorten(c) BY <1>12 DEF RecoverShorten
<1>13. CASE RecoverFlush(c) BY <1>13 DEF RecoverFlush
<1>14. CASE RecoverEscapes(c) BY <1>14 DEF RecoverEscapes
<1>15. CASE RecoverRestore(c) BY <1>15 DEF RecoverRestore
<1>16. CASE RecoverRemote(c) BY <1>16 DEF RecoverRemote
<1>17. CASE RecoverDrain(c) BY <1>17 DEF RecoverDrain
<1>18. CASE RecoverDrained(c) BY <1>18 DEF RecoverDrained
<1>19. CASE RecoverDrainEscapes(c) BY <1>19 DEF RecoverDrainEscapes
<1>20. CASE RecoverEnd(c) BY <1>20 DEF RecoverEnd
<1>21. CASE RecoverApiBegin(c) BY <1>21 DEF RecoverApiBegin
<1>22. CASE RecoverApiFails(c) BY <1>22 DEF RecoverApiFails
<1>23. CASE RecoverApiPlain(c) BY <1>23 DEF RecoverApiPlain
<1>24. CASE RecoverApiReconfigure(c) BY <1>24 DEF RecoverApiReconfigure
<1>25. CASE SelfTestBegin(c) BY <1>25 DEF SelfTestBegin
<1>26. CASE SelfTestEnd(c) BY <1>26 DEF SelfTestEnd
<1>27. CASE MeasureRefused(c) BY <1>27 DEF MeasureRefused
<1>28. CASE MeasureBegin(c) BY <1>28 DEF MeasureBegin, SetTimeout
<1>29. CASE MeasureArm(c) BY <1>29 DEF MeasureArm
<1>30. CASE MeasureRead(c) BY <1>30 DEF MeasureRead
<1>31. CASE MeasureRecovered(c) BY <1>31 DEF MeasureRecovered, SetTimeout
<1>32. CASE MeasureReconfigure(c) BY <1>32 DEF MeasureReconfigure
<1>33. CASE MeasureEnd(c) BY <1>33 DEF MeasureEnd
<1>34. ASSUME NEW how \in Failure, RecoverClearFails(c, how)
      PROVE  timeout' \in {timeout, "active"} \/ Resets(c)
  BY <1>34 DEF RecoverClearFails
<1> QED
  BY <1>1, <1>2, <1>3, <1>4, <1>5, <1>6, <1>7, <1>8, <1>9, <1>10, <1>11,
     <1>12, <1>13, <1>14, <1>15, <1>16, <1>17, <1>18, <1>19, <1>20, <1>21, <1>22,
     <1>23, <1>24, <1>25, <1>26, <1>27, <1>28, <1>29, <1>30, <1>31, <1>32, <1>33,
     <1>34 DEF Step

\* Without recover() and self_test(), or alone, a thread that resets the timeout keeps
\* every other thread out of its reading.
LEMMA ResetsAlone ==
  ASSUME IInv, NEW c \in Threads, Resets(c), NEW d \in Threads \ {c},
         Ops \cap {"recover", "self_test"} = {}
  PROVE  \A i \in 1..Len(stack[d]) : ~Reading(stack[d][i])
<1> SUFFICES ASSUME NEW i \in 1..Len(stack[d]), Reading(stack[d][i]) PROVE FALSE
  OBVIOUS
<1>1. opLock = d
  BY NeedsHas DEF Needs, Reading
<1> PICK op \in {"transport_recover", "self_test", "read_once"} :
      \E from : At(c, op, from) /\ from # "lock"
  BY DEF Resets
<1>2. PICK from : At(c, op, from) /\ from # "lock"
  OBVIOUS
<1>3. /\ Len(stack[c]) \in Nat \ {0} /\ Top(c) = stack[c][1]
      /\ Top(c).op = op /\ Top(c).step = from
  BY <1>2, AtIs
<1>4. 1 \in 1..Len(stack[c])
  BY <1>3
<1>5. CASE op = "transport_recover"
  BY <1>1, <1>3, <1>4, <1>5, RecoverHas
<1>6. CASE op = "read_once"
  <2>1. Needs(stack[c][1])
    BY <1>2, <1>3, <1>6 DEF Needs
  <2> QED BY <1>1, <1>4, <2>1, NeedsHas
<1>7. CASE op = "self_test"
  <2>1. Shape(stack[c])
    BY DEF IInv, Control
  <2>2. CASE Len(stack[c]) = 1
    BY <1>3, <1>7, <2>1, <2>2 DEF Shape, Public
  <2>3. CASE Len(stack[c]) # 1
    <3>1. 1 \in 1..(Len(stack[c]) - 1)
      <4>1. \A n \in Nat \ {0} : n # 1 => 1 \in 1..(n - 1)
        OBVIOUS
      <4> DEFINE n == Len(stack[c])
      <4>2. n \in Nat \ {0} /\ n # 1
        BY <1>3, <2>3
      <4> HIDE DEF n
      <4>3. 1 \in 1..(n - 1)
        BY <4>1, <4>2
      <4> QED BY <4>3 DEF n
    <3>2. CalledBy(stack[c][1], stack[c][1 + 1])
      BY <2>1, <3>1 DEF Shape
    <3> QED BY <1>3, <1>7, <3>2 DEF CalledBy, CalledAt
  <2> QED BY <2>2, <2>3
<1> QED BY <1>2, <1>5, <1>6, <1>7

LEMMA TimedStep ==
  ASSUME IInv, Timed, Alone \/ Ops \cap {"recover", "self_test"} = {},
         NEW c \in Threads, Step(c)
  PROVE  Timed'
<1> SUFFICES ASSUME NEW d \in Threads, NEW i \in 1..Len(stack'[d]), Reading(stack'[d][i]),
                    timeout' # "active"
             PROVE  FALSE
  BY DEF Timed, Reading
<1>1. Old(c)
  BY ReadingBegins
<1>2. timeout' = timeout \/ Resets(c)
  BY TimeoutIs
<1>3. CASE d = c
  <2>1. PICK j \in 1..Len(stack[c]) : Reading(stack[c][j])
    BY <1>1, <1>3 DEF Old
  <2>2. timeout = "active"
    BY <2>1 DEF Timed
  <2>3. Resets(c)
    BY <1>2, <2>2
  <2>4. PICK op, from : /\ At(c, op, from) /\ op # "query"
                        /\ op # "read_once" \/ from \notin {"arm", "read", "reconfigure"}
    BY <2>3 DEF Resets
  <2> QED BY <2>1, <2>4, NoReading
<1>4. CASE d # c
  <2>1. stack'[d] = stack[d]
    BY <1>4, StepIsOwn
  <2>2. timeout = "active" /\ i \in 1..Len(stack[d]) /\ Reading(stack[d][i])
    BY <2>1 DEF Timed
  <2>3. Resets(c) /\ Ops \cap {"recover", "self_test"} = {}
    BY <1>2, <1>4, <2>2 DEF Alone
  <2> QED BY <1>4, <2>2, <2>3, ResetsAlone
<1> QED BY <1>3, <1>4

\* Without recover() and self_test(), which change the timeout outside the operation lock,
\* or with one thread, the READ? of a measurement is sent under the measurement's timeout
\* (read_once() and _transport_recover()).
THEOREM ReadsUnderItsTimeout ==
  (Alone \/ Ops \cap {"recover", "self_test"} = {}) => (Spec => ReadHasItsTimeout)
<1> SUFFICES ASSUME Alone \/ Ops \cap {"recover", "self_test"} = {}
             PROVE  Spec => ReadHasItsTimeout
  OBVIOUS
<1>1. Init => Timed
  <2> SUFFICES ASSUME Init PROVE Timed
    OBVIOUS
  <2>1. \A c \in Threads : stack[c] = <<>>
    BY DEF Init
  <2>2. \A c \in Threads : Len(stack[c]) = 0
    BY <2>1
  <2> QED BY <2>2 DEF Timed
<1>2. IInv /\ Timed /\ [Next]_vars => Timed'
  <2> SUFFICES ASSUME IInv, Timed, [Next]_vars PROVE Timed'
    OBVIOUS
  <2>1. ASSUME NEW c \in Threads, Step(c) PROVE Timed'
    BY <2>1, TimedStep
  <2>2. ASSUME NEW c \in Threads, NEW op \in Ops, Call(c, op) PROVE Timed'
    <3> DEFINE n == Begin(c, op)
    <3>1. stack' = [stack EXCEPT ![c] = <<n>>] /\ UNCHANGED timeout
      BY <2>2 DEF Call, driver
    <3>2. n.step \in {"lock", "begin"}
      BY BeginIs
    <3> HIDE DEF n
    <3>3. stack'[c] = <<n>> /\ \A d \in Threads \ {c} : stack'[d] = stack[d]
      BY <3>1 DEF IInv, Control
    <3>4. \A i \in 1..Len(stack'[c]) : ~Reading(stack'[c][i])
      BY <3>2, <3>3 DEF Reading
    <3> QED BY <3>1, <3>3, <3>4 DEF Timed, Reading
  <2>3. CASE Lose
    BY <2>3 DEF Lose, driver, control, Timed, Reading
  <2>4. CASE UNCHANGED vars
    BY <2>4 DEF vars, driver, control, Timed, Reading
  <2> QED BY <2>1, <2>2, <2>3, <2>4 DEF Next, Done
<1>3. IInv /\ Timed => \A c \in Threads : QuerySend(c) /\ Measuring(c) => timeout = "active"
  <2> SUFFICES ASSUME IInv, Timed, NEW c \in Threads, QuerySend(c), Measuring(c)
               PROVE  timeout = "active"
    OBVIOUS
  <2>1. PICK from \in {"send", "resend"} : At(c, "query", from)
    BY DEF QuerySend
  <2>2. /\ Top(c) = stack[c][1] /\ Top(c).op = "query" /\ Len(stack[c]) \in Nat \ {0}
    BY <2>1, AtIs
  <2>3. 1 \in 1..(Len(stack[c]) - 1) /\ 1 + 1 = 2 /\ 2 \in 1..Len(stack[c])
    BY <2>2 DEF Measuring
  <2>4. CalledBy(stack[c][1], stack[c][2])
    BY <2>3 DEF IInv, Control, Shape
  <2>5. Reading(stack[c][2])
    BY <2>2, <2>4 DEF CalledBy, CalledAt, Measuring, Reading
  <2> QED BY <2>3, <2>5 DEF Timed
<1> QED BY Inductive, <1>1, <1>2, <1>3, PTL DEF Spec, ReadHasItsTimeout
-----------------------------------------------------------------------------
(* How long a call may go on.  Cost falls with every step, because a call  *)
(* that is put on top was paid for by its caller; an activation of         *)
(* _transport_recover() counts its drains up to MaxDrain (Tallied).        *)

Tallied(a) ==
  a.op = "transport_recover" =>
    /\ a.left <= MaxDrain
    /\ a.step = "drain" => a.left < MaxDrain
    /\ a.step \notin {"drain", "drained", "end"} => a.left = 0
Counted == \A c \in Threads : \A i \in 1..Len(stack[c]) : Tallied(stack[c][i])

LEMMA QueryStepsType == QuerySteps \in Nat
BY RecoveryAssumption DEF QuerySteps

\* A product of natural numbers, and one of its factors one less.
LEMMA Times ==
  ASSUME NEW m \in Nat, NEW n \in Nat
  PROVE  m * n \in Nat /\ (m > 0 => m * n = (m - 1) * n + n)
OBVIOUS

LEMMA DrainStepsAre ==
  /\ \A left \in 0..MaxDrain : DrainSteps(left) \in Nat
  /\ \A left \in 0..(MaxDrain - 1) : DrainSteps(left) = DrainSteps(left + 1) + QuerySteps + 2
<1> DEFINE n == QuerySteps + 2
<1>1. n \in Nat /\ MaxDrain \in Nat
  BY QueryStepsType, RecoveryAssumption
<1> HIDE DEF n
<1>2. ASSUME NEW left \in 0..MaxDrain PROVE DrainSteps(left) \in Nat
  <2>1. MaxDrain - left \in Nat
    BY <1>1
  <2> QED BY <1>1, <2>1, Times DEF DrainSteps, n
<1>3. ASSUME NEW left \in 0..(MaxDrain - 1)
      PROVE  DrainSteps(left) = DrainSteps(left + 1) + QuerySteps + 2
  <2> DEFINE m == MaxDrain - left
  <2>1. m \in Nat /\ m > 0 /\ MaxDrain - (left + 1) = m - 1
    BY <1>1
  <2> HIDE DEF m
  <2>2. m * n = (m - 1) * n + n /\ (m - 1) * n \in Nat
    <3>1. m - 1 \in Nat
      BY <2>1
    <3> QED BY <1>1, <2>1, <3>1, Times
  <2>3. DrainSteps(left) = m * n /\ DrainSteps(left + 1) = (m - 1) * n
    BY <2>1 DEF DrainSteps, n, m
  <2> QED BY <2>2, <2>3, QueryStepsType DEF n
<1> QED BY <1>2, <1>3

LEMMA RecoveryStepsType == RecoverySteps \in Nat /\ RecoverySteps = 7 + DrainSteps(0)
<1>1. 0 \in 0..MaxDrain
  BY RecoveryAssumption
<1> QED BY <1>1, DrainStepsAre DEF RecoverySteps

\* What each activation may cost, as sums.
Drains(a) == IF a.drain THEN DrainSteps(a.left) ELSE 0

LEMMA CostOfQuery ==
  ASSUME NEW a \in Activations, a.op = "query"
  PROVE  /\ a.step = "lock" => Cost(a) = QuerySteps
         /\ a.step = "send" => Cost(a) = 10 * a.left + 2
         /\ a.step = "wait" => Cost(a) = 10 * a.left + 1
         /\ a.step = "retry" => Cost(a) = 10 * a.left + 3
         /\ a.step = "resend" => Cost(a) = 10 * a.left + 2
BY DEF Cost

LEMMA CostOfRecovery ==
  ASSUME NEW a \in Activations, a.op = "transport_recover"
  PROVE  /\ a.step = "begin" => Cost(a) = 7 + Drains(a)
         /\ a.step = "clear" => Cost(a) = 6 + Drains(a)
         /\ a.step = "shorten" => Cost(a) = 5 + Drains(a)
         /\ a.step = "flush" => Cost(a) = 4 + Drains(a)
         /\ a.step = "undecodable" => Cost(a) = 1
         /\ a.step = "restore" => Cost(a) = 3 + Drains(a)
         /\ a.step = "remote" => Cost(a) = 2 + Drains(a)
         /\ a.step = "drain" => Cost(a) = 1 + Drains(a)
         /\ a.step = "drained" => Cost(a) = 2 + Drains(a)
         /\ a.step = "end" => Cost(a) = 1
<1>1. a.drain \in BOOLEAN
  BY DEF Activations
<1> QED BY <1>1 DEF Cost, Drains

LEMMA CostOfOthers ==
  ASSUME NEW a \in Activations
  PROVE  /\ a.op = "write" => Cost(a) = 1
         /\ a.op = "recover" /\ a.step = "begin" => Cost(a) = RecoverySteps + 2
         /\ a.op = "recover" /\ a.step = "recovered" => Cost(a) = 1
         /\ a.op = "self_test" /\ a.step = "begin" => Cost(a) = QuerySteps + 2
         /\ a.op = "self_test" /\ a.step = "end" => Cost(a) = 1
BY DEF Cost

LEMMA CostOfReading ==
  ASSUME NEW a \in Activations, a.op = "read_once"
  PROVE  /\ a.step = "lock" => Cost(a) = RecoverySteps + 2 * QuerySteps + 8
         /\ a.step = "arm" /\ a.left = 0 => Cost(a) = RecoverySteps + 2 * QuerySteps + 7
         /\ a.step = "arm" /\ a.left # 0 => Cost(a) = QuerySteps + 3
         /\ a.step = "read" /\ a.left = 0 => Cost(a) = RecoverySteps + QuerySteps + 6
         /\ a.step = "read" /\ a.left # 0 => Cost(a) = 2
         /\ a.step = "recovered" => Cost(a) = QuerySteps + 5
         /\ a.step = "reconfigure" => Cost(a) = QuerySteps + 4
         /\ a.step = "end" => Cost(a) = 1
BY QueryStepsType, RecoveryStepsType DEF Cost

LEMMA DrainsType ==
  ASSUME NEW a \in Activations, Tallied(a), a.op = "transport_recover"
  PROVE  Drains(a) \in Nat
<1>1. a.left \in 0..MaxDrain
  BY RecoveryAssumption DEF Tallied, Activations
<1> QED BY <1>1, DrainStepsAre DEF Drains

LEMMA CostType ==
  ASSUME NEW a \in Activations, Sound(a), Tallied(a)
  PROVE  Cost(a) \in Nat /\ Cost(a) > 0
<1>1. a.op \in OpKinds /\ a.step \in StepsOf[a.op] /\ a.left \in Nat
  BY DEF Sound, Activations
<1>2. CASE a.op = "query"
  BY <1>1, <1>2, CostOfQuery, QueryStepsType, RecoveryAssumption DEF StepsOf, QuerySteps
<1>3. CASE a.op = "transport_recover"
  BY <1>1, <1>3, CostOfRecovery, DrainsType DEF StepsOf
<1>4. CASE a.op = "read_once"
  BY <1>1, <1>4, CostOfReading, QueryStepsType, RecoveryStepsType DEF StepsOf
<1>5. CASE a.op \in {"write", "recover", "self_test"}
  BY <1>1, <1>5, CostOfOthers, QueryStepsType, RecoveryStepsType DEF StepsOf
<1> QED BY <1>1, <1>2, <1>3, <1>4, <1>5 DEF OpKinds

\* A stack has at most four activations: a recovery inside the retry of a query of the
\* drain of a recover() or a read_once().
Rung(a) ==
  IF a.op = "query" THEN 2 ELSE IF a.op # "transport_recover" THEN 4 ELSE IF a.drain THEN 3 ELSE 1

LEMMA Climbs ==
  ASSUME NEW a \in Activations, NEW b \in Activations, Sound(b), CalledBy(a, b)
  PROVE  Rung(a) < Rung(b)
BY DEF CalledBy, CalledAt, Sound, Rung, Activations

LEMMA DepthIs ==
  ASSUME NEW s \in Seq(Activations), Shape(s)
  PROVE  Len(s) <= 4
<1>1. Len(s) \in Nat /\ \A i \in 1..Len(s) : s[i] \in Activations
  BY StackTypes
<1> SUFFICES ASSUME ~(Len(s) <= 4) PROVE FALSE
  <2>1. Len(s) \in Nat
    BY <1>1
  <2> HIDE <1>1
  <2> QED BY <2>1
<1>2. \A i \in 1..4 : i \in 1..Len(s) /\ i + 1 \in 1..Len(s) /\ i \in 1..(Len(s) - 1)
  BY <1>1
<1>3. ASSUME NEW i \in 1..4 PROVE Rung(s[i]) < Rung(s[i + 1])
  <2>1. CalledBy(s[i], s[i + 1]) /\ Sound(s[i + 1])
    BY <1>2 DEF Shape
  <2> QED BY <1>1, <1>2, <2>1, Climbs
<1>4. Rung(s[1]) < Rung(s[2]) /\ Rung(s[2]) < Rung(s[3]) /\ Rung(s[3]) < Rung(s[4])
      /\ Rung(s[4]) < Rung(s[5])
  BY <1>3
<1>5. \A a : Rung(a) \in 1..4
  BY DEF Rung
<1> QED
  <2>1. /\ Rung(s[1]) \in 1..4 /\ Rung(s[2]) \in 1..4 /\ Rung(s[3]) \in 1..4
        /\ Rung(s[4]) \in 1..4 /\ Rung(s[5]) \in 1..4
    BY <1>5
  <2> QED BY <1>4, <2>1

\* A move of the stack that is paid for.
Lowers(c) ==
  /\ stack[c] # <<>>
  /\ Moved(c)
  /\ \/ \E t : /\ Replaced(stack[c], stack'[c], t)
               /\ Tallied(t) /\ Cost(t) < Cost(Top(c))
     \/ \E n, t : /\ Pushed(stack[c], stack'[c], n, t)
                  /\ Tallied(n) /\ Tallied(t) /\ Cost(n) + Cost(t) < Cost(Top(c))
     \/ Popped(stack[c], stack'[c])

CostsOf(s) ==
  CostAt(s, 1) + CostAt(s, 2) + CostAt(s, 3) + CostAt(s, 4)
TalliedAll(s) == \A i \in 1..Len(s) : Tallied(s[i])

LEMMA CostAtIs ==
  ASSUME NEW s \in Seq(Activations), NEW i \in 1..4
  PROVE  CostAt(s, i) = IF i <= Len(s) THEN Cost(s[i]) ELSE 0
BY DEF CostAt

LEMMA CostAtType ==
  ASSUME NEW s \in Seq(Activations), Shape(s), TalliedAll(s), NEW i \in 1..4
  PROVE  CostAt(s, i) \in Nat
<1>1. CASE i <= Len(s)
  <2>1. i \in 1..Len(s)
    BY <1>1, StackTypes
  <2>2. s[i] \in Activations /\ Sound(s[i]) /\ Tallied(s[i])
    BY <2>1, StackTypes DEF Shape, TalliedAll
  <2> QED BY <1>1, <2>2, CostType, CostAtIs
<1>2. CASE ~(i <= Len(s))
  BY <1>2, CostAtIs
<1> QED BY <1>1, <1>2

LEMMA ReplacedCosts ==
  ASSUME NEW s \in Seq(Activations), NEW z \in Seq(Activations), NEW t,
         Shape(s), Shape(z), TalliedAll(s), Len(s) > 0, Replaced(s, z, t), Tallied(t),
         Cost(t) < Cost(s[1])
  PROVE  TalliedAll(z) /\ CostsOf(z) < CostsOf(s)
<1>1. Len(s) \in Nat /\ Len(z) = Len(s) /\ z[1] = t /\ \A i \in 2..Len(s) : z[i] = s[i]
  BY StackTypes DEF Replaced
<1>2. TalliedAll(z)
  <2>1. \A i \in 1..Len(s) : i = 1 \/ i \in 2..Len(s)
    BY <1>1
  <2> QED BY <1>1, <2>1 DEF TalliedAll
<1>3. \A i \in 2..4 : i \in 1..4 /\ (i <= Len(s) => i \in 2..Len(s))
  BY <1>1
<1>4. \A i \in 2..4 : CostAt(z, i) = CostAt(s, i)
  BY <1>1, <1>3, CostAtIs
<1>5. CostAt(z, 1) < CostAt(s, 1)
  BY <1>1, CostAtIs
<1>6. \A i \in 1..4 : CostAt(s, i) \in Nat /\ CostAt(z, i) \in Nat
  BY <1>2, CostAtType
<1>7. /\ CostAt(z, 2) = CostAt(s, 2) /\ CostAt(z, 3) = CostAt(s, 3)
      /\ CostAt(z, 4) = CostAt(s, 4)
      /\ CostAt(s, 1) \in Nat /\ CostAt(s, 2) \in Nat /\ CostAt(s, 3) \in Nat
      /\ CostAt(s, 4) \in Nat /\ CostAt(z, 1) \in Nat
  BY <1>4, <1>6
<1> QED BY <1>2, <1>5, <1>7 DEF CostsOf

LEMMA PushedCosts ==
  ASSUME NEW s \in Seq(Activations), NEW z \in Seq(Activations), NEW n, NEW t,
         Shape(s), Shape(z), TalliedAll(s), Len(s) > 0, Pushed(s, z, n, t),
         Tallied(n), Tallied(t), Cost(n) + Cost(t) < Cost(s[1])
  PROVE  TalliedAll(z) /\ CostsOf(z) < CostsOf(s)
<1>1. /\ Len(s) \in Nat /\ Len(z) = Len(s) + 1 /\ z[1] = n /\ z[2] = t
      /\ \A i \in 3..Len(z) : z[i] = s[i - 1]
  BY StackTypes DEF Pushed
<1>2. TalliedAll(z)
  <2>1. ASSUME NEW i \in 1..Len(z) PROVE Tallied(z[i])
    <3>1. CASE i \in {1, 2} BY <1>1, <3>1
    <3>2. CASE i \notin {1, 2}
      <4>1. i \in 3..Len(z) /\ i - 1 \in 1..Len(s)
        BY <1>1, <3>2
      <4> QED BY <1>1, <4>1 DEF TalliedAll
    <3> QED BY <3>1, <3>2
  <2> QED BY <2>1 DEF TalliedAll
<1>3. Len(z) <= 4
  BY DepthIs
<1>4. CostAt(z, 1) = Cost(n) /\ CostAt(z, 2) = Cost(t) /\ CostAt(s, 1) = Cost(s[1])
  BY <1>1, CostAtIs
<1>5. CostAt(z, 3) = CostAt(s, 2) /\ CostAt(z, 4) = CostAt(s, 3)
  <2>1. (3 <= Len(z) <=> 2 <= Len(s)) /\ (4 <= Len(z) <=> 3 <= Len(s))
    BY <1>1
  <2>2. (3 <= Len(z) => z[3] = s[2]) /\ (4 <= Len(z) => z[4] = s[3])
    <3>1. (3 <= Len(z) => 3 \in 3..Len(z)) /\ (4 <= Len(z) => 4 \in 3..Len(z))
      BY <1>1
    <3> QED BY <1>1, <3>1
  <2> QED BY <2>1, <2>2, CostAtIs
<1>6. \A i \in 1..4 : CostAt(s, i) \in Nat /\ CostAt(z, i) \in Nat
  BY <1>2, CostAtType
<1>7. /\ CostAt(s, 1) \in Nat /\ CostAt(s, 2) \in Nat /\ CostAt(s, 3) \in Nat
      /\ CostAt(s, 4) \in Nat /\ CostAt(z, 1) \in Nat /\ CostAt(z, 2) \in Nat
  BY <1>6
<1>8. /\ CostsOf(s) = CostAt(s, 1) + CostAt(s, 2) + CostAt(s, 3) + CostAt(s, 4)
      /\ CostsOf(z) = CostAt(z, 1) + CostAt(z, 2) + CostAt(s, 2) + CostAt(s, 3)
  BY <1>5 DEF CostsOf
<1>9. CostAt(z, 1) + CostAt(z, 2) < CostAt(s, 1)
  BY <1>4
<1>10. CostsOf(z) < CostsOf(s)
  <2> HIDE <1>4, <1>5, <1>6
  <2> QED BY <1>7, <1>8, <1>9, SMTT(30)
<1> QED BY <1>2, <1>10

LEMMA PoppedCosts ==
  ASSUME NEW s \in Seq(Activations), NEW z \in Seq(Activations),
         Shape(s), Shape(z), TalliedAll(s), Len(s) > 0, Popped(s, z)
  PROVE  TalliedAll(z) /\ CostsOf(z) < CostsOf(s)
<1>1. Len(s) \in Nat /\ Len(z) = Len(s) - 1 /\ \A i \in 1..Len(z) : z[i] = s[i + 1]
  BY StackTypes DEF Popped
<1>2. TalliedAll(z)
  <2>1. \A i \in 1..Len(z) : i + 1 \in 1..Len(s)
    BY <1>1
  <2> QED BY <1>1, <2>1 DEF TalliedAll
<1>3. Len(s) <= 4
  BY DepthIs
<1>4. \A i \in 1..3 : i \in 1..4 /\ i + 1 \in 1..4 /\ (i <= Len(z) <=> i + 1 <= Len(s))
  BY <1>1
<1>5. \A i \in 1..3 : CostAt(z, i) = CostAt(s, i + 1)
  <2>1. ASSUME NEW i \in 1..3 PROVE CostAt(z, i) = CostAt(s, i + 1)
    <3>1. i <= Len(z) => i \in 1..Len(z)
      BY <1>1
    <3> QED BY <1>1, <1>4, <3>1, CostAtIs
  <2> QED BY <2>1
<1>6. CostAt(z, 4) = 0
  <2>1. ~(4 <= Len(z))
    BY <1>1, <1>3
  <2> QED BY <2>1, CostAtIs
<1>7. CostAt(s, 1) > 0
  <2>1. 1 \in 1..Len(s)
    BY <1>1
  <2>2. s[1] \in Activations /\ Sound(s[1]) /\ Tallied(s[1])
    BY <2>1, StackTypes DEF Shape, TalliedAll
  <2> QED BY <1>1, <2>2, CostType, CostAtIs
<1>8. \A i \in 1..4 : CostAt(s, i) \in Nat
  BY CostAtType
<1>9. /\ CostAt(z, 1) = CostAt(s, 2) /\ CostAt(z, 2) = CostAt(s, 3)
      /\ CostAt(z, 3) = CostAt(s, 4)
      /\ CostAt(s, 1) \in Nat /\ CostAt(s, 2) \in Nat /\ CostAt(s, 3) \in Nat
      /\ CostAt(s, 4) \in Nat
  BY <1>5, <1>8
<1> QED BY <1>2, <1>6, <1>7, <1>9 DEF CostsOf

LEMMA LowersIs ==
  ASSUME IInv, IInv', Counted, NEW c \in Threads, Lowers(c)
  PROVE  StepsLeft(c)' < StepsLeft(c) /\ Counted'
<1> DEFINE s == stack[c]
           z == stack'[c]
<1>1. /\ s \in Seq(Activations) /\ z \in Seq(Activations) /\ Shape(s) /\ Shape(z)
      /\ TalliedAll(s)
  BY DEF IInv, Control, Counted, TalliedAll
<1>2. Len(s) > 0 /\ s[1] = Top(c)
  BY TopIs DEF Lowers, IInv
<1>3. TalliedAll(z) /\ CostsOf(z) < CostsOf(s)
  <2> HIDE DEF s, z
  <2>1. CASE \E t : Replaced(s, z, t) /\ Tallied(t) /\ Cost(t) < Cost(Top(c))
    BY <1>1, <1>2, <2>1, ReplacedCosts
  <2>2. CASE \E n, t : /\ Pushed(s, z, n, t)
                       /\ Tallied(n) /\ Tallied(t) /\ Cost(n) + Cost(t) < Cost(Top(c))
    BY <1>1, <1>2, <2>2, PushedCosts
  <2>3. CASE Popped(s, z)
    BY <1>1, <1>2, <2>3, PoppedCosts
  <2> QED BY <2>1, <2>2, <2>3 DEF Lowers, s, z
<1>4. Counted'
  <2>1. \A d \in Threads \ {c} : stack'[d] = stack[d]
    BY DEF Lowers, Moved
  <2> QED BY <1>3, <2>1 DEF Counted, TalliedAll
<1>5. StepsLeft(c)' = CostsOf(z) /\ StepsLeft(c) = CostsOf(s)
  BY DEF StepsLeft, CostsOf, CostAt, Cost, DrainSteps, RecoverySteps, QuerySteps
<1> QED BY <1>3, <1>4, <1>5

\* The three kinds of move, when they are paid for.
LEMMA GotoLowers ==
  ASSUME IInv, NEW c \in Threads, stack[c] # <<>>, NEW step \in Steps, Goto(c, step),
         \A t : Stepped(Top(c), t, step) => Tallied(t) /\ Cost(t) < Cost(Top(c))
  PROVE  Lowers(c)
<1>1. Moved(c) /\ \E t : Stepped(Top(c), t, step) /\ Replaced(stack[c], stack'[c], t)
  BY GotoIs DEF IInv
<1> QED BY <1>1 DEF Lowers

LEMMA EnterLowers ==
  ASSUME IInv, NEW c \in Threads, stack[c] # <<>>, NEW step \in Steps,
         NEW n \in Activations, Enter(c, step, n), Tallied(n),
         \A t : Stepped(Top(c), t, step) => Tallied(t) /\ Cost(n) + Cost(t) < Cost(Top(c))
  PROVE  Lowers(c)
<1>1. Moved(c) /\ \E t : Stepped(Top(c), t, step) /\ Pushed(stack[c], stack'[c], n, t)
  BY EnterIs DEF IInv
<1> QED BY <1>1 DEF Lowers

LEMMA LeaveLowers ==
  ASSUME IInv, NEW c \in Threads, stack[c] # <<>>, NEW how, Leave(c, how)
  PROVE  Lowers(c)
<1>1. Moved(c) /\ Popped(stack[c], stack'[c])
  BY LeaveIs DEF IInv, Leave
<1> QED BY <1>1 DEF Lowers

LEMMA TopTallied ==
  ASSUME IInv, Counted, NEW c \in Threads, stack[c] # <<>>
  PROVE  Tallied(Top(c))
<1>1. Top(c) = stack[c][1] /\ Len(stack[c]) \in Nat \ {0}
  BY TopIs DEF IInv
<1>2. 1 \in 1..Len(stack[c])
  BY <1>1
<1> QED BY <1>1, <1>2 DEF Counted

\* What the calls inside other calls cost.
LEMMA InnerCosts ==
  /\ \A cmd \in Commands : Cost(QueryCall(cmd)) = QuerySteps /\ Tallied(QueryCall(cmd))
  /\ Cost(RecoverCall(TRUE)) = RecoverySteps /\ Tallied(RecoverCall(TRUE))
  /\ Cost(RecoverCall(FALSE)) = 7 /\ Tallied(RecoverCall(FALSE))
<1>1. ASSUME NEW cmd \in Commands
      PROVE  Cost(QueryCall(cmd)) = QuerySteps /\ Tallied(QueryCall(cmd))
  <2> DEFINE n == QueryCall(cmd)
  <2>1. n \in Activations /\ n.op = "query" /\ n.step = "lock"
    BY InnerCallIs
  <2> HIDE DEF n
  <2>2. Cost(n) = QuerySteps /\ Tallied(n)
    BY <2>1, CostOfQuery DEF Tallied
  <2> QED BY <2>2 DEF n
<1>2. ASSUME NEW drain \in BOOLEAN
      PROVE  /\ Cost(RecoverCall(drain)) = IF drain THEN RecoverySteps ELSE 7
             /\ Tallied(RecoverCall(drain))
  <2> DEFINE n == RecoverCall(drain)
  <2>1. /\ n \in Activations /\ n.op = "transport_recover" /\ n.step = "begin"
        /\ (n.drain <=> drain)
    BY InnerCallIs
  <2>2. n.left = 0
    BY DEF RecoverCall, Activation
  <2> HIDE DEF n
  <2>3. Tallied(n)
    BY <2>1, <2>2, RecoveryAssumption DEF Tallied
  <2>4. Cost(n) = 7 + Drains(n)
    BY <2>1, CostOfRecovery
  <2>5. Drains(n) = IF drain THEN DrainSteps(0) ELSE 0
    BY <2>1, <2>2 DEF Drains
  <2>6. Cost(n) = IF drain THEN RecoverySteps ELSE 7
    BY <2>4, <2>5, RecoveryStepsType
  <2> QED BY <2>3, <2>6 DEF n
<1> QED BY <1>1, <1>2

LEMMA QueryLowers ==
  ASSUME IInv, Counted, NEW c \in Threads,
         \/ QueryBegin(c) \/ QuerySend(c) \/ QueryRefused(c) \/ QueryReply(c)
         \/ QueryTimeout(c) \/ QueryError(c) \/ QueryEscapes(c) \/ QueryRetry(c)
  PROVE  Lowers(c)
<1> DEFINE a == Top(c)
<1>1. PICK step \in {"lock", "send", "resend", "wait", "retry"} : At(c, "query", step)
  BY DEF QueryBegin, QuerySend, QueryRefused, QueryReply, QueryTimeout, QueryError,
         QueryEscapes, QueryRetry
<1>2. stack[c] # <<>> /\ a \in Activations /\ a.op = "query" /\ Sound(a) /\ a.left \in Nat
  <2>1. stack[c] # <<>> /\ a \in Activations /\ a.op = "query" /\ Sound(a)
    BY <1>1, AtIs
  <2> QED BY <2>1 DEF Activations
<1> HIDE DEF a
<1>3. ASSUME NEW t \in Activations, t.op = "query" PROVE Tallied(t)
  BY <1>3 DEF Tallied
<1>4. {"lock", "send", "wait", "retry", "resend"} \subseteq Steps
  BY DEF Steps, StepsOf, OpKinds
<1>5. CASE QueryBegin(c)
  <2> DEFINE left == IF ShouldRetry(Top(c).cmd) THEN MaxRetries ELSE 0
  <2>1. Take(c, "send", left) /\ a.step = "lock"
    BY <1>5 DEF QueryBegin, At, a
  <2>2. left \in Nat /\ left <= MaxRetries
    BY RecoveryAssumption
  <2> HIDE DEF left
  <2>3. /\ Moved(c)
        /\ \E t : SameCall(Top(c), t) /\ t.step = "send" /\ t.left = left
                  /\ Replaced(stack[c], stack'[c], t)
    BY <1>2, <1>4, <2>1, <2>2, TakeIs DEF IInv
  <2>4. ASSUME NEW t, SameCall(Top(c), t), t.step = "send", t.left = left
        PROVE  Tallied(t) /\ Cost(t) < Cost(Top(c))
    <3>1. t \in Activations /\ t.op = "query"
      BY <1>2, <2>4 DEF SameCall, a
    <3>2. Cost(t) = 10 * left + 2 /\ Cost(a) = 3 + 10 * MaxRetries
      BY <1>2, <2>1, <2>4, <3>1, CostOfQuery DEF QuerySteps
    <3>3. Cost(t) < Cost(a)
      BY <2>2, <3>2, RecoveryAssumption
    <3> QED BY <1>3, <3>1, <3>3 DEF a
  <2> QED BY <1>2, <2>3, <2>4 DEF Lowers
<1>6. CASE QuerySend(c)
  <2>1. Goto(c, "wait") /\ a.step \in {"send", "resend"}
    BY <1>6 DEF QuerySend, At, a
  <2>2. ASSUME NEW t, Stepped(Top(c), t, "wait") PROVE Tallied(t) /\ Cost(t) < Cost(Top(c))
    <3>1. t \in Activations /\ t.op = "query" /\ t.step = "wait" /\ t.left = a.left
      BY <1>2, <2>2 DEF Stepped, a
    <3>2. Cost(t) = 10 * a.left + 1 /\ Cost(a) = 10 * a.left + 2
      BY <1>2, <2>1, <3>1, CostOfQuery
    <3>3. Cost(t) < Cost(a)
      BY <1>2, <3>2
    <3> QED BY <1>3, <3>1, <3>3 DEF a
  <2> QED BY <1>2, <1>4, <2>1, <2>2, GotoLowers
<1>7. CASE QueryTimeout(c)
  <2>1. CASE a.left = 0
    <3>1. Leave(c, "timeout")
      BY <1>7, <2>1 DEF QueryTimeout, a
    <3> QED BY <1>2, <3>1, LeaveLowers
  <2>2. CASE a.left # 0
    <3> DEFINE n == RecoverCall(FALSE)
               t == [a EXCEPT !.step = "retry", !.left = a.left - 1]
    <3>1. a.step = "wait" /\ stack' = [stack EXCEPT ![c] = <<n, t>> \o Tail(@)]
      BY <1>7, <2>2 DEF QueryTimeout, At, a
    <3>2. n \in Activations /\ Cost(n) = 7 /\ Tallied(n)
      BY InnerCallIs, InnerCosts
    <3>3. a.left - 1 \in Nat
      BY <1>2, <2>2
    <3>4. Changed(a, t, "retry", a.left - 1)
      BY <1>2, <1>4, <3>3, ChangedIs
    <3> HIDE DEF n, t
    <3>5. t \in Activations /\ t.op = "query" /\ t.step = "retry" /\ t.left = a.left - 1
      BY <1>2, <3>4 DEF Changed, SameCall
    <3>6. Moved(c) /\ Pushed(stack[c], stack'[c], n, t)
      BY <1>2, <3>1, <3>2, <3>5, PushedIs DEF IInv
    <3>7. Cost(t) = 10 * (a.left - 1) + 3 /\ Cost(a) = 10 * a.left + 1
      BY <1>2, <3>1, <3>5, CostOfQuery
    <3>8. Cost(n) + Cost(t) < Cost(a)
      BY <1>2, <3>2, <3>7
    <3> QED BY <1>2, <1>3, <3>2, <3>5, <3>6, <3>8 DEF Lowers, a
  <2> QED BY <2>1, <2>2
<1>8. CASE QueryRetry(c)
  <2>1. CASE raised[c] = "ok"
    <3>1. Goto(c, "resend") /\ a.step = "retry"
      BY <1>8, <2>1 DEF QueryRetry, At, a
    <3>2. ASSUME NEW t, Stepped(Top(c), t, "resend")
          PROVE  Tallied(t) /\ Cost(t) < Cost(Top(c))
      <4>1. t \in Activations /\ t.op = "query" /\ t.step = "resend" /\ t.left = a.left
        BY <1>2, <3>2 DEF Stepped, a
      <4>2. Cost(t) = 10 * a.left + 2 /\ Cost(a) = 10 * a.left + 3
        BY <1>2, <3>1, <4>1, CostOfQuery
      <4>3. Cost(t) < Cost(a)
        BY <1>2, <4>2
      <4> QED BY <1>3, <4>1, <4>3 DEF a
    <3> QED BY <1>2, <1>4, <3>1, <3>2, GotoLowers
  <2>2. CASE raised[c] # "ok"
    BY <1>2, <1>8, <2>2, LeaveLowers DEF QueryRetry
  <2> QED BY <2>1, <2>2
<1>9. CASE QueryRefused(c) \/ QueryReply(c) \/ QueryError(c) \/ QueryEscapes(c)
  BY <1>2, <1>9, LeaveLowers DEF QueryRefused, QueryReply, QueryError, QueryEscapes
<1> QED BY <1>5, <1>6, <1>7, <1>8, <1>9

\* One step of _transport_recover() within the activation.
LEMMA RecoveryGoes ==
  ASSUME NEW a \in Activations, Tallied(a), a.op = "transport_recover",
         NEW t, NEW step, Stepped(a, t, step),
         \/ a.step = "begin" /\ step = "clear"
         \/ a.step = "clear" /\ step = "shorten"
         \/ a.step = "shorten" /\ step = "flush"
         \/ a.step = "flush" /\ step \in {"restore", "undecodable"}
         \/ a.step = "restore" /\ step \in {"remote", "end", "drain"}
         \/ a.step = "remote" /\ step \in {"end", "drain"}
         \/ a.step = "drained" /\ step = "end"
         \/ a.step = "drained" /\ step = "drain" /\ a.left < MaxDrain
  PROVE  Tallied(t) /\ Cost(t) < Cost(a)
<1>1. /\ t \in Activations /\ t.op = "transport_recover" /\ t.step = step
      /\ t.left = a.left /\ t.drain = a.drain /\ a.left \in Nat
  BY DEF Stepped, Activations
<1>2. Drains(a) \in Nat /\ Drains(t) = Drains(a)
  BY <1>1, DrainsType DEF Drains
<1>3. Tallied(t)
  BY <1>1, RecoveryAssumption DEF Tallied
<1>4. Cost(t) < Cost(a)
  BY <1>1, <1>2, CostOfRecovery
<1> QED BY <1>3, <1>4

LEMMA RecoverLowers ==
  ASSUME IInv, Counted, NEW c \in Threads,
         \/ RecoverBegin(c) \/ RecoverClear(c) \/ \E how \in Failure : RecoverClearFails(c, how)
         \/ RecoverShorten(c) \/ RecoverFlush(c) \/ RecoverEscapes(c)
         \/ RecoverRestore(c) \/ RecoverRemote(c)
         \/ RecoverDrain(c) \/ RecoverDrained(c) \/ RecoverDrainEscapes(c) \/ RecoverEnd(c)
  PROVE  Lowers(c)
<1> DEFINE a == Top(c)
           op == "transport_recover"
<1>1. PICK from \in StepsOf[op] : At(c, op, from)
  BY DEF StepsOf, RecoverBegin, RecoverClear, RecoverClearFails, RecoverShorten, RecoverFlush,
         RecoverEscapes, RecoverRestore, RecoverRemote, RecoverDrain, RecoverDrained,
         RecoverDrainEscapes, RecoverEnd
<1>2. stack[c] # <<>> /\ a \in Activations /\ a.op = op /\ a.left \in Nat /\ Tallied(a)
      /\ a.drain \in BOOLEAN /\ Sound(a)
  <2>1. stack[c] # <<>> /\ a \in Activations /\ a.op = op /\ Sound(a)
    BY <1>1, AtIs
  <2> QED BY <2>1, TopTallied DEF Activations
<1>3. StepsOf[op] \subseteq Steps
  BY DEF Steps, OpKinds
<1>4. {"begin", "clear", "shorten", "flush", "undecodable", "restore", "remote", "drain",
       "drained", "end"} \subseteq StepsOf[op]
  BY DEF StepsOf
<1>5. ASSUME NEW step \in StepsOf[op], Goto(c, step),
             \/ a.step = "begin" /\ step = "clear"
             \/ a.step = "clear" /\ step = "shorten"
             \/ a.step = "shorten" /\ step = "flush"
             \/ a.step = "flush" /\ step \in {"restore", "undecodable"}
             \/ a.step = "restore" /\ step \in {"remote", "end", "drain"}
             \/ a.step = "remote" /\ step \in {"end", "drain"}
             \/ a.step = "drained" /\ step = "end"
             \/ a.step = "drained" /\ step = "drain" /\ a.left < MaxDrain
      PROVE  Lowers(c)
  <2>1. \A t : Stepped(a, t, step) => Tallied(t) /\ Cost(t) < Cost(a)
    BY <1>2, <1>5, RecoveryGoes
  <2> QED BY <1>2, <1>3, <1>5, <2>1, GotoLowers
<1>6. CASE RecoverBegin(c) BY <1>4, <1>5, <1>6 DEF RecoverBegin, At
<1>7. CASE RecoverClear(c) BY <1>4, <1>5, <1>7 DEF RecoverClear, At
<1>8. CASE RecoverShorten(c) BY <1>4, <1>5, <1>8 DEF RecoverShorten, At
<1>9. CASE RecoverFlush(c) BY <1>4, <1>5, <1>9 DEF RecoverFlush, At
<1>10. CASE RecoverRestore(c)
  <2> DEFINE step == IF IsSerial THEN "remote" ELSE IF Top(c).drain THEN "drain" ELSE "end"
  <2>1. Goto(c, step) /\ a.step = "restore" /\ step \in {"remote", "end", "drain"}
    BY <1>10 DEF RecoverRestore, At
  <2> HIDE DEF step
  <2> QED BY <1>4, <1>5, <2>1
<1>11. CASE RecoverRemote(c)
  <2> DEFINE step == IF Top(c).drain THEN "drain" ELSE "end"
  <2>1. Goto(c, step) /\ a.step = "remote" /\ step \in {"end", "drain"}
    BY <1>11 DEF RecoverRemote, At
  <2> HIDE DEF step
  <2> QED BY <1>4, <1>5, <2>1
<1>12. CASE RecoverDrained(c) BY <1>4, <1>5, <1>12 DEF RecoverDrained, At
<1>13. CASE RecoverDrain(c)
  <2> DEFINE n == QueryCall("SYST:ERR?")
             t == [a EXCEPT !.step = "drained", !.left = a.left + 1]
  <2>1. a.step = "drain" /\ stack' = [stack EXCEPT ![c] = <<n, t>> \o Tail(@)]
    BY <1>13 DEF RecoverDrain, At
  <2>2. n \in Activations /\ Cost(n) = QuerySteps /\ Tallied(n)
    <3>1. "SYST:ERR?" \in Commands
      BY DEF Commands
    <3> QED BY <3>1, InnerCallIs, InnerCosts
  <2>3. Changed(a, t, "drained", a.left + 1)
    <3>1. "drained" \in Steps /\ a.left + 1 \in Nat
      BY <1>2, <1>3, <1>4
    <3> QED BY <1>2, <3>1, ChangedIs
  <2> HIDE DEF n, t
  <2>4. /\ t \in Activations /\ t.op = op /\ t.step = "drained" /\ t.left = a.left + 1
        /\ t.drain = a.drain
    BY <1>2, <2>3 DEF Changed, SameCall
  <2>5. Moved(c) /\ Pushed(stack[c], stack'[c], n, t)
    BY <1>2, <2>1, <2>2, <2>4, PushedIs DEF IInv
  <2>6. a.left < MaxDrain /\ MaxDrain \in Nat
    BY <1>2, <2>1, RecoveryAssumption DEF Tallied
  <2>7. Tallied(t)
    BY <1>2, <2>4, <2>6 DEF Tallied
  <2>8. a.drain /\ t.drain
    BY <1>2, <2>1, <2>4 DEF Sound
  <2>9. Cost(t) = 2 + DrainSteps(a.left + 1) /\ Cost(a) = 1 + DrainSteps(a.left)
    BY <1>2, <2>1, <2>4, <2>8, CostOfRecovery DEF Drains
  <2>10. DrainSteps(a.left) = DrainSteps(a.left + 1) + QuerySteps + 2
    <3>1. a.left \in 0..(MaxDrain - 1)
      BY <1>2, <2>6
    <3> QED BY <3>1, DrainStepsAre
  <2>11. DrainSteps(a.left + 1) \in Nat
    <3>1. a.left + 1 \in 0..MaxDrain
      BY <1>2, <2>6
    <3> QED BY <3>1, DrainStepsAre
  <2>12. Cost(n) + Cost(t) < Cost(a)
    BY <2>2, <2>9, <2>10, <2>11, QueryStepsType
  <2> QED BY <1>2, <2>2, <2>5, <2>7, <2>12 DEF Lowers
<1>14. ASSUME NEW how \in Failure, RecoverClearFails(c, how) PROVE Lowers(c)
  BY <1>2, <1>14, LeaveLowers DEF RecoverClearFails
<1>15. CASE RecoverEscapes(c) \/ RecoverDrainEscapes(c) \/ RecoverEnd(c)
  BY <1>2, <1>15, LeaveLowers DEF RecoverEscapes, RecoverDrainEscapes, RecoverEnd
<1> QED BY <1>6, <1>7, <1>8, <1>9, <1>10, <1>11, <1>12, <1>13, <1>14, <1>15

LEMMA ApiLowers ==
  ASSUME IInv, Counted, NEW c \in Threads,
         \/ Write(c) \/ RecoverApiBegin(c) \/ RecoverApiFails(c) \/ RecoverApiPlain(c)
         \/ RecoverApiReconfigure(c) \/ SelfTestBegin(c) \/ SelfTestEnd(c)
  PROVE  Lowers(c)
<1>1. CASE Write(c) BY <1>1, LeaveLowers DEF Write, At
<1>2. CASE RecoverApiFails(c) BY <1>2, LeaveLowers DEF RecoverApiFails, At
<1>3. CASE RecoverApiPlain(c) BY <1>3, LeaveLowers DEF RecoverApiPlain, At
<1>4. CASE RecoverApiReconfigure(c) BY <1>4, LeaveLowers DEF RecoverApiReconfigure, At
<1>5. CASE SelfTestEnd(c) BY <1>5, LeaveLowers DEF SelfTestEnd, At
<1>6. CASE RecoverApiBegin(c)
  <2> DEFINE n == RecoverCall(TRUE)
  <2>1. At(c, "recover", "begin") /\ Enter(c, "recovered", n)
    BY <1>6 DEF RecoverApiBegin
  <2>2. n \in Activations /\ Cost(n) = RecoverySteps /\ Tallied(n)
    BY InnerCallIs, InnerCosts
  <2> HIDE DEF n
  <2>3. /\ stack[c] # <<>> /\ Top(c) \in Activations /\ Top(c).op = "recover"
        /\ Top(c).step = "begin"
    BY <2>1, AtIs
  <2>4. ASSUME NEW t, Stepped(Top(c), t, "recovered")
        PROVE  Tallied(t) /\ Cost(n) + Cost(t) < Cost(Top(c))
    <3>1. t \in Activations /\ t.op = "recover" /\ t.step = "recovered"
      BY <2>3, <2>4 DEF Stepped
    <3>2. Cost(t) = 1 /\ Cost(Top(c)) = RecoverySteps + 2
      BY <2>3, <3>1, CostOfOthers
    <3>3. Cost(n) + Cost(t) < Cost(Top(c))
      BY <2>2, <3>2, RecoveryStepsType
    <3> QED BY <3>1, <3>3 DEF Tallied
  <2>5. "recovered" \in Steps
    BY DEF Steps, StepsOf, OpKinds
  <2> QED BY <2>1, <2>2, <2>3, <2>4, <2>5, EnterLowers
<1>7. CASE SelfTestBegin(c)
  <2> DEFINE n == QueryCall("*TST?")
  <2>1. At(c, "self_test", "begin") /\ Enter(c, "end", n)
    BY <1>7 DEF SelfTestBegin
  <2>2. n \in Activations /\ Cost(n) = QuerySteps /\ Tallied(n)
    <3>1. "*TST?" \in Commands
      BY DEF Commands
    <3> QED BY <3>1, InnerCallIs, InnerCosts
  <2> HIDE DEF n
  <2>3. /\ stack[c] # <<>> /\ Top(c) \in Activations /\ Top(c).op = "self_test"
        /\ Top(c).step = "begin"
    BY <2>1, AtIs
  <2>4. ASSUME NEW t, Stepped(Top(c), t, "end")
        PROVE  Tallied(t) /\ Cost(n) + Cost(t) < Cost(Top(c))
    <3>1. t \in Activations /\ t.op = "self_test" /\ t.step = "end"
      BY <2>3, <2>4 DEF Stepped
    <3>2. Cost(t) = 1 /\ Cost(Top(c)) = QuerySteps + 2
      BY <2>3, <3>1, CostOfOthers
    <3>3. Cost(n) + Cost(t) < Cost(Top(c))
      BY <2>2, <3>2, QueryStepsType
    <3> QED BY <3>1, <3>3 DEF Tallied
  <2>5. "end" \in Steps
    BY DEF Steps, StepsOf, OpKinds
  <2> QED BY <2>1, <2>2, <2>3, <2>4, <2>5, EnterLowers
<1> QED BY <1>1, <1>2, <1>3, <1>4, <1>5, <1>6, <1>7

\* read_once() after a timeout: a recovery, if it is the first, or the end.
LEMMA CatchLowers ==
  ASSUME IInv, NEW c \in Threads, NEW from \in {"arm", "read"}, At(c, "read_once", from),
         NEW how, MeasureCatch(c, how)
  PROVE  Lowers(c)
<1> DEFINE a == Top(c)
<1>1. /\ stack[c] # <<>> /\ a \in Activations /\ a.op = "read_once" /\ a.step = from
      /\ a.left \in Nat
  <2>1. stack[c] # <<>> /\ a \in Activations /\ a.op = "read_once" /\ a.step = from
    BY AtIs
  <2> QED BY <2>1 DEF Activations
<1>2. {"recovered", "end"} \subseteq Steps
  BY DEF Steps, StepsOf, OpKinds
<1>3. QuerySteps \in Nat /\ RecoverySteps \in Nat /\ QuerySteps > 0
  BY QueryStepsType, RecoveryStepsType, RecoveryAssumption DEF QuerySteps
<1>4. CASE a.left = 0 /\ Enter(c, "recovered", RecoverCall(TRUE))
  <2> DEFINE n == RecoverCall(TRUE)
  <2>1. n \in Activations /\ Cost(n) = RecoverySteps /\ Tallied(n) /\ Enter(c, "recovered", n)
    BY <1>4, InnerCallIs, InnerCosts
  <2> HIDE DEF n, a
  <2>2. ASSUME NEW t, Stepped(a, t, "recovered")
        PROVE  Tallied(t) /\ Cost(n) + Cost(t) < Cost(a)
    <3>1. t \in Activations /\ t.op = "read_once" /\ t.step = "recovered"
      BY <1>1, <2>2 DEF Stepped
    <3>2. /\ Cost(t) = QuerySteps + 5
          /\ Cost(a) \in {RecoverySteps + 2 * QuerySteps + 7, RecoverySteps + QuerySteps + 6}
      BY <1>1, <1>4, <3>1, CostOfReading
    <3>3. Cost(n) + Cost(t) < Cost(a)
      BY <1>3, <2>1, <3>2
    <3> QED BY <3>1, <3>3 DEF Tallied
  <2> QED BY <1>1, <1>2, <2>1, <2>2, EnterLowers DEF a
<1>5. CASE Goto(c, "end")
  <2> HIDE DEF a
  <2>1. ASSUME NEW t, Stepped(a, t, "end")
        PROVE  Tallied(t) /\ Cost(t) < Cost(a)
    <3>1. t \in Activations /\ t.op = "read_once" /\ t.step = "end"
      BY <1>1, <2>1 DEF Stepped
    <3>2. /\ Cost(t) = 1
          /\ Cost(a) \in {RecoverySteps + 2 * QuerySteps + 7, QuerySteps + 3,
                          RecoverySteps + QuerySteps + 6, 2}
      BY <1>1, <3>1, CostOfReading
    <3>3. Cost(t) < Cost(a)
      BY <1>3, <3>2
    <3> QED BY <3>1, <3>3 DEF Tallied
  <2> QED BY <1>1, <1>2, <1>5, <2>1, GotoLowers DEF a
<1> QED BY <1>4, <1>5 DEF MeasureCatch

LEMMA MeasureLowers ==
  ASSUME IInv, Counted, NEW c \in Threads,
         \/ MeasureRefused(c) \/ MeasureBegin(c) \/ MeasureArm(c) \/ MeasureRead(c)
         \/ MeasureRecovered(c) \/ MeasureReconfigure(c) \/ MeasureEnd(c)
  PROVE  Lowers(c)
<1> DEFINE a == Top(c)
<1>1. PICK from \in StepsOf["read_once"] : At(c, "read_once", from)
  BY DEF StepsOf, MeasureRefused, MeasureBegin, MeasureArm, MeasureRead, MeasureRecovered,
         MeasureReconfigure, MeasureEnd
<1>2. stack[c] # <<>> /\ a \in Activations /\ a.op = "read_once" /\ a.left \in Nat
  <2>1. stack[c] # <<>> /\ a \in Activations /\ a.op = "read_once"
    BY <1>1, AtIs
  <2> QED BY <2>1 DEF Activations
<1>3. {"arm", "read", "reconfigure", "end"} \subseteq Steps
  BY DEF Steps, StepsOf, OpKinds
<1>4. QuerySteps \in Nat /\ RecoverySteps \in Nat /\ QuerySteps > 0
  BY QueryStepsType, RecoveryStepsType, RecoveryAssumption DEF QuerySteps
<1>5. ASSUME NEW t \in Activations, t.op = "read_once" PROVE Tallied(t)
  BY <1>5 DEF Tallied
<1> HIDE DEF a
<1>6. CASE MeasureRefused(c) BY <1>2, <1>6, LeaveLowers DEF MeasureRefused
<1>7. CASE MeasureEnd(c) BY <1>2, <1>7, LeaveLowers DEF MeasureEnd
<1>8. CASE MeasureBegin(c)
  <2>1. Take(c, "arm", 0) /\ a.step = "lock"
    BY <1>8 DEF MeasureBegin, At, a
  <2>2. /\ Moved(c)
        /\ \E t : SameCall(Top(c), t) /\ t.step = "arm" /\ t.left = 0
                  /\ Replaced(stack[c], stack'[c], t)
    BY <1>2, <1>3, <2>1, TakeIs DEF IInv
  <2>3. ASSUME NEW t, SameCall(Top(c), t), t.step = "arm", t.left = 0
        PROVE  Tallied(t) /\ Cost(t) < Cost(Top(c))
    <3>1. t \in Activations /\ t.op = "read_once"
      BY <1>2, <2>3 DEF SameCall, a
    <3>2. /\ Cost(t) = RecoverySteps + 2 * QuerySteps + 7
          /\ Cost(a) = RecoverySteps + 2 * QuerySteps + 8
      BY <1>2, <2>1, <2>3, <3>1, CostOfReading
    <3>3. Cost(t) < Cost(a)
      BY <1>4, <3>2
    <3> QED BY <1>5, <3>1, <3>3 DEF a
  <2> QED BY <1>2, <2>2, <2>3 DEF Lowers
<1>9. CASE MeasureArm(c)
  <2>1. At(c, "read_once", "arm") /\ a.step = "arm"
    BY <1>9 DEF MeasureArm, At, a
  <2>2. ASSUME NEW how, MeasureCatch(c, how) PROVE Lowers(c)
    BY <2>1, <2>2, CatchLowers
  <2>3. CASE Enter(c, "read", QueryCall("READ?"))
    <3> DEFINE n == QueryCall("READ?")
    <3>1. n \in Activations /\ Cost(n) = QuerySteps /\ Tallied(n) /\ Enter(c, "read", n)
      <4>1. "READ?" \in Commands
        BY DEF Commands
      <4> QED BY <2>3, <4>1, InnerCallIs, InnerCosts
    <3> HIDE DEF n
    <3>2. ASSUME NEW t, Stepped(a, t, "read")
          PROVE  Tallied(t) /\ Cost(n) + Cost(t) < Cost(a)
      <4>1. t \in Activations /\ t.op = "read_once" /\ t.step = "read" /\ t.left = a.left
        BY <1>2, <3>2 DEF Stepped
      <4>2. IF a.left = 0
            THEN /\ Cost(t) = RecoverySteps + QuerySteps + 6
                 /\ Cost(a) = RecoverySteps + 2 * QuerySteps + 7
            ELSE Cost(t) = 2 /\ Cost(a) = QuerySteps + 3
        BY <1>2, <2>1, <4>1, CostOfReading
      <4>3. Cost(n) + Cost(t) < Cost(a)
        BY <1>4, <3>1, <4>2
      <4> QED BY <1>5, <4>1, <4>3
    <3> QED BY <1>2, <1>3, <3>1, <3>2, EnterLowers DEF a
  <2> QED BY <1>9, <2>2, <2>3 DEF MeasureArm
<1>10. CASE MeasureRead(c)
  <2>1. At(c, "read_once", "read") /\ MeasureCatch(c, raised[c])
    BY <1>10 DEF MeasureRead
  <2> QED BY <2>1, CatchLowers
<1>11. CASE MeasureRecovered(c)
  <2>1. /\ a.step = "recovered"
        /\ \E step \in {"reconfigure", "end"} : Goto(c, step)
    BY <1>11 DEF MeasureRecovered, At, a
  <2>2. PICK step \in {"reconfigure", "end"} : Goto(c, step)
    BY <2>1
  <2>3. ASSUME NEW t, Stepped(a, t, step) PROVE Tallied(t) /\ Cost(t) < Cost(a)
    <3>1. t \in Activations /\ t.op = "read_once" /\ t.step = step
      BY <1>2, <2>3 DEF Stepped
    <3>2. Cost(t) \in {QuerySteps + 4, 1} /\ Cost(a) = QuerySteps + 5
      BY <1>2, <2>1, <3>1, CostOfReading
    <3>3. Cost(t) < Cost(a)
      BY <1>4, <3>2
    <3> QED BY <1>5, <3>1, <3>3
  <2> QED BY <1>2, <1>3, <2>2, <2>3, GotoLowers DEF a
<1>12. CASE MeasureReconfigure(c)
  <2>1. a.step = "reconfigure"
    BY <1>12 DEF MeasureReconfigure, At, a
  <2>2. CASE stack' = [stack EXCEPT ![c][1] = [@ EXCEPT !.step = "arm", !.left = 1]]
    <3> DEFINE t == [a EXCEPT !.step = "arm", !.left = 1]
    <3>1. Changed(a, t, "arm", 1)
      BY <1>2, <1>3, ChangedIs
    <3>2. stack' = [stack EXCEPT ![c] = [@ EXCEPT ![1] = t]]
      BY <2>2 DEF a, Top
    <3> HIDE DEF t
    <3>3. t \in Activations /\ t.op = "read_once" /\ t.step = "arm" /\ t.left = 1
      BY <1>2, <3>1 DEF Changed, SameCall
    <3>4. Moved(c) /\ Replaced(stack[c], stack'[c], t)
      BY <1>2, <3>2, <3>3, ReplacedIs DEF IInv
    <3>5. Cost(t) = QuerySteps + 3 /\ Cost(a) = QuerySteps + 4
      BY <1>2, <2>1, <3>3, CostOfReading
    <3>6. Cost(t) < Cost(a)
      BY <1>4, <3>5
    <3> QED BY <1>2, <1>5, <3>3, <3>4, <3>6 DEF Lowers, a
  <2>3. CASE Goto(c, "end")
    <3>1. ASSUME NEW t, Stepped(a, t, "end") PROVE Tallied(t) /\ Cost(t) < Cost(a)
      <4>1. t \in Activations /\ t.op = "read_once" /\ t.step = "end"
        BY <1>2, <3>1 DEF Stepped
      <4>2. Cost(t) = 1 /\ Cost(a) = QuerySteps + 4
        BY <1>2, <2>1, <4>1, CostOfReading
      <4>3. Cost(t) < Cost(a)
        BY <1>4, <4>2
      <4> QED BY <1>5, <4>1, <4>3
    <3> QED BY <1>2, <1>3, <2>3, <3>1, GotoLowers DEF a
  <2> QED BY <1>12, <2>2, <2>3 DEF MeasureReconfigure
<1> QED BY <1>6, <1>7, <1>8, <1>9, <1>10, <1>11, <1>12

LEMMA StepLowers ==
  ASSUME IInv, Counted, NEW c \in Threads, Step(c)
  PROVE  Lowers(c)
<1>1. CASE \/ QueryBegin(c) \/ QuerySend(c) \/ QueryRefused(c) \/ QueryReply(c)
           \/ QueryTimeout(c) \/ QueryError(c) \/ QueryEscapes(c) \/ QueryRetry(c)
  BY <1>1, QueryLowers
<1>2. CASE \/ RecoverBegin(c) \/ RecoverClear(c) \/ \E how \in Failure : RecoverClearFails(c, how)
           \/ RecoverShorten(c) \/ RecoverFlush(c) \/ RecoverEscapes(c)
           \/ RecoverRestore(c) \/ RecoverRemote(c)
           \/ RecoverDrain(c) \/ RecoverDrained(c) \/ RecoverDrainEscapes(c) \/ RecoverEnd(c)
  BY <1>2, RecoverLowers
<1>3. CASE \/ Write(c) \/ RecoverApiBegin(c) \/ RecoverApiFails(c) \/ RecoverApiPlain(c)
           \/ RecoverApiReconfigure(c) \/ SelfTestBegin(c) \/ SelfTestEnd(c)
  BY <1>3, ApiLowers
<1>4. CASE \/ MeasureRefused(c) \/ MeasureBegin(c) \/ MeasureArm(c) \/ MeasureRead(c)
           \/ MeasureRecovered(c) \/ MeasureReconfigure(c) \/ MeasureEnd(c)
  BY <1>4, MeasureLowers
<1> QED BY <1>1, <1>2, <1>3, <1>4 DEF Step

\* A public call starts with the steps of its one activation.
LEMMA CallCosts ==
  ASSUME IInv, Counted, NEW c \in Threads, NEW op \in Ops, Call(c, op)
  PROVE  Counted' /\ StepsLeft(c)' <= MostSteps
<1> DEFINE n == Begin(c, op)
           z == <<n>>
<1>1. /\ n \in Activations /\ Sound(n) /\ n.op # "transport_recover"
      /\ n.step \in {"lock", "begin"}
  BY BeginIs
<1>2. stack \in [Threads -> Seq(Activations)] /\ stack' = [stack EXCEPT ![c] = z]
  BY DEF Call, IInv, Control
<1>3. z \in Seq(Activations) /\ Len(z) = 1 /\ z[1] = n
  BY <1>1
<1> HIDE DEF n, z
<1>4. stack'[c] = z /\ \A d \in Threads \ {c} : stack'[d] = stack[d]
  BY <1>2, <1>3
<1>5. Tallied(n)
  BY <1>1 DEF Tallied
<1>6. Counted'
  BY <1>3, <1>4, <1>5 DEF Counted
<1>7. QuerySteps \in Nat /\ RecoverySteps \in Nat
  BY QueryStepsType, RecoveryStepsType
<1>8. Cost(n) <= MostSteps
  <2>1. n.op \in OpKinds /\ n.step \in StepsOf[n.op]
    BY <1>1 DEF Sound, Activations
  <2>2. Cost(n) \in {QuerySteps, 1, RecoverySteps + 2 * QuerySteps + 8, RecoverySteps + 2,
                     QuerySteps + 2}
    BY <1>1, <2>1, CostOfQuery, CostOfOthers, CostOfReading DEF OpKinds, StepsOf
  <2> QED BY <1>7, <2>2 DEF MostSteps
<1>9. StepsLeft(c)' = CostsOf(z)
  BY <1>4 DEF StepsLeft, CostsOf, CostAt, Cost, DrainSteps, RecoverySteps, QuerySteps
<1>10. CostsOf(z) = Cost(n)
  <2>1. \A i \in 1..4 : CostAt(z, i) = IF i <= 1 THEN Cost(z[i]) ELSE 0
    BY <1>3, CostAtIs
  <2>3. CostAt(z, 1) = Cost(n) /\ CostAt(z, 2) = 0 /\ CostAt(z, 3) = 0 /\ CostAt(z, 4) = 0
    BY <1>3, <2>1
  <2>2. Cost(n) \in Nat
    BY <1>1, <1>5, CostType
  <2> QED BY <2>2, <2>3 DEF CostsOf
<1> QED BY <1>6, <1>8, <1>9, <1>10

LEMMA AlwaysCounted == Spec => []Counted
<1>1. Init => Counted
  BY DEF Init, Counted
<1>2. IInv /\ IInv' /\ Counted /\ [Next]_vars => Counted'
  <2> SUFFICES ASSUME IInv, IInv', Counted, [Next]_vars PROVE Counted'
    OBVIOUS
  <2>1. ASSUME NEW c \in Threads, Step(c) PROVE Counted'
    BY <2>1, StepLowers, LowersIs
  <2>2. ASSUME NEW c \in Threads, NEW op \in Ops, Call(c, op) PROVE Counted'
    BY <2>2, CallCosts
  <2>3. CASE UNCHANGED stack
    BY <2>3 DEF Counted
  <2>4. CASE Lose \/ UNCHANGED vars
    BY <2>3, <2>4 DEF Lose, vars, control
  <2> QED BY <2>1, <2>2, <2>4 DEF Next, Done
<1> QED BY Inductive, <1>1, <1>2, PTL DEF Spec

\* For any number of threads, retries and errors to drain, no call goes on for ever: every
\* step of its thread, whatever the others and the instrument do, leaves it fewer
\* (query(), _transport_recover(), drain_error_queue(), recover(), read_once()).
THEOREM CallsComeToAnEnd == Spec => CallsAreBounded
<1>1. /\ IInv /\ IInv' /\ Counted /\ [Next]_vars
      => \A c \in Threads :
           /\ Step(c) => StepsLeft(c)' < StepsLeft(c)
           /\ \A op \in Ops : Call(c, op) => StepsLeft(c)' <= MostSteps
  BY StepLowers, LowersIs, CallCosts
<1> QED BY Inductive, AlwaysCounted, <1>1, PTL DEF Spec, CallsAreBounded

\* The number of steps left is a natural number, so that it cannot fall for ever.
THEOREM StepsAreCounted == Spec => [](\A c \in Threads : StepsLeft(c) \in Nat)
<1>1. IInv /\ Counted => \A c \in Threads : StepsLeft(c) \in Nat
  <2> SUFFICES ASSUME IInv, Counted, NEW c \in Threads PROVE StepsLeft(c) \in Nat
    OBVIOUS
  <2>1. stack[c] \in Seq(Activations) /\ Shape(stack[c]) /\ TalliedAll(stack[c])
    BY DEF IInv, Control, Counted, TalliedAll
  <2>2. /\ CostAt(stack[c], 1) \in Nat /\ CostAt(stack[c], 2) \in Nat
        /\ CostAt(stack[c], 3) \in Nat /\ CostAt(stack[c], 4) \in Nat
    BY <2>1, CostAtType
  <2> QED BY <2>2 DEF StepsLeft
<1> QED BY Inductive, AlwaysCounted, <1>1, PTL
=============================================================================
