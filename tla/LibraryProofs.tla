----------------------------- MODULE LibraryProofs -----------------------------
(***************************************************************************)
(* For any aliases, resources, documents and any number of drivers: which  *)
(* drivers are open, what is selected, the session ids, the remembered     *)
(* health and the policy in force.                                         *)
(*                                                                         *)
(* The keywords are compositions of the operators of Sessions, so each of  *)
(* these is shown to keep a table Good; NoForgottenDriver alone would not  *)
(* be kept, since closing a session needs the aliases that are not open to *)
(* hold no driver, and add() needs the new driver's number to be unused.   *)
(***************************************************************************)
EXTENDS Library, SequenceTheorems, TLAPS

Answered == {"ok", "bad"}
Kept == [driver : Nat, gen : Nat, res : Resources \cup {None}, timeout : Origins,
         rest : Origins, answered : Answered \cup {None}]
SessionTables ==
  [order : Seq(Aliases), sess : [Aliases -> Kept], active : Aliases \cup {NoAlias},
   gens : [Aliases -> Nat], open : SUBSET Nat]

\* A table of sessions whose drivers are among the first m.
Holds(t, m) ==
  /\ \A a \in Aliases \ Registered(t) : t.sess[a].driver = NoDriver
  /\ \A a \in Registered(t) : t.sess[a].driver \in 1..m
  /\ \A a, b \in Registered(t) : t.sess[a].driver = t.sess[b].driver => a = b
  /\ t.open \subseteq {t.sess[a].driver : a \in Registered(t)}
Selects(t) == IF t.order = <<>> THEN t.active = NoAlias ELSE t.active \in Registered(t)
Good(t, m) == t \in SessionTables /\ IsInjective(t.order) /\ Holds(t, m) /\ Selects(t)

\* Each driver was given a name that the generations have left behind.
Named ==
  /\ made \in Nat /\ made <= MaxDrivers
  /\ DOMAIN names = Drivers
  /\ \A d \in 1..made : \E a \in Aliases : \E g \in 1..table.gens[a] : names[d] = <<a, g>>
  /\ SessionIdsAreUnique

\* The health of a session that is not foreign is that of its last check.
Healthy ==
  /\ health \in [Aliases -> {None, "ok", "bad"}]
  /\ foreign \in [Aliases -> BOOLEAN]
  /\ \A a \in Registered(table) :
       ~foreign[a] => health[a] \in Answered /\ health[a] = table.sess[a].answered

IInv ==
  /\ Good(table, made) /\ Named /\ Healthy /\ PolicyIsUniform
  /\ effective \in Documents /\ timeout \in Origins
-----------------------------------------------------------------------------
(* The order of the sessions.                                              *)

\* The sequence z has the elements R, each once.
Orders(z, R) ==
  /\ z \in Seq(Aliases) /\ IsInjective(z) /\ ToSet(z) = R
  /\ z = <<>> <=> R = {}
  /\ z # <<>> => Head(z) \in R

LEMMA OrdersIs ==
  ASSUME NEW z \in Seq(Aliases), IsInjective(z)
  PROVE  Orders(z, ToSet(z))
<1>1. Len(z) \in Nat /\ DOMAIN z = 1..Len(z)
  OBVIOUS
<1>2. z = <<>> => ToSet(z) = {}
  <2>1. \A i \in DOMAIN <<>> : FALSE
    OBVIOUS
  <2> QED BY <2>1 DEF ToSet
<1>3. ASSUME z # <<>> PROVE Head(z) \in ToSet(z)
  <2>1. Len(z) \in Nat \ {0}
    BY <1>3, EmptySeq
  <2>2. 1 \in DOMAIN z /\ Head(z) = z[1]
    BY <1>1, <2>1
  <2> QED BY <2>2 DEF ToSet
<1> QED BY <1>2, <1>3 DEF Orders

LEMMA WithoutIs ==
  ASSUME NEW s \in Seq(Aliases), IsInjective(s), NEW a \in ToSet(s)
  PROVE  Orders(Without(s, a), ToSet(s) \ {a})
<1> DEFINE i == CHOOSE j \in DOMAIN s : s[j] = a
           x == SubSeq(s, 1, i - 1)
           y == SubSeq(s, i + 1, Len(s))
           n == Len(s)
<1>1. n \in Nat /\ DOMAIN s = 1..n /\ \A j \in 1..n : s[j] \in Aliases
  OBVIOUS
<1>2. i \in 1..n /\ s[i] = a
  <2>1. \E j \in DOMAIN s : s[j] = a
    BY DEF ToSet
  <2>2. i \in DOMAIN s /\ s[i] = a
    BY <2>1
  <2> HIDE DEF i
  <2> QED BY <1>1, <2>2
<1> HIDE DEF i
<1>3. /\ x \in Seq(Aliases) /\ Len(x) = i - 1
      /\ \A j \in 1..(i - 1) : x[j] = s[j]
  <2>1. 1 \in Int /\ i - 1 \in Int /\ \A j \in 1..(i - 1) : s[j] \in Aliases
    BY <1>1, <1>2
  <2>2. /\ x \in Seq(Aliases) /\ Len(x) = IF 1 <= i - 1 THEN i - 1 - 1 + 1 ELSE 0
        /\ \A j \in 1..(i - 1 - 1 + 1) : x[j] = s[1 + j - 1]
    BY <2>1, SubSeqProperties
  <2> HIDE DEF x
  <2> QED BY <1>1, <1>2, <2>2
<1>4. /\ y \in Seq(Aliases) /\ Len(y) = n - i
      /\ \A j \in 1..(n - i) : y[j] = s[i + j]
  <2>1. i + 1 \in Int /\ n \in Int /\ \A j \in (i + 1)..n : s[j] \in Aliases
    BY <1>1, <1>2
  <2>2. /\ y \in Seq(Aliases) /\ Len(y) = IF i + 1 <= n THEN n - (i + 1) + 1 ELSE 0
        /\ \A j \in 1..(n - (i + 1) + 1) : y[j] = s[i + 1 + j - 1]
    BY <2>1, SubSeqProperties
  <2> HIDE DEF y
  <2>3. n - (i + 1) + 1 = n - i /\ (i + 1 <= n \/ n - i = 0)
    <3>1. \A p \in Nat : \A q \in 1..p :
            p - (q + 1) + 1 = p - q /\ (q + 1 <= p \/ p - q = 0)
      OBVIOUS
    <3> HIDE DEF n
    <3> QED BY <1>1, <1>2, <3>1
  <2>4. ASSUME NEW j \in 1..(n - i) PROVE i + 1 + j - 1 = i + j
    BY <1>1, <1>2
  <2> QED BY <2>2, <2>3, <2>4
<1> DEFINE z == x \o y
<1>5. Without(s, a) = z
  BY DEF Without, RemoveAt, i
<1> HIDE DEF x, y, n
<1>6. /\ z \in Seq(Aliases) /\ Len(z) = n - 1
      /\ \A j \in 1..(n - 1) : z[j] = IF j < i THEN s[j] ELSE s[j + 1]
  <2>1. /\ z \in Seq(Aliases) /\ Len(z) = Len(x) + Len(y)
        /\ \A j \in 1..(Len(x) + Len(y)) : z[j] = IF j <= Len(x) THEN x[j] ELSE y[j - Len(x)]
    BY <1>3, <1>4, ConcatProperties
  <2>2. Len(x) + Len(y) = n - 1
    BY <1>1, <1>2, <1>3, <1>4
  <2> HIDE DEF z
  <2>3. ASSUME NEW j \in 1..(n - 1) PROVE z[j] = IF j < i THEN s[j] ELSE s[j + 1]
    <3>1. CASE j < i
      <4>1. j <= Len(x) /\ j \in 1..(i - 1)
        BY <1>1, <1>2, <1>3, <3>1
      <4> QED BY <1>3, <2>1, <2>2, <3>1, <4>1
    <3>2. CASE ~(j < i)
      <4>1. ~(j <= Len(x)) /\ j - Len(x) \in 1..(n - i) /\ i + (j - Len(x)) = j + 1
        BY <1>1, <1>2, <1>3, <3>2
      <4> QED BY <1>4, <2>1, <2>2, <3>2, <4>1
    <3> QED BY <3>1, <3>2
  <2> QED BY <2>1, <2>2, <2>3
<1> HIDE DEF z
<1>7. DOMAIN z = 1..(n - 1)
  BY <1>6
<1>8. \A j, k \in 1..n : s[j] = s[k] => j = k
  BY <1>1 DEF IsInjective
<1>9. IsInjective(z)
  <2> SUFFICES ASSUME NEW j \in 1..(n - 1), NEW k \in 1..(n - 1), z[j] = z[k] PROVE j = k
    BY <1>7 DEF IsInjective
  <2>1. j \in 1..n /\ k \in 1..n /\ j + 1 \in 1..n /\ k + 1 \in 1..n
    BY <1>1
  <2>2. (IF j < i THEN j ELSE j + 1) = (IF k < i THEN k ELSE k + 1)
    BY <1>6, <1>8, <2>1
  <2> QED BY <1>1, <1>2, <2>2
<1>10. ToSet(z) = ToSet(s) \ {a}
  <2>1. ASSUME NEW j \in 1..(n - 1) PROVE z[j] \in ToSet(s) \ {a}
    <3> DEFINE k == IF j < i THEN j ELSE j + 1
    <3>1. k \in 1..n /\ k # i /\ z[j] = s[k]
      BY <1>1, <1>2, <1>6
    <3> HIDE DEF k
    <3>2. s[k] # a
      BY <1>2, <1>8, <3>1
    <3> QED BY <1>1, <3>1, <3>2 DEF ToSet
  <2>2. ASSUME NEW k \in 1..n, s[k] # a PROVE \E j \in 1..(n - 1) : z[j] = s[k]
    <3>1. k # i
      BY <1>2, <2>2
    <3>2. CASE k < i
      <4>1. k \in 1..(n - 1)
        BY <1>1, <1>2, <3>2
      <4> QED BY <1>6, <3>2, <4>1
    <3>3. CASE ~(k < i)
      <4>1. k - 1 \in 1..(n - 1) /\ ~(k - 1 < i) /\ k - 1 + 1 = k
        BY <1>1, <1>2, <3>1, <3>3
      <4> QED BY <1>6, <4>1
    <3> QED BY <3>2, <3>3
  <2>3. ToSet(z) \subseteq ToSet(s) \ {a}
    BY <1>7, <2>1 DEF ToSet
  <2>4. ASSUME NEW b \in ToSet(s) \ {a} PROVE b \in ToSet(z)
    <3>1. PICK k \in 1..n : s[k] = b
      BY <1>1 DEF ToSet
    <3>2. PICK j \in 1..(n - 1) : z[j] = b
      BY <2>2, <3>1
    <3> QED BY <1>7, <3>2 DEF ToSet
  <2> QED BY <2>3, <2>4
<1> QED BY <1>5, <1>6, <1>9, <1>10, OrdersIs

LEMMA AppendIs ==
  ASSUME NEW s \in Seq(Aliases), IsInjective(s), NEW a \in Aliases \ ToSet(s)
  PROVE  Orders(Append(s, a), ToSet(s) \cup {a})
<1> DEFINE z == Append(s, a)
           n == Len(s)
<1>1. n \in Nat /\ DOMAIN s = 1..n
  OBVIOUS
<1>2. /\ z \in Seq(Aliases) /\ Len(z) = n + 1 /\ z[n + 1] = a
      /\ \A i \in 1..n : z[i] = s[i]
  BY AppendProperties
<1> HIDE DEF z, n
<1>3. DOMAIN z = 1..(n + 1)
  BY <1>2
<1>4. \A i \in 1..n : s[i] # a
  BY <1>1 DEF ToSet
<1>5. \A i \in 1..(n + 1) : i = n + 1 \/ i \in 1..n
  BY <1>1
<1>6. IsInjective(z)
  <2>1. \A i, j \in 1..n : s[i] = s[j] => i = j
    BY <1>1 DEF IsInjective
  <2> QED BY <1>2, <1>3, <1>4, <1>5, <2>1 DEF IsInjective
<1>7. ToSet(z) = ToSet(s) \cup {a}
  <2>1. 1..n \subseteq 1..(n + 1) /\ n + 1 \in 1..(n + 1)
    BY <1>1
  <2> QED BY <1>1, <1>2, <1>3, <1>5, <2>1 DEF ToSet
<1> QED BY <1>2, <1>6, <1>7, OrdersIs DEF z
-----------------------------------------------------------------------------
(* What each operator of Sessions makes of a good table.                   *)

LEMMA OriginsAre == Own \in Origins /\ \A doc \in Documents : doc \in Origins
BY DEF Origins

LEMMA GoodTuned ==
  ASSUME NEW t, NEW m, Good(t, m), NEW u \in SessionTables,
         u.order = t.order, u.active = t.active, u.open = t.open,
         \A a \in Aliases : u.sess[a].driver = t.sess[a].driver
  PROVE  Good(u, m)
<1>1. Registered(u) = Registered(t) /\ Registered(t) \subseteq Aliases
  BY DEF Registered, Good, SessionTables, ToSet
<1>2. Holds(u, m)
  <2>1. \A a \in Registered(t) : u.sess[a].driver = t.sess[a].driver
    BY <1>1
  <2> QED BY <1>1, <2>1 DEF Holds, Good
<1>3. Selects(u)
  BY <1>1 DEF Selects, Good
<1> QED BY <1>2, <1>3 DEF Good

LEMMA GoodDrops ==
  ASSUME NEW t, NEW m, Good(t, m), NEW a \in Registered(t)
  PROVE  /\ Good(Drops(t, a), m)
         /\ \E O \in SUBSET Nat : Drops(t, a) = [t EXCEPT !.open = O]
<1> DEFINE O == t.open \ {t.sess[a].driver}
           u == Drops(t, a)
<1>1. t \in SessionTables /\ O \in SUBSET Nat /\ O \subseteq t.open
  BY DEF Good, SessionTables
<1>2. u = [t EXCEPT !.open = O]
  BY DEF Drops
<1>3. /\ u \in SessionTables /\ u.open = O /\ u.order = t.order /\ u.sess = t.sess
      /\ u.active = t.active
  BY <1>1, <1>2 DEF SessionTables
<1> HIDE DEF u, O
<1>4. Registered(u) = Registered(t)
  BY <1>3 DEF Registered
<1>5. Holds(u, m)
  BY <1>1, <1>3, <1>4 DEF Holds, Good
<1>6. Selects(u)
  BY <1>3, <1>4 DEF Selects, Good
<1> QED BY <1>1, <1>2, <1>3, <1>5, <1>6 DEF Good, u, O

LEMMA GoodAdd ==
  ASSUME NEW t, NEW m \in Nat, Good(t, m), NEW a \in Aliases, NEW r \in Resources,
         NEW u, u = Add(t, a, m + 1, r)
  PROVE  /\ Good(u, m + 1) /\ u # t
         /\ Registered(u) = Registered(t) \cup {a}
         /\ u.sess = [t.sess EXCEPT ![a] = Session(m + 1, t.gens[a] + 1, r)]
         /\ u.gens = [t.gens EXCEPT ![a] = @ + 1]
<1> DEFINE s == Session(m + 1, t.gens[a] + 1, r)
           O == (t.open \ {t.sess[a].driver}) \cup {m + 1}
           z == IF a \in Registered(t) THEN t.order ELSE Append(t.order, a)
<1>1. /\ t \in SessionTables /\ t.order \in Seq(Aliases) /\ IsInjective(t.order)
      /\ t.sess \in [Aliases -> Kept] /\ t.gens \in [Aliases -> Nat]
      /\ t.open \in SUBSET Nat
  BY DEF Good, SessionTables
<1>2. s \in Kept /\ s.driver = m + 1
  BY <1>1, OriginsAre DEF Session, Kept, Answered
<1>3. Orders(z, Registered(t) \cup {a})
  <2>1. CASE a \in Registered(t)
    <3>1. Registered(t) \cup {a} = Registered(t) /\ z = t.order
      BY <2>1
    <3> QED BY <1>1, <3>1, OrdersIs DEF Registered
  <2>2. CASE a \notin Registered(t)
    BY <1>1, <2>2, AppendIs DEF Registered
  <2> QED BY <2>1, <2>2
<1>4. O \in SUBSET Nat
  BY <1>1
<1>5. u = [t EXCEPT !.order = z, !.sess[a] = s, !.gens[a] = @ + 1, !.active = a, !.open = O]
  BY DEF Add
<1> HIDE DEF s, z, O
<1>6. /\ u \in SessionTables
      /\ u.order = z /\ u.sess = [t.sess EXCEPT ![a] = s]
      /\ u.gens = [t.gens EXCEPT ![a] = @ + 1] /\ u.active = a /\ u.open = O
  <2> DEFINE f == [t.sess EXCEPT ![a] = s]
             g == [t.gens EXCEPT ![a] = @ + 1]
  <2>1. f \in [Aliases -> Kept] /\ g \in [Aliases -> Nat]
    BY <1>1, <1>2
  <2>2. u = [t EXCEPT !.order = z, !.sess = f, !.gens = g, !.active = a, !.open = O]
    BY <1>1, <1>5 DEF SessionTables
  <2>3. z \in Seq(Aliases)
    BY <1>3 DEF Orders
  <2> HIDE DEF f, g
  <2>4. /\ u \in SessionTables
        /\ u.order = z /\ u.sess = f /\ u.gens = g /\ u.active = a /\ u.open = O
    BY <1>1, <1>4, <2>1, <2>2, <2>3 DEF SessionTables
  <2> QED BY <2>4 DEF f, g
<1>7. Registered(u) = Registered(t) \cup {a} /\ Registered(t) \subseteq Aliases
  <2>1. Registered(u) = Registered(t) \cup {a}
    BY <1>3, <1>6 DEF Registered, Orders
  <2>2. Registered(t) \subseteq Aliases
    BY <1>1 DEF Registered, ToSet
  <2> QED BY <2>1, <2>2
<1>8. /\ u.sess[a].driver = m + 1
      /\ \A b \in Aliases \ {a} : u.sess[b] = t.sess[b]
  BY <1>1, <1>2, <1>6
<1>9. Holds(u, m + 1)
  <2>1. \A b \in Aliases \ Registered(u) : u.sess[b].driver = NoDriver
    BY <1>7, <1>8 DEF Holds, Good
  <2>2. \A b \in Registered(t) : t.sess[b].driver \in 1..m /\ t.sess[b].driver # m + 1
    BY DEF Holds, Good
  <2>3. \A b \in Registered(u) : u.sess[b].driver \in 1..(m + 1)
    <3>1. m + 1 \in 1..(m + 1) /\ 1..m \subseteq 1..(m + 1)
      OBVIOUS
    <3> QED BY <1>7, <1>8, <2>2, <3>1
  <2>4. \A b, c \in Registered(u) : u.sess[b].driver = u.sess[c].driver => b = c
    <3>1. \A b, c \in Registered(t) : t.sess[b].driver = t.sess[c].driver => b = c
      BY DEF Holds, Good
    <3> QED BY <1>7, <1>8, <2>2, <3>1
  <2>5. u.open \subseteq {u.sess[b].driver : b \in Registered(u)}
    <3> SUFFICES ASSUME NEW d \in O PROVE \E b \in Registered(u) : d = u.sess[b].driver
      BY <1>6
    <3>1. CASE d = m + 1
      BY <1>7, <1>8, <3>1
    <3>2. CASE d # m + 1
      <4>1. d \in t.open /\ d # t.sess[a].driver
        BY <3>2 DEF O
      <4>2. PICK b \in Registered(t) : d = t.sess[b].driver
        BY <4>1 DEF Holds, Good
      <4>3. b # a /\ u.sess[b] = t.sess[b]
        BY <1>7, <1>8, <4>1, <4>2
      <4> QED BY <1>7, <4>2, <4>3
    <3> QED BY <3>1, <3>2
  <2> QED BY <2>1, <2>3, <2>4, <2>5 DEF Holds
<1>10. Selects(u)
  BY <1>3, <1>6, <1>7 DEF Selects, Orders
<1>11. u # t
  <2>1. m + 1 \in u.open
    BY <1>6 DEF O
  <2>2. m + 1 \notin t.open
    BY DEF Holds, Good
  <2> QED BY <2>1, <2>2
<1>12. Good(u, m + 1)
  BY <1>3, <1>6, <1>9, <1>10 DEF Good, Orders
<1> QED BY <1>6, <1>7, <1>11, <1>12 DEF s

LEMMA GoodRemove ==
  ASSUME NEW t, NEW m, Good(t, m), NEW a \in Registered(t), NEW u, u = RemoveSession(t, a)
  PROVE  /\ Good(u, m)
         /\ Registered(u) = Registered(t) \ {a}
         /\ u.sess = [t.sess EXCEPT ![a] = NoSession]
         /\ u.gens = t.gens
<1> DEFINE z == Without(t.order, a)
           O == t.open \ {t.sess[a].driver}
           x == IF t.active # a THEN t.active ELSE IF z = <<>> THEN NoAlias ELSE Head(z)
<1>1. /\ t \in SessionTables /\ t.order \in Seq(Aliases) /\ IsInjective(t.order)
      /\ t.sess \in [Aliases -> Kept] /\ t.active \in Aliases \cup {NoAlias}
      /\ t.open \in SUBSET Nat
  BY DEF Good, SessionTables
<1>2. NoSession \in Kept /\ NoSession.driver = NoDriver
  BY OriginsAre DEF NoSession, Session, Kept, NoDriver
<1>3. Orders(z, Registered(t) \ {a})
  BY <1>1, WithoutIs DEF Registered
<1>4. O \in SUBSET Nat
  BY <1>1
<1>5. u = [t EXCEPT !.order = z, !.sess[a] = NoSession, !.active = x, !.open = O]
  BY <1>1 DEF RemoveSession, Drops, SessionTables
<1>6. Registered(t) \subseteq Aliases
  BY <1>1 DEF Registered, ToSet
<1>7. /\ z = <<>> => x = NoAlias
      /\ z # <<>> => x \in Registered(t) \ {a}
  <2>1. z = <<>> => t.active = a \/ t.active = NoAlias
    <3>1. z = <<>> => Registered(t) = {a}
      BY <1>3 DEF Orders
    <3> QED BY <3>1 DEF Good, Selects
  <2>2. z # <<>> => t.order # <<>>
    <3>1. t.order = <<>> => Registered(t) = {}
      BY <1>1, OrdersIs DEF Registered, Orders
    <3> QED BY <3>1
  <2>3. z # <<>> => t.active \in Registered(t) /\ Head(z) \in Registered(t) \ {a}
    BY <1>3, <2>2 DEF Good, Selects, Orders
  <2> QED BY <2>1, <2>3
<1> HIDE DEF z, O, x
<1>8. x \in Aliases \cup {NoAlias}
  BY <1>6, <1>7
<1>9. /\ u \in SessionTables
      /\ u.order = z /\ u.sess = [t.sess EXCEPT ![a] = NoSession]
      /\ u.gens = t.gens /\ u.active = x /\ u.open = O
  <2> DEFINE f == [t.sess EXCEPT ![a] = NoSession]
  <2>1. f \in [Aliases -> Kept]
    BY <1>1, <1>2
  <2>2. u = [t EXCEPT !.order = z, !.sess = f, !.active = x, !.open = O]
    BY <1>1, <1>5 DEF SessionTables
  <2>3. z \in Seq(Aliases)
    BY <1>3 DEF Orders
  <2> HIDE DEF f
  <2>4. /\ u \in SessionTables
        /\ u.order = z /\ u.sess = f /\ u.gens = t.gens /\ u.active = x /\ u.open = O
    BY <1>1, <1>4, <1>8, <2>1, <2>2, <2>3 DEF SessionTables
  <2> QED BY <2>4 DEF f
<1>10. Registered(u) = Registered(t) \ {a}
  BY <1>3, <1>9 DEF Registered, Orders
<1>11. /\ u.sess[a].driver = NoDriver
       /\ \A b \in Aliases \ {a} : u.sess[b] = t.sess[b]
  BY <1>1, <1>2, <1>6, <1>9
<1>12. Holds(u, m)
  <2>1. \A b \in Aliases \ Registered(u) : u.sess[b].driver = NoDriver
    BY <1>10, <1>11 DEF Holds, Good
  <2>2. \A b \in Registered(u) : b \in Registered(t) /\ u.sess[b] = t.sess[b]
    BY <1>6, <1>10, <1>11
  <2>3. u.open \subseteq {u.sess[b].driver : b \in Registered(u)}
    <3> SUFFICES ASSUME NEW d \in O PROVE \E b \in Registered(u) : d = u.sess[b].driver
      BY <1>9
    <3>1. d \in t.open /\ d # t.sess[a].driver
      BY DEF O
    <3>2. PICK b \in Registered(t) : d = t.sess[b].driver
      BY <3>1 DEF Holds, Good
    <3> QED BY <1>10, <2>2, <3>1, <3>2
  <2> QED BY <2>1, <2>2, <2>3 DEF Holds, Good
<1>13. Selects(u)
  BY <1>7, <1>9, <1>10 DEF Selects
<1> QED BY <1>3, <1>9, <1>10, <1>12, <1>13 DEF Good, Orders

LEMMA EmptyIs == Registered(EmptyTable) = {} /\ IsInjective(EmptyTable.order)
<1>1. EmptyTable.order = <<>>
  BY DEF EmptyTable
<1>2. \A i \in DOMAIN <<>> : FALSE
  OBVIOUS
<1> QED BY <1>1, <1>2 DEF Registered, ToSet, IsInjective

LEMMA GoodRemoveAll ==
  ASSUME NEW t, NEW m, Good(t, m)
  PROVE  /\ Good(RemoveAll(t), m)
         /\ Registered(RemoveAll(t)) = {}
         /\ RemoveAll(t).gens = t.gens
<1> DEFINE O == t.open \ {t.sess[a].driver : a \in Registered(t)}
           u == RemoveAll(t)
           f == [a \in Aliases |-> NoSession]
<1>1. O = {}
  BY DEF Good, Holds
<1>2. NoSession \in Kept /\ NoSession.driver = NoDriver
  BY OriginsAre DEF NoSession, Session, Kept, NoDriver
<1>3. f \in [Aliases -> Kept] /\ t.gens \in [Aliases -> Nat]
  BY <1>2 DEF Good, SessionTables
<1>4. u = [EmptyTable EXCEPT !.gens = t.gens, !.open = O]
  BY DEF RemoveAll
<1> HIDE DEF u, O
<1>5. /\ u.order = <<>> /\ u.active = NoAlias /\ u.open = {}
      /\ u.sess = f /\ u.gens = t.gens
      /\ u = [order |-> <<>>, sess |-> f, active |-> NoAlias, gens |-> t.gens, open |-> {}]
  BY <1>1, <1>4 DEF EmptyTable
<1>6. u \in SessionTables
  <2> HIDE DEF f
  <2> QED BY <1>3, <1>5 DEF SessionTables
<1>7. Registered(u) = {} /\ IsInjective(u.order)
  BY <1>5, EmptyIs DEF Registered, EmptyTable
<1>8. Holds(u, m)
  <2>1. \A a \in Aliases : u.sess[a].driver = NoDriver
    BY <1>2, <1>5
  <2> QED BY <1>5, <1>7, <2>1 DEF Holds
<1>9. Selects(u)
  BY <1>5 DEF Selects
<1> QED BY <1>5, <1>6, <1>7, <1>8, <1>9 DEF Good, u

LEMMA GoodSelect ==
  ASSUME NEW t, NEW m, Good(t, m), NEW a \in Registered(t)
  PROVE  /\ Good(Select(t, a), m)
         /\ Registered(Select(t, a)) = Registered(t)
         /\ Select(t, a).sess = t.sess
         /\ Select(t, a).gens = t.gens
<1> DEFINE u == Select(t, a)
<1>1. t \in SessionTables /\ a \in Aliases
  <2>1. t.order \in Seq(Aliases)
    BY DEF Good, SessionTables
  <2> QED BY <2>1 DEF Good, Registered, ToSet
<1>2. /\ u \in SessionTables /\ u.order = t.order /\ u.sess = t.sess
      /\ u.open = t.open /\ u.active = a /\ u.gens = t.gens
  BY <1>1 DEF Select, SessionTables
<1> HIDE DEF u
<1>3. Registered(u) = Registered(t)
  BY <1>2 DEF Registered
<1>4. Holds(u, m)
  BY <1>2, <1>3 DEF Holds, Good
<1>5. u.order # <<>>
  <2>1. Registered(t) # {}
    OBVIOUS
  <2>2. u.order = <<>> => Registered(u) = Registered(EmptyTable)
    BY DEF Registered, EmptyTable
  <2> QED BY <1>3, <2>1, <2>2, EmptyIs
<1>6. Selects(u)
  BY <1>2, <1>3, <1>5 DEF Selects
<1> QED BY <1>2, <1>3, <1>4, <1>6 DEF Good, u

Retuned(t, a, k) == [t EXCEPT !.sess[a] = k]

LEMMA GoodRetuned ==
  ASSUME NEW t, NEW m, Good(t, m), NEW a \in Registered(t),
         NEW k \in Kept, k.driver = t.sess[a].driver, NEW u, u = Retuned(t, a, k)
  PROVE  /\ Good(u, m)
         /\ Registered(u) = Registered(t)
         /\ u.sess = [t.sess EXCEPT ![a] = k]
         /\ u.gens = t.gens
<1>1. t \in SessionTables /\ t.sess \in [Aliases -> Kept]
  BY DEF Good, SessionTables
<1> DEFINE f == [t.sess EXCEPT ![a] = k]
<1>2. f \in [Aliases -> Kept] /\ \A b \in Aliases : f[b].driver = t.sess[b].driver
  BY <1>1
<1>3. u = [t EXCEPT !.sess = f]
  BY <1>1 DEF SessionTables, Retuned
<1> HIDE DEF f
<1>4. /\ u \in SessionTables /\ u.order = t.order /\ u.sess = f
      /\ u.open = t.open /\ u.active = t.active /\ u.gens = t.gens
  BY <1>1, <1>2, <1>3 DEF SessionTables
<1>5. Good(u, m)
  BY <1>2, <1>4, GoodTuned
<1>6. Registered(u) = Registered(t)
  BY <1>4 DEF Registered
<1> QED BY <1>4, <1>5, <1>6 DEF f

LEMMA RegisteredIsNamed ==
  ASSUME NEW t, NEW m, Good(t, m)
  PROVE  /\ Registered(t) \subseteq Aliases
         /\ t \in SessionTables /\ t.sess \in [Aliases -> Kept] /\ t.gens \in [Aliases -> Nat]
         /\ \A a \in Registered(t) : t.sess[a] \in Kept
         /\ t.active # NoAlias => t.active \in Registered(t)
<1>1. t.order \in Seq(Aliases) /\ t \in SessionTables
  BY DEF Good, SessionTables
<1>2. Registered(t) \subseteq Aliases
  BY <1>1 DEF Registered, ToSet
<1> QED BY <1>1, <1>2 DEF Good, Selects, SessionTables
-----------------------------------------------------------------------------
(* One step.                                                               *)

Names ==
  \/ UNCHANGED <<made, names>>
  \/ \E a \in Aliases :
       /\ made < MaxDrivers /\ made' = made + 1
       /\ names' = [names EXCEPT ![made + 1] = <<a, table.gens[a] + 1>>]
       /\ table'.gens[a] >= table.gens[a] + 1

GoesOn ==
  /\ Good(table', made')
  /\ \A a \in Aliases : table'.gens[a] >= table.gens[a]
  /\ Names /\ Healthy' /\ PolicyIsUniform'
  /\ effective' \in Documents /\ timeout' \in Origins

LEMMA NamedGoesOn ==
  ASSUME IInv, GoesOn
  PROVE  Named'
<1>1. /\ table.gens \in [Aliases -> Nat] /\ table'.gens \in [Aliases -> Nat]
  BY DEF IInv, GoesOn, Good, SessionTables
<1>2. /\ made \in Nat /\ made <= MaxDrivers /\ DOMAIN names = Drivers
      /\ \A d \in 1..made : \E a \in Aliases : \E g \in 1..table.gens[a] : names[d] = <<a, g>>
      /\ \A d, e \in 1..made : names[d] = names[e] => d = e
  BY DEF IInv, Named, SessionIdsAreUnique
<1>3. \A a \in Aliases : 1..table.gens[a] \subseteq 1..table'.gens[a]
  <2> SUFFICES ASSUME NEW a \in Aliases PROVE 1..table.gens[a] \subseteq 1..table'.gens[a]
    OBVIOUS
  <2>1. table.gens[a] \in Nat /\ table'.gens[a] \in Nat /\ table'.gens[a] >= table.gens[a]
    BY <1>1 DEF GoesOn
  <2> QED BY <2>1
<1>4. CASE UNCHANGED <<made, names>>
  <2>1. \A d \in 1..made : \E a \in Aliases : \E g \in 1..table'.gens[a] : names[d] = <<a, g>>
    BY <1>2, <1>3
  <2> QED BY <1>2, <1>4, <2>1 DEF Named, SessionIdsAreUnique
<1>5. CASE ~(UNCHANGED <<made, names>>)
  <2>1. PICK a \in Aliases :
          /\ made < MaxDrivers /\ made' = made + 1
          /\ names' = [names EXCEPT ![made + 1] = <<a, table.gens[a] + 1>>]
          /\ table'.gens[a] >= table.gens[a] + 1
    BY <1>5 DEF GoesOn, Names
  <2> DEFINE g == table.gens[a] + 1
             n == made + 1
  <2>2. g \in Nat /\ g \in 1..table'.gens[a] /\ \A h \in 1..table.gens[a] : h # g
    BY <1>1, <2>1
  <2>3. /\ n \in Drivers /\ n \in Nat /\ n <= MaxDrivers
        /\ \A d \in 1..n : d = n \/ (d \in 1..made /\ d # n)
        /\ 1..made \subseteq Drivers
    BY <1>2, <2>1, SessionsAssumption DEF Drivers
  <2>4. made' = n /\ names' = [names EXCEPT ![n] = <<a, g>>]
    BY <2>1
  <2> HIDE DEF g, n
  <2>5. /\ DOMAIN names' = Drivers /\ names'[n] = <<a, g>>
        /\ \A d \in Drivers : d # n => names'[d] = names[d]
    BY <1>2, <2>3, <2>4
  <2>6. \A d \in 1..made : names[d] # <<a, g>>
    <3> SUFFICES ASSUME NEW d \in 1..made, names[d] = <<a, g>> PROVE FALSE
      OBVIOUS
    <3>1. PICK b \in Aliases, h \in Nat : h \in 1..table.gens[b] /\ names[d] = <<b, h>>
      BY <1>1, <1>2
    <3>2. b = a /\ h = g
      BY <3>1
    <3> QED BY <2>2, <3>1, <3>2
  <2>7. ASSUME NEW d \in 1..n
        PROVE  \E b \in Aliases : \E h \in 1..table'.gens[b] : names'[d] = <<b, h>>
    <3>1. CASE d = n
      BY <2>2, <2>5, <3>1
    <3>2. CASE d # n
      <4>1. d \in 1..made /\ names'[d] = names[d]
        BY <2>3, <2>5, <3>2
      <4> QED BY <1>2, <1>3, <4>1
    <3> QED BY <3>1, <3>2
  <2>8. ASSUME NEW d \in 1..n, NEW e \in 1..n, names'[d] = names'[e] PROVE d = e
    <3>1. \A c \in 1..n : c = n \/ (c \in 1..made /\ names'[c] = names[c])
      BY <2>3, <2>5
    <3> QED BY <1>2, <2>5, <2>6, <2>8, <3>1
  <2> QED BY <2>3, <2>4, <2>5, <2>7, <2>8 DEF Named, SessionIdsAreUnique
<1> QED BY <1>4, <1>5

LEMMA InvGoesOn ==
  ASSUME IInv, GoesOn
  PROVE  IInv'
BY NamedGoesOn DEF IInv, GoesOn
-----------------------------------------------------------------------------
(* Opening.                                                                *)

\* What registering a new driver at a has made of the table.
Registers(out, a, r) ==
  \/ /\ out.ok = FALSE /\ Good(out.t, made)
     /\ Registered(out.t) = Registered(table)
     /\ out.t.sess = table.sess /\ out.t.gens = table.gens
  \/ /\ out.ok = TRUE /\ Good(out.t, made + 1) /\ out.t # table
     /\ Registered(out.t) = Registered(table) \cup {a}
     /\ out.t.sess = [table.sess EXCEPT ![a] = Session(made + 1, table.gens[a] + 1, r)]
     /\ out.t.gens = [table.gens EXCEPT ![a] = @ + 1]

LEMMA RegisteringIs ==
  ASSUME IInv, NEW a \in Aliases, NEW r \in Resources, NEW replace \in BOOLEAN,
         NEW out \in Registering(a, r, replace)
  PROVE  Registers(out, a, r)
<1>1. Good(table, made) /\ made \in Nat
  BY DEF IInv, Named
<1>2. \/ out = [ok |-> FALSE, t |-> table]
      \/ In(a) /\ out = [ok |-> FALSE, t |-> Drops(table, a)]
      \/ out = [ok |-> TRUE, t |-> Add(table, a, made + 1, r)]
  BY DEF Registering, NewDriver
<1>3. CASE out = [ok |-> FALSE, t |-> table]
  BY <1>1, <1>3 DEF Registers
<1>4. CASE In(a) /\ out = [ok |-> FALSE, t |-> Drops(table, a)]
  <2> DEFINE u == Drops(table, a)
  <2>1. out.ok = FALSE /\ out.t = u
    BY <1>4
  <2>2. Good(u, made) /\ \E O \in SUBSET Nat : u = [table EXCEPT !.open = O]
    BY <1>1, <1>4, GoodDrops DEF In
  <2> HIDE DEF u
  <2>3. u.order = table.order /\ u.sess = table.sess /\ u.gens = table.gens
    BY <1>1, <2>2 DEF Good, SessionTables
  <2>4. Registered(u) = Registered(table)
    BY <2>3 DEF Registered
  <2> QED BY <2>1, <2>2, <2>3, <2>4 DEF Registers
<1>5. CASE out = [ok |-> TRUE, t |-> Add(table, a, made + 1, r)]
  <2>1. out.ok = TRUE /\ out.t = Add(table, a, made + 1, r)
    BY <1>5
  <2> QED BY <1>1, <2>1, GoodAdd DEF Registers
<1> QED BY <1>2, <1>3, <1>4, <1>5

\* What a session is to the step: as it was, or new with its check.
LEMMA RegisteredSession ==
  ASSUME IInv, NEW a \in Aliases, NEW r, NEW out, Registers(out, a, r)
  PROVE  /\ \A b \in Registered(out.t) : b = a \/ b \in Registered(table)
         /\ \A b \in Aliases \ {a} : out.t.sess[b] = table.sess[b]
         /\ ~out.ok => Registered(out.t) = Registered(table) /\ out.t.sess = table.sess
         /\ out.ok => /\ a \in Registered(out.t)
                      /\ out.t.sess[a] = Session(made + 1, table.gens[a] + 1, r)
                      /\ out.t # table
         /\ out.ok \in BOOLEAN
         /\ \A b \in Aliases : out.t.gens[b] >= table.gens[b]
<1>1. /\ table.sess \in [Aliases -> Kept] /\ table.gens \in [Aliases -> Nat]
  BY DEF IInv, Good, SessionTables
<1>2. CASE out.ok = FALSE /\ Registered(out.t) = Registered(table)
           /\ out.t.sess = table.sess /\ out.t.gens = table.gens
  <2>1. ~out.ok /\ out.ok \in BOOLEAN
    BY <1>2
  <2>2. \A b \in Aliases : out.t.gens[b] >= table.gens[b]
    BY <1>1, <1>2
  <2> QED BY <1>2, <2>1, <2>2
<1>3. CASE /\ out.ok = TRUE /\ out.t # table
           /\ Registered(out.t) = Registered(table) \cup {a}
           /\ out.t.sess = [table.sess EXCEPT ![a] = Session(made + 1, table.gens[a] + 1, r)]
           /\ out.t.gens = [table.gens EXCEPT ![a] = @ + 1]
  <2>1. out.ok /\ out.ok \in BOOLEAN
    BY <1>3
  <2>2. \A b \in Aliases : out.t.gens[b] >= table.gens[b]
    BY <1>1, <1>3
  <2> DEFINE s == Session(made + 1, table.gens[a] + 1, r)
  <2>3. out.t.sess = [table.sess EXCEPT ![a] = s] /\ a \in DOMAIN table.sess
    BY <1>1, <1>3
  <2> HIDE DEF s
  <2>4. out.t.sess[a] = s /\ \A b \in Aliases \ {a} : out.t.sess[b] = table.sess[b]
    BY <1>1, <2>3
  <2>5. a \in Registered(out.t) /\ \A b \in Registered(out.t) : b = a \/ b \in Registered(table)
    BY <1>3
  <2> QED BY <1>3, <2>1, <2>2, <2>4, <2>5 DEF s
<1> QED BY <1>2, <1>3 DEF Registers

LEMMA OpensNames ==
  ASSUME IInv, NEW a \in Aliases, NEW r, NEW out, Registers(out, a, r), made < MaxDrivers,
         Opens(out, a), table'.gens = out.t.gens
  PROVE  Names /\ made' = (IF out.ok THEN made + 1 ELSE made)
<1>1. /\ table.sess \in [Aliases -> Kept] /\ table.gens \in [Aliases -> Nat] /\ made \in Nat
  BY DEF IInv, Good, SessionTables, Named
<1>2. CASE out.ok = FALSE
  <2>1. made' = made /\ names' = names
    BY <1>2 DEF Opens
  <2> QED BY <1>2, <2>1 DEF Names
<1>3. CASE out.ok = TRUE
  <2>1. /\ out.t.sess = [table.sess EXCEPT ![a] = Session(made + 1, table.gens[a] + 1, r)]
        /\ out.t.gens = [table.gens EXCEPT ![a] = @ + 1]
    BY <1>3 DEF Registers
  <2>2. out.t.sess[a].gen = table.gens[a] + 1
    BY <1>1, <2>1 DEF Session
  <2>3. table'.gens[a] >= table.gens[a] + 1
    BY <1>1, <2>1
  <2>4. made' = made + 1 /\ names' = [names EXCEPT ![made + 1] = <<a, table.gens[a] + 1>>]
    BY <1>3, <2>2 DEF Opens, NewDriver
  <2> QED BY <1>3, <2>3, <2>4 DEF Names
<1> QED BY <1>2, <1>3 DEF Registers

LEMMA OpenDmmGoesOn ==
  ASSUME IInv, NEW a \in Aliases, NEW r \in Resources, NEW replace \in BOOLEAN,
         OpenDmm(a, r, replace)
  PROVE  GoesOn
<1>1. PICK out \in Registering(a, r, replace) :
        /\ table' = out.t /\ Opens(out, a)
        /\ foreign' = IF out.t = table THEN foreign ELSE [foreign EXCEPT ![a] = TRUE]
  BY DEF OpenDmm
<1>2. Registers(out, a, r) /\ made < MaxDrivers
  BY RegisteringIs DEF OpenDmm
<1>3. /\ \A b \in Registered(out.t) : b = a \/ b \in Registered(table)
      /\ \A b \in Aliases \ {a} : out.t.sess[b] = table.sess[b]
      /\ ~out.ok => Registered(out.t) = Registered(table) /\ out.t.sess = table.sess
      /\ out.ok => /\ a \in Registered(out.t)
                   /\ out.t.sess[a] = Session(made + 1, table.gens[a] + 1, r)
                   /\ out.t # table
      /\ out.ok \in BOOLEAN
      /\ \A b \in Aliases : out.t.gens[b] >= table.gens[b]
  BY <1>2, RegisteredSession
<1>4. Names /\ made' = (IF out.ok THEN made + 1 ELSE made)
  BY <1>1, <1>2, OpensNames
<1>5. Good(table', made')
  <2>1. \/ out.ok = FALSE /\ Good(out.t, made)
        \/ out.ok = TRUE /\ Good(out.t, made + 1)
    BY <1>2 DEF Registers
  <2> QED BY <1>1, <1>4, <2>1
<1>6. Registered(table') \subseteq Aliases
  BY <1>5, RegisteredIsNamed
<1>7. health' = health /\ UNCHANGED settings
  BY DEF OpenDmm
<1>8. /\ health \in [Aliases -> {None, "ok", "bad"}] /\ foreign \in [Aliases -> BOOLEAN]
      /\ \A b \in Registered(table) :
           ~foreign[b] => health[b] \in Answered /\ health[b] = table.sess[b].answered
  BY DEF IInv, Healthy
<1>9. foreign' \in [Aliases -> BOOLEAN]
  BY <1>1, <1>8
<1>10. ASSUME NEW b \in Registered(table'), ~foreign'[b]
       PROVE  health[b] \in Answered /\ health[b] = table'.sess[b].answered
  <2>1. CASE out.t = table
    BY <1>1, <1>8, <1>10, <2>1
  <2>2. CASE out.t # table
    <3>1. b # a /\ ~foreign[b]
      BY <1>1, <1>6, <1>8, <1>10, <2>2
    <3> QED BY <1>1, <1>3, <1>6, <1>8, <3>1
  <2> QED BY <2>1, <2>2
<1>11. Healthy'
  BY <1>7, <1>8, <1>9, <1>10 DEF Healthy
<1>12. PolicyIsUniform'
  <2>1. ASSUME NEW b \in Registered(table')
        PROVE  \/ b \in Registered(table) /\ table'.sess[b].rest = table.sess[b].rest
               \/ table'.sess[b].rest = Own
    <3>1. CASE b = a /\ out.ok
      BY <1>1, <1>3, <3>1 DEF Session
    <3>2. CASE ~(b = a /\ out.ok)
      BY <1>1, <1>3, <1>6, <3>2
    <3> QED BY <3>1, <3>2
  <2> QED BY <1>7, <2>1 DEF PolicyIsUniform, settings, IInv
<1> QED BY <1>1, <1>3, <1>4, <1>5, <1>7, <1>11, <1>12 DEF GoesOn, settings, IInv
-----------------------------------------------------------------------------
(* Connect.                                                                *)

LEMMA ConnectTimeoutIs ==
  ASSUME IInv, NEW explicit \in BOOLEAN
  PROVE  ConnectTimeout(explicit) \in Origins
BY OriginsAre DEF ConnectTimeout, IInv

LEMMA PolicyAppliedIs ==
  ASSUME IInv, NEW t, NEW m, Good(t, m), NEW a \in Registered(t),
         NEW h \in [Aliases -> {None, "ok", "bad"}], NEW explicit \in BOOLEAN,
         PolicyApplied(a, t, explicit, h)
  PROVE  /\ Good(table', m) /\ table'.gens = t.gens
         /\ health' \in [Aliases -> {None, "ok", "bad"}]
         /\ Registered(table') \subseteq Registered(t)
         /\ \A b \in Registered(table') : b # a => health'[b] = h[b] /\ table'.sess[b] = t.sess[b]
         /\ a \in Registered(table') =>
              /\ health'[a] = "ok" /\ table'.sess[a].answered = t.sess[a].answered
              /\ table'.sess[a].rest = effective
<1>1. /\ Registered(t) \subseteq Aliases /\ t.sess \in [Aliases -> Kept] /\ t.sess[a] \in Kept
  BY RegisteredIsNamed
<1>2. effective \in Origins
  BY OriginsAre DEF IInv
<1>3. CASE /\ table' = [t EXCEPT !.sess[a].timeout = ConnectTimeout(explicit),
                                 !.sess[a].rest = effective]
           /\ health' = [h EXCEPT ![a] = "ok"]
  <2> DEFINE x == ConnectTimeout(explicit)
             k == [t.sess[a] EXCEPT !.timeout = x, !.rest = effective]
  <2>1. x \in Origins
    BY ConnectTimeoutIs
  <2>2. table' = Retuned(t, a, k)
    <3>1. t \in SessionTables
      BY RegisteredIsNamed
    <3> QED BY <1>1, <1>3, <3>1 DEF SessionTables, Kept, Retuned
  <2> HIDE DEF x
  <2>3. /\ k \in Kept /\ k.driver = t.sess[a].driver /\ k.answered = t.sess[a].answered
        /\ k.rest = effective
    BY <1>1, <1>2, <2>1 DEF Kept
  <2> HIDE DEF k
  <2>4. /\ Good(table', m) /\ Registered(table') = Registered(t)
        /\ table'.sess = [t.sess EXCEPT ![a] = k] /\ table'.gens = t.gens
    BY <2>2, <2>3, GoodRetuned
  <2>5. table'.sess[a] = k /\ \A b \in Aliases \ {a} : table'.sess[b] = t.sess[b]
    BY <1>1, <2>4
  <2>6. /\ health' \in [Aliases -> {None, "ok", "bad"}] /\ health'[a] = "ok"
        /\ \A b \in Aliases \ {a} : health'[b] = h[b]
    BY <1>1, <1>3
  <2> QED BY <1>1, <2>3, <2>4, <2>5, <2>6
<1>4. CASE table' = RemoveSession(t, a) /\ health' \in {Forgets(h, {a}), h}
  <2>1. /\ Good(table', m) /\ Registered(table') = Registered(t) \ {a}
        /\ table'.sess = [t.sess EXCEPT ![a] = NoSession] /\ table'.gens = t.gens
    BY <1>4, GoodRemove
  <2>2. \A b \in Aliases \ {a} : table'.sess[b] = t.sess[b]
    BY <1>1, <2>1
  <2>3. /\ health' \in [Aliases -> {None, "ok", "bad"}]
        /\ \A b \in Aliases \ {a} : health'[b] = h[b]
    BY <1>4 DEF Forgets
  <2> QED BY <1>1, <2>1, <2>2, <2>3
<1> QED BY <1>3, <1>4 DEF PolicyApplied

\* Raw I/O is as it was, or as the effective document says.
LEMMA UniformGoesOn ==
  ASSUME IInv, effective' = effective, applied' = applied, say' = say,
         allowRaw' = allowRaw \/ allowRaw' = (effective \in RawDocs),
         \A b \in Registered(table') :
           \/ b \in Registered(table) /\ table'.sess[b].rest = table.sess[b].rest
           \/ table'.sess[b].rest \in {Own, effective}
  PROVE  PolicyIsUniform'
<1> SUFFICES ASSUME applied # None
             PROVE  /\ \A b \in Registered(table') : table'.sess[b].rest \in {Own, effective}
                    /\ allowRaw' => say = "yes" \/ effective \in RawDocs
  BY DEF PolicyIsUniform
<1>1. /\ \A b \in Registered(table) : table.sess[b].rest \in {Own, effective}
      /\ allowRaw => say = "yes" \/ effective \in RawDocs
  BY DEF IInv, PolicyIsUniform
<1>2. ASSUME NEW b \in Registered(table') PROVE table'.sess[b].rest \in {Own, effective}
  BY <1>1
<1>3. ASSUME allowRaw' PROVE say = "yes" \/ effective \in RawDocs
  <2>1. CASE allowRaw' = allowRaw
    BY <1>1, <1>3, <2>1
  <2>2. CASE allowRaw' = (effective \in RawDocs)
    BY <1>3, <2>2
  <2> QED BY <2>1, <2>2
<1> QED BY <1>2, <1>3

LEMMA ReconnectGoesOn ==
  ASSUME IInv, NEW a \in Aliases, NEW r \in Resources, NEW explicit \in BOOLEAN,
         ConnectRaw, Reconnect(a, r, explicit),
         UNCHANGED <<effective, imported, timeout, applied, say>>
  PROVE  GoesOn
<1>1. /\ a \in Registered(table) /\ PolicyApplied(a, table, explicit, health)
      /\ foreign' = [foreign EXCEPT ![a] = TRUE] /\ made' = made /\ names' = names
  BY DEF Reconnect, Connected
<1>2. /\ Good(table, made) /\ health \in [Aliases -> {None, "ok", "bad"}]
      /\ foreign \in [Aliases -> BOOLEAN] /\ table.gens \in [Aliases -> Nat]
      /\ \A b \in Registered(table) :
           ~foreign[b] => health[b] \in Answered /\ health[b] = table.sess[b].answered
  BY DEF IInv, Healthy, Good, SessionTables
<1>3. /\ Good(table', made) /\ table'.gens = table.gens
      /\ health' \in [Aliases -> {None, "ok", "bad"}]
      /\ Registered(table') \subseteq Registered(table)
      /\ \A b \in Registered(table') :
           b # a => health'[b] = health[b] /\ table'.sess[b] = table.sess[b]
      /\ a \in Registered(table') => table'.sess[a].rest = effective
  BY <1>1, <1>2, PolicyAppliedIs
<1>4. /\ foreign' \in [Aliases -> BOOLEAN] /\ foreign'[a]
      /\ \A b \in Aliases \ {a} : foreign'[b] = foreign[b]
  BY <1>1, <1>2
<1>5. Registered(table') \subseteq Aliases
  BY <1>3, RegisteredIsNamed
<1>6. Healthy'
  <2>1. ASSUME NEW b \in Registered(table'), ~foreign'[b]
        PROVE  health'[b] \in Answered /\ health'[b] = table'.sess[b].answered
    <3>1. b # a
      BY <1>4, <2>1
    <3>2. ~foreign[b]
      BY <1>4, <1>5, <2>1, <3>1
    <3> QED BY <1>2, <1>3, <3>1, <3>2
  <2> QED BY <1>3, <1>4, <2>1 DEF Healthy
<1>7. PolicyIsUniform'
  <2>1. allowRaw' = allowRaw \/ allowRaw' = (effective \in RawDocs)
    BY DEF ConnectRaw
  <2>2. \A b \in Registered(table') :
           \/ b \in Registered(table) /\ table'.sess[b].rest = table.sess[b].rest
           \/ table'.sess[b].rest \in {Own, effective}
    BY <1>3
  <2> QED BY <2>1, <2>2, UniformGoesOn
<1>8. \A b \in Aliases : table'.gens[b] >= table.gens[b]
  BY <1>2, <1>3
<1> QED BY <1>1, <1>3, <1>6, <1>7, <1>8 DEF GoesOn, Names, IInv

LEMMA ConnectNewGoesOn ==
  ASSUME IInv, NEW a \in Aliases, NEW r \in Resources, NEW replace \in BOOLEAN,
         NEW explicit \in BOOLEAN, ConnectRaw, ConnectNew(a, r, replace, explicit),
         UNCHANGED <<effective, imported, timeout, applied, say>>
  PROVE  GoesOn
<1> DEFINE Failed(out) == ~out.ok /\ table' = out.t /\ health' = health
           Silent(out) == /\ out.ok /\ table' = [out.t EXCEPT !.sess[a].answered = "bad"]
                          /\ health' = [health EXCEPT ![a] = "bad"]
           Checks(out) == out.ok /\ PolicyApplied(a, out.t, explicit, [health EXCEPT ![a] = "ok"])
<1>1. PICK out \in Registering(a, r, replace) :
        /\ Opens(out, a)
        /\ foreign' = [foreign EXCEPT ![a] = IF out.ok THEN FALSE ELSE @ \/ out.t # table]
        /\ Failed(out) \/ Silent(out) \/ Checks(out)
  BY DEF ConnectNew
<1> DEFINE n == Session(made + 1, table.gens[a] + 1, r)
           m == IF out.ok THEN made + 1 ELSE made
<1>2. Registers(out, a, r) /\ made < MaxDrivers
  BY RegisteringIs DEF ConnectNew
<1>3. /\ \A b \in Registered(out.t) : b = a \/ b \in Registered(table)
      /\ \A b \in Aliases \ {a} : out.t.sess[b] = table.sess[b]
      /\ ~out.ok => Registered(out.t) = Registered(table) /\ out.t.sess = table.sess
      /\ out.ok => a \in Registered(out.t) /\ out.t.sess[a] = n /\ out.t # table
      /\ out.ok \in BOOLEAN
      /\ \A b \in Aliases : out.t.gens[b] >= table.gens[b]
  BY <1>2, RegisteredSession
<1>4. Good(out.t, m)
  <2>1. \/ out.ok = FALSE /\ Good(out.t, made)
        \/ out.ok = TRUE /\ Good(out.t, made + 1)
    BY <1>2 DEF Registers
  <2> QED BY <2>1
<1>5. /\ Registered(out.t) \subseteq Aliases /\ out.t.sess \in [Aliases -> Kept]
      /\ out.t \in SessionTables
  BY <1>4, RegisteredIsNamed
<1>6. /\ health \in [Aliases -> {None, "ok", "bad"}] /\ foreign \in [Aliases -> BOOLEAN]
      /\ \A b \in Registered(table) :
           ~foreign[b] => health[b] \in Answered /\ health[b] = table.sess[b].answered
  BY DEF IInv, Healthy
<1>7. n.answered = "ok" /\ n.rest = Own
  BY DEF Session
<1> HIDE DEF m, n
\* what the three cases have in common
<1>8. /\ Good(table', m) /\ table'.gens = out.t.gens
      /\ health' \in [Aliases -> {None, "ok", "bad"}]
      /\ Registered(table') \subseteq Registered(out.t)
      /\ \A b \in Registered(table') :
           b # a => health'[b] = health[b] /\ table'.sess[b] = out.t.sess[b]
      /\ out.ok /\ a \in Registered(table') =>
           /\ health'[a] \in Answered /\ table'.sess[a].answered = health'[a]
           /\ table'.sess[a].rest \in {Own, effective}
      /\ ~out.ok => health' = health /\ table' = out.t
  <2>1. CASE Failed(out)
    BY <1>3, <1>4, <1>6, <2>1
  <2>2. CASE Silent(out)
    <3> DEFINE k == [n EXCEPT !.answered = "bad"]
    <3>1. a \in Registered(out.t) /\ out.t.sess[a] = n /\ n \in Kept
      BY <1>3, <1>5, <2>2
    <3>2. table' = Retuned(out.t, a, k)
      BY <1>5, <2>2, <3>1 DEF Retuned, SessionTables
    <3>3. k \in Kept /\ k.driver = n.driver /\ k.answered = "bad" /\ k.rest = Own
      BY <1>7, <3>1 DEF Kept, Answered
    <3> HIDE DEF k
    <3>4. /\ Good(table', m) /\ Registered(table') = Registered(out.t)
          /\ table'.sess = [out.t.sess EXCEPT ![a] = k] /\ table'.gens = out.t.gens
      BY <1>4, <3>1, <3>2, <3>3, GoodRetuned
    <3>5. table'.sess[a] = k /\ \A b \in Aliases \ {a} : table'.sess[b] = out.t.sess[b]
      BY <1>5, <3>4
    <3>6. /\ health' \in [Aliases -> {None, "ok", "bad"}] /\ health'[a] = "bad"
          /\ \A b \in Aliases \ {a} : health'[b] = health[b]
      BY <1>6, <2>2
    <3> QED BY <1>5, <2>2, <3>3, <3>4, <3>5, <3>6 DEF Answered
  <2>3. CASE Checks(out)
    <3> DEFINE h == [health EXCEPT ![a] = "ok"]
    <3>1. h \in [Aliases -> {None, "ok", "bad"}] /\ \A b \in Aliases \ {a} : h[b] = health[b]
      BY <1>6
    <3>2. a \in Registered(out.t) /\ out.t.sess[a] = n
      BY <1>3, <2>3
    <3>3. PolicyApplied(a, out.t, explicit, h)
      BY <2>3
    <3> HIDE DEF h
    <3>4. /\ Good(table', m) /\ table'.gens = out.t.gens
          /\ health' \in [Aliases -> {None, "ok", "bad"}]
          /\ Registered(table') \subseteq Registered(out.t)
          /\ \A b \in Registered(table') :
               b # a => health'[b] = h[b] /\ table'.sess[b] = out.t.sess[b]
          /\ a \in Registered(table') =>
               /\ health'[a] = "ok" /\ table'.sess[a].answered = out.t.sess[a].answered
               /\ table'.sess[a].rest = effective
      BY <1>4, <3>1, <3>2, <3>3, PolicyAppliedIs
    <3> QED BY <1>5, <1>7, <2>3, <3>1, <3>2, <3>4 DEF Answered
  <2> QED BY <1>1, <2>1, <2>2, <2>3
<1>9. Names /\ made' = m
  BY <1>1, <1>2, <1>8, OpensNames DEF m
<1>10. Registered(table') \subseteq Aliases
  BY <1>5, <1>8
<1>11. foreign' \in [Aliases -> BOOLEAN] /\ \A b \in Aliases \ {a} : foreign'[b] = foreign[b]
  BY <1>1, <1>3, <1>6
<1>12. Healthy'
  <2>1. ASSUME NEW b \in Registered(table'), ~foreign'[b]
        PROVE  health'[b] \in Answered /\ health'[b] = table'.sess[b].answered
    <3>1. CASE b # a
      BY <1>3, <1>6, <1>8, <1>10, <1>11, <2>1, <3>1
    <3>2. CASE b = a /\ out.ok
      BY <1>8, <2>1, <3>2
    <3>3. CASE b = a /\ ~out.ok
      <4>1. ~(foreign[a] \/ out.t # table)
        BY <1>1, <1>6, <2>1, <3>3
      <4> QED BY <1>3, <1>6, <1>8, <2>1, <3>3, <4>1
    <3> QED BY <1>3, <3>1, <3>2, <3>3
  <2> QED BY <1>8, <1>11, <2>1 DEF Healthy
<1>13. PolicyIsUniform'
  <2>1. allowRaw' = allowRaw \/ allowRaw' = (effective \in RawDocs)
    BY DEF ConnectRaw
  <2>2. ASSUME NEW b \in Registered(table')
        PROVE  \/ b \in Registered(table) /\ table'.sess[b].rest = table.sess[b].rest
               \/ table'.sess[b].rest \in {Own, effective}
    <3>1. CASE b # a
      BY <1>3, <1>8, <1>10, <3>1
    <3>2. CASE b = a /\ out.ok
      BY <1>8, <3>2
    <3>3. CASE b = a /\ ~out.ok
      BY <1>3, <1>8, <3>3
    <3> QED BY <1>3, <3>1, <3>2, <3>3
  <2> QED BY <2>1, <2>2, UniformGoesOn
<1>14. \A b \in Aliases : table'.gens[b] >= table.gens[b]
  BY <1>3, <1>8
<1> QED BY <1>8, <1>9, <1>12, <1>13, <1>14 DEF GoesOn, IInv

\* The table, the drivers and the health are as before.
LEMMA StillGoesOn ==
  ASSUME IInv, UNCHANGED <<table, made, names, checks>>, PolicyIsUniform',
         effective' \in Documents, timeout' \in Origins
  PROVE  GoesOn
<1>1. \A a \in Aliases : table'.gens[a] >= table.gens[a]
  <2>1. table.gens \in [Aliases -> Nat]
    BY DEF IInv, Good, SessionTables
  <2> QED BY <2>1
<1>2. Good(table', made') /\ Healthy'
  BY DEF IInv, Healthy, checks
<1> QED BY <1>1, <1>2 DEF GoesOn, Names

LEMMA ConnectGoesOn ==
  ASSUME IInv, NEW a \in Aliases, NEW r \in Resources, NEW replace \in BOOLEAN,
         NEW explicit \in BOOLEAN, Connect(a, r, replace, explicit)
  PROVE  GoesOn
<1>1. ConnectRaw /\ UNCHANGED <<effective, imported, timeout, applied, say>>
  BY DEF Connect
<1>2. CASE Reconnect(a, r, explicit)
  BY <1>1, <1>2, ReconnectGoesOn
<1>3. CASE ConnectNew(a, r, replace, explicit)
  BY <1>1, <1>3, ConnectNewGoesOn
<1>4. CASE ConnectRefused
  <2>1. UNCHANGED <<table, made, names, checks>>
    BY <1>4 DEF ConnectRefused
  <2>2. allowRaw' = allowRaw \/ allowRaw' = (effective \in RawDocs)
    BY <1>1 DEF ConnectRaw
  <2>3. PolicyIsUniform'
    BY <1>1, <2>1, <2>2, UniformGoesOn
  <2> QED BY <1>1, <2>1, <2>3, StillGoesOn DEF IInv
<1> QED BY <1>2, <1>3, <1>4 DEF Connect
-----------------------------------------------------------------------------
(* Closing, selecting, checking, setting a timeout.                        *)

LEMMA TableIs ==
  ASSUME IInv
  PROVE  /\ Good(table, made) /\ Registered(table) \subseteq Aliases
         /\ table \in SessionTables
         /\ table.sess \in [Aliases -> Kept] /\ table.gens \in [Aliases -> Nat]
         /\ health \in [Aliases -> {None, "ok", "bad"}] /\ foreign \in [Aliases -> BOOLEAN]
         /\ \A b \in Registered(table) :
              ~foreign[b] => health[b] \in Answered /\ health[b] = table.sess[b].answered
         /\ effective \in Documents /\ timeout \in Origins
         /\ \A a \in Aliases \cup {NoAlias} :
              Found(table, a) # NoAlias => Found(table, a) \in Aliases
<1>1. Good(table, made)
  BY DEF IInv
<1>2. /\ Registered(table) \subseteq Aliases /\ table \in SessionTables
      /\ table.sess \in [Aliases -> Kept] /\ table.gens \in [Aliases -> Nat]
      /\ table.active # NoAlias => table.active \in Registered(table)
  BY <1>1, RegisteredIsNamed
<1>3. \A a \in Aliases \cup {NoAlias} : Found(table, a) # NoAlias => Found(table, a) \in Aliases
  BY <1>2 DEF Found
<1> QED BY <1>1, <1>2, <1>3 DEF IInv, Healthy

\* The sessions that are there after the step were there before, with the same
\* policy, and the settings are the same.
LEMMA SettledGoesOn ==
  ASSUME IInv, NEW t, Good(t, made), t.gens = table.gens,
         Registered(t) \subseteq Registered(table),
         \A b \in Registered(t) : t.sess[b].rest = table.sess[b].rest,
         table' = t, UNCHANGED <<made, names, effective, allowRaw, applied, say>>,
         timeout' \in Origins, Healthy'
  PROVE  GoesOn
<1>1. \A a \in Aliases : table'.gens[a] >= table.gens[a]
  BY TableIs
<1>2. PolicyIsUniform'
  BY UniformGoesOn
<1> QED BY <1>1, <1>2, TableIs DEF GoesOn, Names

LEMMA ClosesGoesOn ==
  ASSUME IInv, NEW t, Good(t, made), t.gens = table.gens,
         Registered(t) \subseteq Registered(table),
         \A b \in Registered(t) : t.sess[b] = table.sess[b],
         NEW F, \A b \in F : b \notin Registered(t), Closes(t, F)
  PROVE  GoesOn
<1>1. /\ table' = t /\ health' = Forgets(health, F) /\ foreign' = foreign
      /\ UNCHANGED <<made, names, effective, imported, allowRaw, timeout, applied, say>>
  BY DEF Closes, settings
<1>2. /\ health' \in [Aliases -> {None, "ok", "bad"}]
      /\ \A b \in Aliases : b \notin F => health'[b] = health[b]
  BY <1>1, TableIs DEF Forgets
<1>3. Healthy'
  <2>1. ASSUME NEW b \in Registered(t), ~foreign[b]
        PROVE  health'[b] \in Answered /\ health'[b] = t.sess[b].answered
    <3>1. b \in Registered(table) /\ b \in Aliases /\ health'[b] = health[b]
      BY <1>2, TableIs
    <3> QED BY <2>1, <3>1, TableIs
  <2> QED BY <1>1, <1>2, <2>1, TableIs DEF Healthy
<1> QED BY <1>1, <1>3, SettledGoesOn, TableIs

LEMMA RemovingGoesOn ==
  ASSUME IInv, NEW b \in Registered(table), NEW F \in SUBSET {b},
         Closes(RemoveSession(table, b), F)
  PROVE  GoesOn
<1> DEFINE t == RemoveSession(table, b)
<1>1. /\ Good(t, made) /\ Registered(t) = Registered(table) \ {b}
      /\ t.sess = [table.sess EXCEPT ![b] = NoSession] /\ t.gens = table.gens
  BY TableIs, GoodRemove
<1> HIDE DEF t
<1>2. \A c \in Registered(t) : t.sess[c] = table.sess[c]
  BY <1>1, TableIs
<1>3. Closes(t, F) /\ \A c \in F : c \notin Registered(t)
  BY <1>1 DEF t
<1> QED BY <1>1, <1>2, <1>3, ClosesGoesOn

LEMMA RemovingAllGoesOn ==
  ASSUME IInv, NEW F, Closes(RemoveAll(table), F)
  PROVE  GoesOn
<1> DEFINE t == RemoveAll(table)
<1>1. Good(t, made) /\ Registered(t) = {} /\ t.gens = table.gens
  BY TableIs, GoodRemoveAll
<1> HIDE DEF t
<1>2. Closes(t, F)
  BY DEF t
<1> QED BY <1>1, <1>2, ClosesGoesOn

LEMMA ClosingGoesOn ==
  ASSUME IInv, NEW a \in Aliases \cup {NoAlias},
         CloseDmm(a) \/ Disconnect(a) \/ CloseAllDmms \/ DisconnectAll \/ ListenerClose
  PROVE  GoesOn
<1> DEFINE b == Found(table, a)
<1>1. CASE CloseDmm(a)
  <2>1. b \in Registered(table) /\ Closes(RemoveSession(table, b), {})
    BY <1>1 DEF CloseDmm, In
  <2> QED BY <2>1, RemovingGoesOn
<1>2. CASE Disconnect(a)
  <2>1. PICK raised \in BOOLEAN :
          b \in Registered(table) /\ Closes(RemoveSession(table, b), IF raised THEN {} ELSE {b})
    BY <1>2 DEF Disconnect, In
  <2>2. (IF raised THEN {} ELSE {b}) \in SUBSET {b}
    OBVIOUS
  <2> QED BY <2>1, <2>2, RemovingGoesOn
<1>3. CASE CloseAllDmms \/ DisconnectAll \/ ListenerClose
  BY <1>3, RemovingAllGoesOn DEF CloseAllDmms, DisconnectAll, ListenerClose
<1> QED BY <1>1, <1>2, <1>3

LEMMA SelectGoesOn ==
  ASSUME IInv, NEW a \in Aliases, SelectConnection(a)
  PROVE  GoesOn
<1> DEFINE t == Select(table, a)
<1>1. /\ Good(t, made) /\ Registered(t) = Registered(table)
      /\ t.sess = table.sess /\ t.gens = table.gens
  BY TableIs, GoodSelect DEF SelectConnection, In
<1>2. table' = t /\ UNCHANGED <<made, names, settings, checks>>
  BY DEF SelectConnection
<1> HIDE DEF t
<1>3. UNCHANGED <<effective, imported, allowRaw, timeout, applied, say, health, foreign>>
  BY <1>2 DEF settings, checks
<1>4. Healthy'
  BY <1>1, <1>2, <1>3, TableIs DEF Healthy
<1> QED BY <1>1, <1>2, <1>3, <1>4, SettledGoesOn, TableIs

LEMMA CheckedGoesOn ==
  ASSUME IInv, NEW t, Good(t, made), t.gens = table.gens,
         Registered(t) = Registered(table),
         \A c \in Registered(t) : t.sess[c].rest = table.sess[c].rest,
         \A c \in Registered(t) : t.sess[c].answered = table.sess[c].answered,
         NEW b \in Registered(t), Checked(b, t), UNCHANGED <<made, names, settings>>
  PROVE  GoesOn
<1>1. PICK result \in Answers(t, b) :
        /\ health' = [health EXCEPT ![b] = result]
        /\ table' = [t EXCEPT !.sess[b].answered = result]
        /\ foreign' = [foreign EXCEPT ![b] = FALSE]
  BY DEF Checked
<1> DEFINE k == [t.sess[b] EXCEPT !.answered = result]
           u == table'
<1>2. result \in Answered
  BY DEF Answers, Answered
<1>3. /\ t \in SessionTables /\ t.sess \in [Aliases -> Kept] /\ Registered(t) \subseteq Aliases
      /\ t.sess[b] \in Kept
  BY RegisteredIsNamed
<1>4. table' = Retuned(t, b, k)
  BY <1>1, <1>3 DEF Retuned, SessionTables
<1>5. /\ k \in Kept /\ k.driver = t.sess[b].driver /\ k.answered = result
      /\ k.rest = t.sess[b].rest
  BY <1>2, <1>3 DEF Kept
<1> HIDE DEF k
<1>6. /\ Good(u, made) /\ Registered(u) = Registered(t)
      /\ u.sess = [t.sess EXCEPT ![b] = k] /\ u.gens = t.gens
  BY <1>4, <1>5, GoodRetuned
<1> HIDE DEF u
<1>7. u.sess[b] = k /\ \A c \in Aliases \ {b} : u.sess[c] = t.sess[c]
  BY <1>3, <1>6
<1>8. /\ health' \in [Aliases -> {None, "ok", "bad"}] /\ foreign' \in [Aliases -> BOOLEAN]
      /\ health'[b] = result
      /\ \A c \in Aliases \ {b} : health'[c] = health[c] /\ foreign'[c] = foreign[c]
  BY <1>1, <1>2, <1>3, TableIs DEF Answered
<1>9. Healthy'
  <2>1. ASSUME NEW c \in Registered(u), ~foreign'[c]
        PROVE  health'[c] \in Answered /\ health'[c] = u.sess[c].answered
    <3>1. CASE c = b
      BY <1>2, <1>5, <1>7, <1>8, <3>1
    <3>2. CASE c # b
      <4>1. /\ c \in Registered(table) /\ c \in Aliases \ {b} /\ ~foreign[c]
        BY <1>3, <1>6, <1>8, <2>1, <3>2
      <4> QED BY <1>6, <1>7, <1>8, <4>1, TableIs
    <3> QED BY <3>1, <3>2
  <2> QED BY <1>8, <2>1 DEF Healthy, u
<1>10. \A c \in Registered(u) : u.sess[c].rest = table.sess[c].rest
  BY <1>3, <1>5, <1>6, <1>7
<1>11. table' = u
  BY DEF u
<1>12. UNCHANGED <<effective, imported, allowRaw, timeout, applied, say>>
  BY DEF settings
<1> QED BY <1>6, <1>9, <1>10, <1>11, <1>12, SettledGoesOn, TableIs

\* The timeout of a session is set to one a keyword was given.
LEMMA RetimedIs ==
  ASSUME IInv, NEW b \in Registered(table), NEW t, t = [table EXCEPT !.sess[b].timeout = Own]
  PROVE  /\ Good(t, made) /\ t.gens = table.gens /\ Registered(t) = Registered(table)
         /\ \A c \in Registered(t) : t.sess[c].rest = table.sess[c].rest
         /\ \A c \in Registered(t) : t.sess[c].answered = table.sess[c].answered
<1> DEFINE k == [table.sess[b] EXCEPT !.timeout = Own]
<1>1. /\ table \in SessionTables /\ table.sess \in [Aliases -> Kept] /\ table.sess[b] \in Kept
      /\ Registered(table) \subseteq Aliases /\ Good(table, made) /\ b \in Registered(table)
  BY TableIs
<1>2. t = Retuned(table, b, k)
  BY <1>1 DEF Retuned, SessionTables
<1>3. /\ k \in Kept /\ k.driver = table.sess[b].driver
      /\ k.answered = table.sess[b].answered /\ k.rest = table.sess[b].rest
  BY <1>1, OriginsAre DEF Kept
<1> HIDE DEF k
<1>4. /\ Good(t, made) /\ Registered(t) = Registered(table)
      /\ t.sess = [table.sess EXCEPT ![b] = k] /\ t.gens = table.gens
  BY ONLY <1>1, <1>2, <1>3, GoodRetuned
<1>5. t.sess[b] = k /\ \A c \in Aliases \ {b} : t.sess[c] = table.sess[c]
  BY <1>1, <1>4
<1> QED BY <1>1, <1>3, <1>4, <1>5

LEMMA CheckCommunicationGoesOn ==
  ASSUME IInv, NEW a \in Aliases \cup {NoAlias}, CheckCommunication(a)
  PROVE  GoesOn
<1> DEFINE b == Found(table, a)
<1>1. b \in Registered(table) /\ Checked(b, table) /\ UNCHANGED <<made, names, settings>>
  BY DEF CheckCommunication, In
<1> HIDE DEF b
<1> QED BY <1>1, CheckedGoesOn, TableIs

LEMMA ResetGoesOn ==
  ASSUME IInv, NEW a \in Aliases \cup {NoAlias}, ResetDevice(a)
  PROVE  GoesOn
<1> DEFINE b == Found(table, a)
<1>1. PICK t \in {table, [table EXCEPT !.sess[b].timeout = Own]} :
        \/ table' = t /\ UNCHANGED checks
        \/ Connected(t, b) /\ Checked(b, t)
  BY DEF ResetDevice
<1>2. b \in Registered(table) /\ UNCHANGED <<made, names, settings>>
  BY DEF ResetDevice, In
<1> HIDE DEF b
<1>3. /\ Good(t, made) /\ t.gens = table.gens /\ Registered(t) = Registered(table)
      /\ \A c \in Registered(t) : t.sess[c].rest = table.sess[c].rest
      /\ \A c \in Registered(t) : t.sess[c].answered = table.sess[c].answered
  <2>1. CASE t = table
    BY <2>1, TableIs
  <2>2. CASE t = [table EXCEPT !.sess[b].timeout = Own]
    BY <1>2, <2>2, RetimedIs
  <2> QED BY <1>1, <2>1, <2>2
<1>4. UNCHANGED <<effective, imported, allowRaw, timeout, applied, say>>
  BY <1>2 DEF settings
<1>5. CASE table' = t /\ UNCHANGED checks
  <2>1. health' = health /\ foreign' = foreign
    BY <1>5 DEF checks
  <2>2. Healthy'
    <3>1. ASSUME NEW c \in Registered(t), ~foreign[c]
          PROVE  health[c] \in Answered /\ health[c] = t.sess[c].answered
      BY <1>3, <3>1, TableIs
    <3> QED BY <1>5, <2>1, <3>1, TableIs DEF Healthy
  <2> QED BY <1>2, <1>3, <1>4, <1>5, <2>2, SettledGoesOn, TableIs
<1>6. CASE Connected(t, b) /\ Checked(b, t)
  BY <1>2, <1>3, <1>6, CheckedGoesOn
<1> QED BY <1>1, <1>5, <1>6

LEMMA SetTimeoutGoesOn ==
  ASSUME IInv, NEW a \in Aliases \cup {NoAlias},
         SetCommunicationTimeout(a) \/ QueryRawCommand(a) \/ ReadRawResponse(a)
  PROVE  GoesOn
<1> DEFINE b == Found(table, a)
<1>1. /\ IF b # NoAlias
           THEN /\ b \in Registered(table) /\ table' = [table EXCEPT !.sess[b].timeout = Own]
                /\ UNCHANGED timeout
           ELSE timeout' = Own /\ UNCHANGED table
      /\ UNCHANGED <<made, names, effective, imported, allowRaw, applied, say, checks>>
  BY DEF SetCommunicationTimeout, QueryRawCommand, ReadRawResponse, In
<1> HIDE DEF b
<1>2. health' = health /\ foreign' = foreign
  BY <1>1 DEF checks
<1>3. CASE b # NoAlias
  <2> DEFINE t == [table EXCEPT !.sess[b].timeout = Own]
  <2>1. b \in Registered(table) /\ table' = t /\ timeout' = timeout
    BY <1>1, <1>3
  <2>2. /\ Good(t, made) /\ t.gens = table.gens /\ Registered(t) = Registered(table)
        /\ \A c \in Registered(t) : t.sess[c].rest = table.sess[c].rest
        /\ \A c \in Registered(t) : t.sess[c].answered = table.sess[c].answered
    BY <2>1, RetimedIs
  <2> HIDE DEF t
  <2>3. Healthy'
    <3>1. ASSUME NEW c \in Registered(t), ~foreign[c]
          PROVE  health[c] \in Answered /\ health[c] = t.sess[c].answered
      BY <2>2, <3>1, TableIs
    <3> QED BY <1>2, <2>1, <3>1, TableIs DEF Healthy
  <2> QED BY <1>1, <2>1, <2>2, <2>3, SettledGoesOn, TableIs
<1>4. CASE b = NoAlias
  <2>1. timeout' \in Origins /\ table' = table
    BY <1>1, <1>4, OriginsAre
  <2>2. PolicyIsUniform'
    BY <1>1, <2>1, UniformGoesOn
  <2> QED BY <1>1, <2>1, <2>2, StillGoesOn, TableIs
<1> QED BY <1>3, <1>4
-----------------------------------------------------------------------------
(* Configuration.                                                          *)

LEMMA GovernedIs ==
  ASSUME IInv, NEW doc \in Documents
  PROVE  LET t == Governed(doc, Registered(table))
         IN  /\ Good(t, made) /\ t.gens = table.gens /\ Registered(t) = Registered(table)
             /\ \A c \in Registered(t) :
                  t.sess[c].rest = doc /\ t.sess[c].answered = table.sess[c].answered
<1> DEFINE R == Registered(table)
           f == [a \in Aliases |-> IF a \in R
                                     THEN [table.sess[a] EXCEPT !.timeout = doc, !.rest = doc]
                                     ELSE table.sess[a]]
           t == Governed(doc, R)
           Goal == /\ Good(t, made) /\ t.gens = table.gens /\ Registered(t) = R
                   /\ \A c \in Registered(t) :
                        t.sess[c].rest = doc /\ t.sess[c].answered = table.sess[c].answered
<1> SUFFICES Goal
  OBVIOUS
<1>1. /\ table \in SessionTables /\ table.sess \in [Aliases -> Kept]
      /\ R \subseteq Aliases /\ Good(table, made) /\ doc \in Origins
  BY TableIs, OriginsAre
<1>2. t = [table EXCEPT !.sess = f]
  BY <1>1 DEF Governed, SessionTables
<1> HIDE DEF t, R
<1>3. ASSUME NEW a \in Aliases
      PROVE  /\ f[a] \in Kept /\ f[a].driver = table.sess[a].driver
             /\ f[a].answered = table.sess[a].answered
             /\ a \in R => f[a].rest = doc
  BY <1>1 DEF Kept
<1>4. f \in [Aliases -> Kept]
  BY <1>3
<1> HIDE DEF f
<1>5. /\ t \in SessionTables /\ t.order = table.order /\ t.sess = f
      /\ t.open = table.open /\ t.active = table.active /\ t.gens = table.gens
  BY <1>1, <1>2, <1>4 DEF SessionTables
<1>6. Good(t, made)
  BY <1>1, <1>3, <1>5, GoodTuned
<1>7. Registered(t) = R
  BY <1>5 DEF Registered, R
<1> QED BY <1>1, <1>3, <1>5, <1>6, <1>7

LEMMA ConfiguresGoesOn ==
  ASSUME IInv, NEW doc \in Documents, Configures(doc)
  PROVE  GoesOn
<1> DEFINE t == Governed(doc, Registered(table))
<1>1. /\ effective' = doc /\ UNCHANGED <<made, names, checks>> /\ say' = None
      /\ timeout' = (IF ApplySteps(doc).timeout THEN doc ELSE timeout)
      /\ allowRaw' = (IF ApplySteps(doc).raw THEN doc \in RawDocs ELSE allowRaw)
      /\ table' = (IF ApplySteps(doc).drivers THEN t ELSE table)
      /\ applied' = (IF Lacks[doc] = "nothing" \/ (Lacks[doc] = "policy" /\ table.order = <<>>)
                       THEN doc ELSE None)
  BY DEF Configures, ApplyEffectivePolicy
<1>2. timeout' \in Origins /\ effective' \in Documents
  BY <1>1, OriginsAre, TableIs
<1>3. health' = health /\ foreign' = foreign /\ made' = made /\ names' = names
  BY <1>1 DEF checks
<1>4. /\ Good(t, made) /\ t.gens = table.gens /\ Registered(t) = Registered(table)
      /\ \A c \in Registered(t) :
           t.sess[c].rest = doc /\ t.sess[c].answered = table.sess[c].answered
  BY GovernedIs
<1> HIDE DEF t
<1>5. /\ Good(table', made) /\ table'.gens = table.gens /\ Registered(table') = Registered(table)
      /\ \A c \in Registered(table') : table'.sess[c].answered = table.sess[c].answered
  BY <1>1, <1>4, TableIs
<1>6. Healthy'
  <2>1. ASSUME NEW c \in Registered(table'), ~foreign[c]
        PROVE  health[c] \in Answered /\ health[c] = table'.sess[c].answered
    BY <1>5, <2>1, TableIs
  <2> QED BY <1>3, <2>1, TableIs DEF Healthy
<1>7. PolicyIsUniform'
  <2> SUFFICES ASSUME applied' # None
               PROVE  /\ \A c \in Registered(table') : table'.sess[c].rest \in {Own, doc}
                      /\ allowRaw' => say' = "yes" \/ doc \in RawDocs
    BY <1>1 DEF PolicyIsUniform
  <2>1. Lacks[doc] = "nothing" \/ (Lacks[doc] = "policy" /\ table.order = <<>>)
    BY <1>1
  <2>2. allowRaw' = (doc \in RawDocs)
    BY <1>1, <2>1 DEF ApplySteps
  <2>3. \A c \in Registered(table') : table'.sess[c].rest = doc
    <3>1. CASE Lacks[doc] = "nothing"
      BY <1>1, <1>4, <3>1 DEF ApplySteps
    <3>2. CASE table.order = <<>>
      <4>1. Registered(table) = {}
        BY <3>2, EmptyIs DEF Registered, EmptyTable
      <4> QED BY <1>5, <4>1
    <3> QED BY <2>1, <3>1, <3>2
  <2> QED BY <2>2, <2>3
<1>8. \A a \in Aliases : table'.gens[a] >= table.gens[a]
  BY <1>5, TableIs
<1> QED BY <1>2, <1>3, <1>5, <1>6, <1>7, <1>8 DEF GoesOn, Names

LEMMA SetRawGoesOn ==
  ASSUME IInv, NEW b \in BOOLEAN, SetRawIoEnabled(b)
  PROVE  GoesOn
<1>1. /\ allowRaw' = b /\ say' = (IF b THEN "yes" ELSE "no")
      /\ UNCHANGED <<table, made, names, checks>> /\ effective' = effective
      /\ timeout' = timeout /\ applied' = applied
  BY DEF SetRawIoEnabled
<1>2. PolicyIsUniform'
  <2> SUFFICES ASSUME applied # None
               PROVE  /\ \A c \in Registered(table) : table.sess[c].rest \in {Own, effective}
                      /\ b => say' = "yes" \/ effective \in RawDocs
    BY <1>1 DEF PolicyIsUniform
  <2>1. \A c \in Registered(table) : table.sess[c].rest \in {Own, effective}
    BY DEF IInv, PolicyIsUniform
  <2>2. b => say' = "yes"
    BY <1>1
  <2> QED BY <2>1, <2>2
<1> QED BY <1>1, <1>2, StillGoesOn, TableIs
-----------------------------------------------------------------------------
(* The theorems.                                                           *)

LEMMA Starts == Init => IInv
<1> SUFFICES ASSUME Init PROVE IInv
  OBVIOUS
<1>1. /\ table = EmptyTable /\ made = 0 /\ names = [d \in Drivers |-> <<>>]
      /\ health = [a \in Aliases |-> None] /\ foreign = [a \in Aliases |-> FALSE]
      /\ effective = Default /\ timeout = Own /\ applied = Default
      /\ say = (IF allowRaw THEN "yes" ELSE None) /\ allowRaw \in BOOLEAN
  BY DEF Init
<1>2. NoSession \in Kept /\ NoSession.driver = NoDriver
  BY OriginsAre DEF NoSession, Session, Kept, NoDriver
<1>3. /\ table.order = <<>> /\ table.active = NoAlias /\ table.open = {}
      /\ table.sess = [a \in Aliases |-> NoSession] /\ Registered(table) = {}
      /\ IsInjective(table.order) /\ table.gens = [a \in Aliases |-> 0]
  BY <1>1, EmptyIs DEF EmptyTable
<1>4. table \in SessionTables
  <2> DEFINE f == [a \in Aliases |-> NoSession]
             g == [a \in Aliases |-> 0]
  <2>1. f \in [Aliases -> Kept] /\ g \in [Aliases -> Nat]
    BY <1>2
  <2>2. table = [order |-> <<>>, sess |-> f, active |-> NoAlias, gens |-> g, open |-> {}]
    BY <1>1 DEF EmptyTable
  <2> HIDE DEF f, g
  <2> QED BY <2>1, <2>2 DEF SessionTables
<1>5. Holds(table, made)
  <2>1. \A a \in Aliases : table.sess[a].driver = NoDriver
    BY <1>2, <1>3
  <2> QED BY <1>3, <2>1 DEF Holds
<1>6. Good(table, made)
  BY <1>3, <1>4, <1>5 DEF Good, Selects
<1>7. Named
  BY <1>1, SessionsAssumption DEF Named, SessionIdsAreUnique
<1>8. Healthy
  BY <1>1, <1>3 DEF Healthy
<1>9. PolicyIsUniform
  BY <1>1, <1>3 DEF PolicyIsUniform
<1> QED BY <1>1, <1>6, <1>7, <1>8, <1>9, OriginsAre DEF IInv, Documents

LEMMA GoesOnAlways == IInv /\ [Next]_vars => IInv'
<1> SUFFICES ASSUME IInv, [Next]_vars PROVE IInv'
  OBVIOUS
<1> SUFFICES GoesOn
  BY InvGoesOn
<1>1. CASE \E a \in Aliases, r \in Resources, replace \in BOOLEAN : OpenDmm(a, r, replace)
  BY <1>1, OpenDmmGoesOn
<1>2. CASE \E a \in Aliases, r \in Resources, replace, explicit \in BOOLEAN :
             Connect(a, r, replace, explicit)
  BY <1>2, ConnectGoesOn
<1>3. CASE \E a \in Aliases \cup {NoAlias} :
             \/ CloseDmm(a) \/ Disconnect(a) \/ CheckCommunication(a)
             \/ ResetDevice(a) \/ SetCommunicationTimeout(a)
             \/ QueryRawCommand(a) \/ ReadRawResponse(a)
  BY <1>3, ClosingGoesOn, CheckCommunicationGoesOn, ResetGoesOn, SetTimeoutGoesOn
<1>4. CASE \E a \in Aliases : SelectConnection(a)
  BY <1>4, SelectGoesOn
<1>5. CASE CloseAllDmms \/ DisconnectAll \/ ListenerClose
  BY <1>5, ClosingGoesOn
<1>6. CASE \E doc \in Docs : ImportConfiguration(doc)
  <2>1. PICK doc \in Docs : Configures(doc)
    BY <1>6 DEF ImportConfiguration
  <2> QED BY <2>1, ConfiguresGoesOn DEF Documents
<1>7. CASE ResetConfiguration
  BY <1>7, ConfiguresGoesOn DEF ResetConfiguration, Documents
<1>8. CASE \E b \in BOOLEAN : SetRawIoEnabled(b)
  BY <1>8, SetRawGoesOn
<1>9. CASE UNCHANGED vars
  <2>1. UNCHANGED <<table, made, names, checks, effective, timeout, allowRaw, applied, say>>
    BY <1>9 DEF vars, settings
  <2>2. PolicyIsUniform'
    BY <2>1 DEF PolicyIsUniform, IInv
  <2> QED BY <2>1, <2>2, StillGoesOn, TableIs
<1> QED BY <1>1, <1>2, <1>3, <1>4, <1>5, <1>6, <1>7, <1>8, <1>9 DEF Next

LEMMA AlwaysGood == Spec => []IInv
BY Starts, GoesOnAlways, PTL DEF Spec

\* However connecting, adding, checking, replacing and applying the policy fail,
\* each open driver belongs to exactly one session.
THEOREM NothingForgotten == Spec => []NoForgottenDriver
<1>1. IInv => NoForgottenDriver
  BY DEF IInv, Good, Holds, NoForgottenDriver, DriverOf
<1> QED BY <1>1, AlwaysGood, PTL

\* Something is selected as long as a session is open: close() hands the
\* selection to the first session that is left.
THEOREM AlwaysSelected == Spec => []SomethingIsSelected
<1>1. IInv => SomethingIsSelected
  BY DEF IInv, Good, Selects, SomethingIsSelected, In
<1> QED BY <1>1, AlwaysGood, PTL

\* No two connections get the same session_id, since add() counts the
\* generations of an alias on beyond the sessions that are closed.
THEOREM IdsAreUnique == Spec => []SessionIdsAreUnique
<1>1. IInv => SessionIdsAreUnique
  BY DEF IInv, Named
<1> QED BY <1>1, AlwaysGood, PTL

\* The health that is shown is that of the session's own driver, where no
\* keyword bypassed the check of it.
THEOREM HealthIsOwn == Spec => []HealthIsOfThisDriver
<1>1. ASSUME IInv PROVE HealthIsOfThisDriver
  <2> SUFFICES ASSUME NEW a \in Registered(table), ~foreign[a]
               PROVE  CommunicationOk(a) = (table.sess[a].answered = "ok")
    BY DEF HealthIsOfThisDriver
  <2>1. health[a] \in Answered /\ health[a] = table.sess[a].answered
    BY <1>1, TableIs
  <2>2. health[a] # None
    BY <2>1 DEF Answered, None
  <2> QED BY <2>1, <2>2 DEF CommunicationOk
<1> QED BY <1>1, AlwaysGood, PTL

\* An open driver's policy is its keyword's or the effective document's, and
\* raw I/O needs that document's or the keyword's leave.
THEOREM AlwaysUniform == Spec => []PolicyIsUniform
<1>1. IInv => PolicyIsUniform
  BY DEF IInv
<1> QED BY <1>1, AlwaysGood, PTL
=============================================================================
