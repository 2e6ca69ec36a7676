---------------------------- MODULE PtlTaskProofs ----------------------------
(***************************************************************************)
(* Handlers that follow one another, whatever sweeps, expiries and crashes *)
(* come between any two of their statements: one location is lit for one   *)
(* task, what was confirmed stays so, and a task is completed only when    *)
(* all of it was.                                                          *)
(***************************************************************************)
EXTENDS PtlTask, FiniteSetTheorems, WellFoundedInduction, TLAPS

-----------------------------------------------------------------------------
(* Sequences of sequences, put end to end *)

\* A set of natural numbers has a least one.
LEMMA Least ==
  ASSUME NEW Bad, Bad \subseteq Nat, Bad # {}
  PROVE  \E n \in Bad : \A m \in Bad : n <= m
<1> DEFINE R == OpToRel(<, Nat)
<1>1. IsWellFoundedOn(R, Nat)
  BY NatLessThanWellFounded
<1>2. \A x, y \in Nat : <<y, x>> \in R <=> y < x
  BY DEF OpToRel
<1> HIDE DEF R
<1>3. PICK x \in Bad : \A y \in Bad : ~ (<<y, x>> \in R)
  BY <1>1, WFMin
<1>4. \A y \in Bad : ~ (y < x)
  BY <1>2, <1>3
<1>5. \A y \in Bad : x <= y
  BY <1>4
<1> QED
  BY <1>5

\* The recursion behind FlattenSeq: g tells what the first i parts make together.
Joins(ss, n, g) ==
  g = [i \in 1..n |-> IF i = 1 THEN ss[i] ELSE g[i - 1] \o ss[i]]

Joined(ss, n) == (CHOOSE g : Joins(ss, n, g))[n]

LEMMA FlattenIsJoined ==
  ASSUME NEW S, NEW ss \in Seq(S), ss # <<>>
  PROVE  FlattenSeq(ss) = Joined(ss, Len(ss))
<1>1. Len(ss) # 0
  OBVIOUS
<1> QED
  BY <1>1 DEF FlattenSeq, Joined, Joins

LEMMA JoinsAt ==
  ASSUME NEW ss, NEW n \in Nat, NEW g, Joins(ss, n, g)
  PROVE  \A i \in 1..n : g[i] = IF i = 1 THEN ss[i] ELSE g[i - 1] \o ss[i]
BY DEF Joins

\* The recursion has a solution, and what it says of the first parts does not depend
\* on how many there are.
LEMMA JoinsAgree ==
  ASSUME NEW ss, NEW m \in Nat, NEW n \in Nat, NEW g, NEW h, Joins(ss, m, g), Joins(ss, n, h),
         NEW k \in 1..m, k \in 1..n
  PROVE  g[k] = h[k]
<1> DEFINE Bad == {i \in 1..k : g[i] # h[i]}
<1>1. SUFFICES ASSUME Bad # {} PROVE FALSE
  OBVIOUS
<1>2. PICK i \in Bad : \A j \in Bad : i <= j
  <2>1. Bad \subseteq Nat
    OBVIOUS
  <2> HIDE DEF Bad
  <2> QED
    BY <1>1, <2>1, Least
<1>3. i # 1 => i - 1 \in 1..k /\ i - 1 \notin Bad
  BY <1>2
<1>4. /\ g[i] = IF i = 1 THEN ss[i] ELSE g[i - 1] \o ss[i]
      /\ h[i] = IF i = 1 THEN ss[i] ELSE h[i - 1] \o ss[i]
  <2>1. i \in 1..m /\ i \in 1..n
    BY <1>2
  <2> QED
    BY <2>1, JoinsAt
<1> QED
  BY <1>2, <1>3, <1>4

LEMMA JoinsExist ==
  ASSUME NEW ss, NEW n \in Nat
  PROVE  \E g : Joins(ss, n, g)
<1> DEFINE Bad == {m \in Nat : ~ \E g : Joins(ss, m, g)}
<1>1. SUFFICES ASSUME Bad # {} PROVE FALSE
  OBVIOUS
<1>2. PICK m \in Bad : \A j \in Bad : m <= j
  <2>1. Bad \subseteq Nat
    OBVIOUS
  <2> HIDE DEF Bad
  <2> QED
    BY <1>1, <2>1, Least
<1>3. m # 0
  <2>1. Joins(ss, 0, [i \in 1..0 |-> ss[i]])
    BY DEF Joins
  <2> QED
    BY <1>2, <2>1
<1>4. PICK g : Joins(ss, m - 1, g)
  BY <1>2, <1>3
<1> DEFINE h == [i \in 1..m |-> IF i = 1 THEN ss[i] ELSE g[i - 1] \o ss[i]]
<1>5. \A i \in 1..m : i # 1 => h[i - 1] = g[i - 1]
  <2>1. \A i \in 1..(m - 1) : g[i] = IF i = 1 THEN ss[i] ELSE g[i - 1] \o ss[i]
    BY <1>4 DEF Joins
  <2> QED
    BY <2>1
<1>6. Joins(ss, m, h)
  BY <1>5 DEF Joins
<1> QED
  BY <1>2, <1>6

LEMMA JoinedUnfold ==
  ASSUME NEW ss, NEW n \in Nat \ {0}
  PROVE  Joined(ss, n) = IF n = 1 THEN ss[n] ELSE Joined(ss, n - 1) \o ss[n]
<1> DEFINE g == CHOOSE g : Joins(ss, n, g)
           h == CHOOSE h : Joins(ss, n - 1, h)
<1>1. Joins(ss, n, g) /\ Joined(ss, n) = g[n]
  BY JoinsExist DEF Joined
<1>2. Joins(ss, n - 1, h) /\ Joined(ss, n - 1) = h[n - 1]
  BY JoinsExist DEF Joined
<1> HIDE DEF g, h
<1>3. n # 1 => g[n - 1] = h[n - 1]
  BY <1>1, <1>2, JoinsAgree
<1>4. g[n] = IF n = 1 THEN ss[n] ELSE g[n - 1] \o ss[n]
  <2>1. n \in 1..n
    OBVIOUS
  <2> QED
    BY <1>1, <2>1, JoinsAt
<1> QED
  BY <1>1, <1>2, <1>3, <1>4

\* What is put together comes from the parts.
LEMMA FlattenFromParts ==
  ASSUME NEW S, NEW ss \in Seq(Seq(S))
  PROVE  FlattenSeq(ss) \in Seq(S)
<1> DEFINE Bad == {n \in 1..Len(ss) : Joined(ss, n) \notin Seq(S)}
<1>1. Bad = {}
  <2>1. SUFFICES ASSUME Bad # {} PROVE FALSE
    OBVIOUS
  <2>2. PICK n \in Bad : \A m \in Bad : n <= m
    <3>1. Bad \subseteq Nat
      OBVIOUS
    <3> HIDE DEF Bad
    <3> QED
      BY <2>1, <3>1, Least
  <2>3. n # 1 => Joined(ss, n - 1) \in Seq(S)
    BY <2>2
  <2>4. ss[n] \in Seq(S) /\ n \in Nat \ {0}
    BY <2>2
  <2>5. Joined(ss, n) = IF n = 1 THEN ss[n] ELSE Joined(ss, n - 1) \o ss[n]
    BY <2>4, JoinedUnfold
  <2>6. Joined(ss, n) \in Seq(S)
    BY <2>3, <2>4, <2>5
  <2> QED
    BY <2>2, <2>6
<1>2. CASE ss = <<>>
  BY <1>2 DEF FlattenSeq
<1>3. CASE ss # <<>>
  BY <1>1, <1>3, FlattenIsJoined
<1> QED
  BY <1>2, <1>3

\* Parts of one element each make the sequence of those elements.
LEMMA FlattenSingles ==
  ASSUME NEW S, NEW s \in Seq(S), NEW ss, ss = [i \in DOMAIN s |-> <<s[i]>>]
  PROVE  FlattenSeq(ss) = s
<1> DEFINE Bad == {n \in 1..Len(s) : Joined(ss, n) # SubSeq(s, 1, n)}
<1>0. ss \in Seq(Seq(S)) /\ Len(ss) = Len(s)
  <2>1. \A i \in DOMAIN s : <<s[i]>> \in Seq(S)
    OBVIOUS
  <2>2. ss \in [1..Len(s) -> Seq(S)]
    BY <2>1
  <2> QED
    BY <2>2
<1>1. Bad = {}
  <2>1. SUFFICES ASSUME Bad # {} PROVE FALSE
    OBVIOUS
  <2>2. PICK n \in Bad : \A m \in Bad : n <= m
    <3>1. Bad \subseteq Nat
      OBVIOUS
    <3> HIDE DEF Bad
    <3> QED
      BY <2>1, <3>1, Least
  <2>3. n # 1 => Joined(ss, n - 1) = SubSeq(s, 1, n - 1)
    BY <2>2
  <2>4. ss[n] = <<s[n]>>
    BY <2>2
  <2>5. n # 1 => SubSeq(s, 1, n) = SubSeq(s, 1, n - 1) \o <<s[n]>>
    BY <2>2
  <2>6. SubSeq(s, 1, 1) = <<s[1]>>
    <3> DEFINE u == SubSeq(s, 1, 1)
               v == <<s[1]>>
    <3>1. 1 \in 1..Len(s)
      BY <2>2
    <3>2. u \in Seq(S) /\ Len(u) = 1 /\ u[1] = s[1]
      BY <3>1
    <3>3. v \in Seq(S) /\ Len(v) = 1 /\ v[1] = s[1]
      BY <3>1
    <3> HIDE DEF u, v
    <3>4. u = v
      BY <3>2, <3>3
    <3> QED
      BY <3>4 DEF u, v
  <2>7. n \in Nat \ {0}
    BY <2>2
  <2>8. Joined(ss, n) = IF n = 1 THEN ss[n] ELSE Joined(ss, n - 1) \o ss[n]
    BY <2>7, JoinedUnfold
  <2>9. Joined(ss, n) = SubSeq(s, 1, n)
    BY <2>3, <2>4, <2>5, <2>6, <2>8
  <2> QED
    BY <2>2, <2>9
<1>2. CASE s = <<>>
  BY <1>2 DEF FlattenSeq
<1>3. CASE s # <<>>
  <2>1. FlattenSeq(ss) = Joined(ss, Len(s))
    BY <1>0, <1>3, FlattenIsJoined
  <2>2. Joined(ss, Len(s)) = SubSeq(s, 1, Len(s))
    <3>1. Len(s) \in 1..Len(s)
      BY <1>3
    <3> QED
      BY <1>1, <3>1
  <2>3. SubSeq(s, 1, Len(s)) = s
    OBVIOUS
  <2> QED
    BY <2>1, <2>2, <2>3
<1> QED
  BY <1>2, <1>3

\* The same for parts indexed by the elements of a sequence.
LEMMA PartsOf ==
  ASSUME NEW S, NEW U, NEW s \in Seq(U), NEW n, \A i \in DOMAIN s : n[i] \in Seq(S),
         NEW ss, DOMAIN ss = DOMAIN s, ss = [i \in DOMAIN ss |-> n[i]]
  PROVE  FlattenSeq(ss) \in Seq(S)
<1>1. ss \in [1..Len(s) -> Seq(S)] /\ Len(s) \in Nat
  OBVIOUS
<1>2. ss \in Seq(Seq(S))
  BY <1>1
<1> QED
  BY <1>2, FlattenFromParts

\* The elements of a finite set, in some order.
LEMMA InSomeOrder ==
  ASSUME NEW S, IsFiniteSet(S)
  PROVE  SetToSeq(S) \in Seq(S)
<1>1. \E f \in [1..Cardinality(S) -> S] : IsInjective(f)
  BY FS_CardinalityType DEF ExistsBijection, Bijection, Injection, IsInjective
<1> QED
  BY <1>1, FS_CardinalityType DEF SetToSeq

-----------------------------------------------------------------------------
(* What a handler may still do *)

Ahead(w) == ToSet(hand[w].todo)

\* The statements there are: on an item, on a location, on the task.
Sound ==
  {s \in Statement :
     /\ s.op \in {"addItem", "saveItem", "send", "hold", "release"} => s.row \in Stocked
     /\ s.op = "saveItem" => s.to \in ItemStatus
     /\ s.op = "saveTask" => s.to \in TaskStatus}

\* A task is created first of all, if it is.
Later == {s \in Sound : s.op # "create"}
CreatesFirst(todo) ==
  todo \in Seq(Sound) /\ \A i \in DOMAIN todo : todo[i].op = "create" => i = 1

Lights(s) == s.op \in {"addItem", "send"} \/ (s.op = "saveItem" /\ s.to \in Lit)
Confirms(s) == s.op = "saveItem" /\ s.to = "CONFIRMED"
Unconfirms(s) == s.op \in {"addItem", "send"} \/ (s.op = "saveItem" /\ s.to # "CONFIRMED")
Completes(s) == s.op = "saveTask" /\ s.to = "COMPLETED"

\* The rows that statements of S give an item or write one of.
RowsIn(S) == {r \in Stocked : \E s \in S : s.op \in {"addItem", "saveItem", "send"} /\ s.row = r}

Creates(S) == \E s \in S : s.op = "create"

\* A task that is still to be created has no items, and gets those that are written.
Begun(t, S) ==
  Creates(S) =>
    /\ tasks[t] = NoRow
    /\ \A s \in S : s.op \in {"saveItem", "send"}
                      => \E a \in S : a.op = "addItem" /\ a.row = s.row

\* Else it counts all of its items, also those still to be added, and so does the copy.
Numbered(t, copy, S) ==
  S # {} /\ ~Creates(S) =>
    /\ tasks[t].status # "none"
    /\ copy.total = tasks[t].total
    /\ Cardinality(ItemsOf(t) \union RowsIn(S)) <= tasks[t].total

\* What will be lit is lit for nobody else.
Unlit(t, S) ==
  \A s \in S : Lights(s) =>
    \A u \in Task, q \in Stocked :
      items[u][q] \in Lit /\ SpotOf[q] = SpotOf[s.row] => u = t

\* Whoever is going to write another status than CONFIRMED writes over none, and
\* neither confirms nor completes.
Harmless(t, S) ==
  \A s \in S : Unconfirms(s) =>
    /\ items[t][s.row] # "CONFIRMED"
    /\ tasks[t].status # "COMPLETED"
    /\ \A c \in S : ~Confirms(c) /\ ~Completes(c)

\* Whoever is going to complete a task has seen all of it confirmed.
Earned(t, S) ==
  (\E s \in S : Completes(s)) => \A r \in ItemsOf(t) : items[t][r] = "CONFIRMED"

Fit(t, copy, S) ==
  /\ Begun(t, S) /\ Numbered(t, copy, S) /\ Unlit(t, S) /\ Harmless(t, S) /\ Earned(t, S)

-----------------------------------------------------------------------------
(* The invariant *)

Busy(w) == hand[w].todo # <<>>

PtlShape ==
  /\ PtlTypeOK
  /\ hand \in [Hand -> [task : Task \union {NoTask}, copy : TaskRow, todo : Seq(Sound)]]
  /\ \A w \in Hand : Busy(w) => hand[w].task \in Task /\ CreatesFirst(hand[w].todo)

\* Items belong to tasks that were created, and a task counts its items.
Filed ==
  \A t \in Task : /\ tasks[t].status = "none" => ItemsOf(t) = {}
                  /\ Cardinality(ItemsOf(t)) <= tasks[t].total

OneLit ==
  \A t, u \in Task, r, q \in Stocked :
    items[t][r] \in Lit /\ items[u][q] \in Lit /\ SpotOf[r] = SpotOf[q] => t = u

DoneIsConfirmed ==
  \A t \in Task : tasks[t].status = "COMPLETED" =>
    \A r \in ItemsOf(t) : items[t][r] = "CONFIRMED"

\* One handler at most is at work, and what it has ahead fits the rows.
Alone ==
  /\ \A v, w \in Hand : Busy(v) /\ Busy(w) => v = w
  /\ \A w \in Hand : Busy(w) => Fit(hand[w].task, hand[w].copy, Ahead(w))

Safe == Filed /\ OneLit /\ DoneIsConfirmed

PtlInv == PtlShape /\ (~raced => Safe /\ Alone)

-----------------------------------------------------------------------------
(* Statements put one after the other *)

LEMMA Elements ==
  ASSUME NEW S, NEW q \in Seq(S)
  PROVE  ToSet(q) \subseteq S
BY DEF ToSet

LEMMA ElementsOfBoth ==
  ASSUME NEW S, NEW p \in Seq(S), NEW q \in Seq(S)
  PROVE  ToSet(p \o q) = ToSet(p) \union ToSet(q)
<1>1. ASSUME NEW x \in ToSet(p \o q) PROVE x \in ToSet(p) \union ToSet(q)
  <2>1. PICK i \in 1..(Len(p) + Len(q)) : x = (p \o q)[i]
    BY DEF ToSet
  <2>2. CASE i <= Len(p)
    BY <2>1, <2>2 DEF ToSet
  <2>3. CASE i > Len(p)
    <3>1. x = q[i - Len(p)] /\ i - Len(p) \in 1..Len(q)
      BY <2>1, <2>3
    <3> QED
      BY <3>1 DEF ToSet
  <2> QED
    BY <2>1, <2>2, <2>3
<1>2. ASSUME NEW x \in ToSet(p) PROVE x \in ToSet(p \o q)
  <2>1. PICK i \in 1..Len(p) : x = p[i]
    BY <1>2 DEF ToSet
  <2>2. i \in DOMAIN (p \o q) /\ (p \o q)[i] = x
    BY <2>1
  <2> QED
    BY <2>2 DEF ToSet
<1>3. ASSUME NEW x \in ToSet(q) PROVE x \in ToSet(p \o q)
  <2>1. PICK i \in 1..Len(q) : x = q[i]
    BY <1>3 DEF ToSet
  <2>2. Len(p) + i \in DOMAIN (p \o q) /\ (p \o q)[Len(p) + i] = x
    BY <2>1
  <2> QED
    BY <2>2 DEF ToSet
<1> QED
  BY <1>1, <1>2, <1>3

LEMMA LaterIsFine ==
  ASSUME NEW q \in Seq(Later)
  PROVE  q \in Seq(Sound) /\ CreatesFirst(q) /\ ~Creates(ToSet(q)) /\ ToSet(q) \subseteq Later
<1>1. q \in Seq(Sound) /\ \A i \in DOMAIN q : q[i].op # "create"
  BY DEF Later
<1> QED
  BY <1>1 DEF CreatesFirst, Creates, ToSet, Later

LEMMA Longer ==
  ASSUME NEW p, CreatesFirst(p), p # <<>>, NEW q \in Seq(Later)
  PROVE  /\ CreatesFirst(p \o q) /\ p \o q # <<>>
         /\ ToSet(p \o q) = ToSet(p) \union ToSet(q)
<1>1. p \in Seq(Sound) /\ q \in Seq(Sound)
  BY LaterIsFine DEF CreatesFirst
<1>2. p \o q \in Seq(Sound) /\ Len(p \o q) = Len(p) + Len(q) /\ Len(p) > 0
  BY <1>1
<1>3. ASSUME NEW i \in DOMAIN (p \o q), (p \o q)[i].op = "create" PROVE i = 1
  <2>1. CASE i <= Len(p)
    BY <1>1, <1>3, <2>1 DEF CreatesFirst
  <2>2. CASE i > Len(p)
    <3>1. i - Len(p) \in DOMAIN q /\ (p \o q)[i] = q[i - Len(p)]
      BY <1>1, <1>2, <2>2
    <3> QED
      BY <1>3, <3>1 DEF Later
  <2> QED
    BY <1>1, <1>2, <2>1, <2>2
<1>4. p \o q # <<>>
  BY <1>2
<1>5. ToSet(p \o q) = ToSet(p) \union ToSet(q)
  BY <1>1, ElementsOfBoth
<1> QED
  BY <1>2, <1>3, <1>4, <1>5 DEF CreatesFirst

\* What is left after the first statement, and after the first n.
LEMMA Leftover ==
  ASSUME NEW q, CreatesFirst(q), q # <<>>
  PROVE  /\ q[1] \in ToSet(q) /\ q[1] \in Sound
         /\ Tail(q) \in Seq(Later) /\ ToSet(Tail(q)) \subseteq ToSet(q)
         /\ q[1].op # "create" => q \in Seq(Later)
<1>1. q \in Seq(Sound) /\ Len(q) >= 1 /\ 1 \in DOMAIN q
  BY DEF CreatesFirst
<1>2. \A i \in 1..(Len(q) - 1) : Tail(q)[i] = q[i + 1] /\ i + 1 \in DOMAIN q
  BY <1>1
<1>3. Tail(q) \in Seq(Sound) /\ Len(Tail(q)) = Len(q) - 1
  BY <1>1
<1>4. \A i \in 1..(Len(q) - 1) : Tail(q)[i] \in Later
  BY <1>1, <1>2, <1>3 DEF CreatesFirst, Later
<1>5. Tail(q) \in Seq(Later)
  <2> DEFINE u == Tail(q)
  <2>1. u \in Seq(Sound) /\ Len(u) = Len(q) - 1 /\ \A i \in 1..(Len(q) - 1) : u[i] \in Later
    BY <1>3, <1>4
  <2> HIDE DEF u
  <2>2. \A i \in 1..Len(u) : u[i] \in Later
    BY <2>1
  <2>3. u \in Seq(Later)
    BY <2>1, <2>2
  <2> QED
    BY <2>3 DEF u
<1>6. ToSet(Tail(q)) \subseteq ToSet(q)
  BY <1>1, <1>2, <1>3 DEF ToSet
<1>7. q[1].op # "create" => \A i \in DOMAIN q : q[i] \in Later
  BY <1>1 DEF CreatesFirst, Later
<1>8. q[1].op # "create" => q \in Seq(Later)
  BY <1>1, <1>7
<1>9. q[1] \in ToSet(q) /\ q[1] \in Sound
  BY <1>1 DEF ToSet
<1> QED
  BY <1>5, <1>6, <1>8, <1>9

LEMMA LeftoverOfMany ==
  ASSUME NEW q \in Seq(Later), NEW n \in Nat
  PROVE  /\ SubSeq(q, n + 1, Len(q)) \in Seq(Later)
         /\ ToSet(SubSeq(q, n + 1, Len(q))) \subseteq ToSet(q)
<1> DEFINE p == SubSeq(q, n + 1, Len(q))
<1>1. /\ p \in Seq(Later)
      /\ \A i \in DOMAIN p : n + i \in DOMAIN q /\ p[i] = q[n + i]
  OBVIOUS
<1> HIDE DEF p
<1>2. ToSet(p) \subseteq ToSet(q)
  BY <1>1 DEF ToSet
<1> QED
  BY <1>1, <1>2 DEF p

-----------------------------------------------------------------------------
(* What handlers set out to do *)

\* lightUp adds an item for each row it goes on to light.
LightStmt(R) ==
  {s \in Later : /\ s.op \in {"addItem", "hold", "saveItem", "send"} => s.row \in R
                 /\ s.op = "saveItem" => s.to = "LIGHTING"
                 /\ s.op = "saveTask" => s.to = "LIGHTING"}

LEMMA LightStatements ==
  ASSUME NEW rows, rows \subseteq Stocked, IsFiniteSet(rows)
  PROVE  \E R \in SUBSET Stocked :
           /\ CreatesFirst(LightProgram(rows)) /\ LightProgram(rows) # <<>>
           /\ ToSet(LightProgram(rows))
                \subseteq {Stmt("create", NoStock, "-")} \union LightStmt(R)
           /\ \A r \in R : \E a \in ToSet(LightProgram(rows)) : a.op = "addItem" /\ a.row = r
           /\ \E s \in ToSet(LightProgram(rows)) : s.op = "create"
           /\ R \subseteq rows
<1> DEFINE seq == SetToSeq(rows)
           R == ToSet(seq)
           X == LightStmt(R)
           Cr == <<Stmt("create", NoStock, "-")>>
           added == [i \in DOMAIN seq |-> Stmt("addItem", seq[i], "PENDING")]
           AA == [i \in DOMAIN seq |-> <<Stmt("addItem", seq[i], "PENDING")>>]
           HH == [i \in DOMAIN seq |-> <<Stmt("hold", seq[i], "-")>>]
           SS == [i \in DOMAIN seq |-> <<Stmt("saveItem", seq[i], "LIGHTING"),
                                         Stmt("send", seq[i], "-")>>]
           A == FlattenSeq(AA)
           H == FlattenSeq(HH)
           B == FlattenSeq(SS)
           T == <<Stmt("saveTask", NoStock, "LIGHTING")>>
           E == <<Stmt("countLit", NoStock, "-")>>
<1>1. seq \in Seq(rows)
  BY InSomeOrder
<1>2. LightProgram(rows) = ((((Cr \o A) \o H) \o T) \o B) \o E
  BY DEF LightProgram, ForEach
<1>3. R \subseteq rows /\ R \subseteq Stocked /\ \A i \in DOMAIN seq : seq[i] \in R
  <2> HIDE DEF seq
  <2> QED
    BY <1>1, Elements DEF ToSet
<1>4. /\ \A r \in R : /\ Stmt("addItem", r, "PENDING") \in X
                      /\ Stmt("hold", r, "-") \in X
                      /\ Stmt("saveItem", r, "LIGHTING") \in X
                      /\ Stmt("send", r, "-") \in X
      /\ Stmt("saveTask", NoStock, "LIGHTING") \in X
      /\ Stmt("countLit", NoStock, "-") \in X
      /\ X \subseteq Later
  <2> HIDE DEF R
  <2> QED
    BY <1>3 DEF LightStmt, Later, Sound, Statement, Stmt, Lit, Open, TaskStatus, ItemStatus
<1> HIDE DEF X, R, seq
<1>5. added \in Seq(X)
  BY <1>1, <1>3, <1>4
<1>6. AA = [i \in DOMAIN added |-> <<added[i]>>]
  OBVIOUS
<1>7. A = added
  <2> HIDE DEF added, AA
  <2> QED
    BY <1>5, <1>6, FlattenSingles
<1>8. H \in Seq(X)
  <2>1. \A i \in DOMAIN seq : HH[i] \in Seq(X)
    <3>1. TAKE i \in DOMAIN seq
    <3>2. HH[i] = <<Stmt("hold", seq[i], "-")>>
      OBVIOUS
    <3>3. seq[i] \in R
      BY <1>3
    <3> QED
      BY <1>4, <3>2, <3>3
  <2>2. DOMAIN HH = DOMAIN seq /\ HH = [i \in DOMAIN HH |-> HH[i]]
    OBVIOUS
  <2> HIDE DEF HH
  <2> QED
    BY <1>1, <2>1, <2>2, PartsOf
<1>9. B \in Seq(X)
  <2>1. \A i \in DOMAIN seq : SS[i] \in Seq(X)
    <3>1. TAKE i \in DOMAIN seq
    <3>2. SS[i] = <<Stmt("saveItem", seq[i], "LIGHTING"), Stmt("send", seq[i], "-")>>
      OBVIOUS
    <3>3. seq[i] \in R
      BY <1>3
    <3> QED
      BY <1>4, <3>2, <3>3
  <2>2. DOMAIN SS = DOMAIN seq /\ SS = [i \in DOMAIN SS |-> SS[i]]
    OBVIOUS
  <2> HIDE DEF SS
  <2> QED
    BY <1>1, <2>1, <2>2, PartsOf
<1>10. T \in Seq(X) /\ E \in Seq(X)
  BY <1>4
<1>11. /\ A \in Seq(Later) /\ H \in Seq(Later) /\ T \in Seq(Later) /\ B \in Seq(Later)
       /\ E \in Seq(Later)
  BY <1>4, <1>5, <1>7, <1>8, <1>9, <1>10
<1>12. CreatesFirst(Cr) /\ Cr # <<>> /\ ToSet(Cr) = {Stmt("create", NoStock, "-")}
  BY DEF CreatesFirst, Sound, Statement, Stmt, ToSet
<1> HIDE DEF Cr, A, H, T, B, E
<1>13. /\ CreatesFirst(Cr \o A) /\ Cr \o A # <<>>
       /\ ToSet(Cr \o A) = ToSet(Cr) \union ToSet(A)
  BY <1>11, <1>12, Longer
<1>14. /\ CreatesFirst((Cr \o A) \o H) /\ (Cr \o A) \o H # <<>>
       /\ ToSet((Cr \o A) \o H) = ToSet(Cr \o A) \union ToSet(H)
  BY <1>11, <1>13, Longer
<1>15. /\ CreatesFirst(((Cr \o A) \o H) \o T) /\ ((Cr \o A) \o H) \o T # <<>>
       /\ ToSet(((Cr \o A) \o H) \o T) = ToSet((Cr \o A) \o H) \union ToSet(T)
  BY <1>11, <1>14, Longer
<1>16. /\ CreatesFirst((((Cr \o A) \o H) \o T) \o B) /\ (((Cr \o A) \o H) \o T) \o B # <<>>
       /\ ToSet((((Cr \o A) \o H) \o T) \o B) = ToSet(((Cr \o A) \o H) \o T) \union ToSet(B)
  BY <1>11, <1>15, Longer
<1>17. /\ CreatesFirst(LightProgram(rows)) /\ LightProgram(rows) # <<>>
       /\ ToSet(LightProgram(rows))
            = ToSet((((Cr \o A) \o H) \o T) \o B) \union ToSet(E)
  BY <1>2, <1>11, <1>16, Longer
<1>18. /\ ToSet(A) \subseteq X /\ ToSet(H) \subseteq X /\ ToSet(T) \subseteq X
       /\ ToSet(B) \subseteq X /\ ToSet(E) \subseteq X
  BY <1>5, <1>7, <1>8, <1>9, <1>10, Elements
<1>19. \A r \in R : \E a \in ToSet(A) : a.op = "addItem" /\ a.row = r
  <2>1. TAKE r \in R
  <2>2. PICK i \in DOMAIN seq : seq[i] = r
    BY DEF R, ToSet
  <2>3. added[i] \in ToSet(A) /\ added[i] = Stmt("addItem", r, "PENDING")
    BY <1>7, <2>2 DEF ToSet
  <2> QED
    BY <2>3 DEF Stmt
<1>20. Stmt("create", NoStock, "-").op = "create"
  BY DEF Stmt
<1>21. ToSet(LightProgram(rows))
         = (((((ToSet(Cr) \union ToSet(A)) \union ToSet(H)) \union ToSet(T)) \union ToSet(B))
            \union ToSet(E))
  BY <1>13, <1>14, <1>15, <1>16, <1>17
<1> QED
  BY <1>3, <1>12, <1>17, <1>18, <1>19, <1>20, <1>21 DEF X

\* lightOff cancels what it has read as lit.
OffStmt(t) ==
  {s \in Later : /\ s.op \in {"saveItem", "release", "saveTask"}
                 /\ s.op = "saveItem" => items[t][s.row] \in Lit /\ s.to = "CANCELLED"
                 /\ s.op = "saveTask" => s.to = "CANCELLED"}

OffProgram(t) ==
  ForEach(ItemsOf(t), LAMBDA r :
    (IF items[t][r] \in Lit THEN <<Stmt("saveItem", r, "CANCELLED")>> ELSE <<>>)
    \o <<Stmt("release", r, "-")>>)
  \o <<Stmt("saveTask", NoStock, "CANCELLED")>>

LEMMA OffStatements ==
  ASSUME IsFiniteSet(Stocked), NEW t
  PROVE  OffProgram(t) \in Seq(OffStmt(t)) /\ OffStmt(t) \subseteq Later
<1> DEFINE rows == ItemsOf(t)
           seq == SetToSeq(rows)
           X == OffStmt(t)
           SS == [i \in DOMAIN seq |->
                    (IF items[t][seq[i]] \in Lit THEN <<Stmt("saveItem", seq[i], "CANCELLED")>>
                     ELSE <<>>) \o <<Stmt("release", seq[i], "-")>>]
           T == <<Stmt("saveTask", NoStock, "CANCELLED")>>
<1>1. OffProgram(t) = FlattenSeq(SS) \o T
  BY DEF OffProgram, ForEach
<1>2. rows \subseteq Stocked /\ IsFiniteSet(rows)
  BY FS_Subset DEF ItemsOf
<1>3. seq \in Seq(rows)
  BY <1>2, InSomeOrder
<1>4. /\ \A r \in Stocked : /\ items[t][r] \in Lit => Stmt("saveItem", r, "CANCELLED") \in X
                            /\ Stmt("release", r, "-") \in X
      /\ Stmt("saveTask", NoStock, "CANCELLED") \in X
      /\ X \subseteq Later
  BY DEF OffStmt, Later, Sound, Statement, Stmt, Lit, Open, TaskStatus, ItemStatus
<1> HIDE DEF X, rows, seq
<1>5. \A i \in DOMAIN seq : seq[i] \in Stocked
  BY <1>2, <1>3
<1>6. ASSUME NEW i \in DOMAIN seq PROVE SS[i] \in Seq(X)
  <2>1. SS[i] = (IF items[t][seq[i]] \in Lit THEN <<Stmt("saveItem", seq[i], "CANCELLED")>>
                 ELSE <<>>) \o <<Stmt("release", seq[i], "-")>>
    OBVIOUS
  <2>2. <<Stmt("release", seq[i], "-")>> \in Seq(X)
    BY <1>4, <1>5
  <2>3. CASE items[t][seq[i]] \in Lit
    <3>1. <<Stmt("saveItem", seq[i], "CANCELLED")>> \in Seq(X)
      BY <1>4, <1>5, <2>3
    <3> QED
      BY <2>1, <2>2, <2>3, <3>1
  <2>4. CASE items[t][seq[i]] \notin Lit
    BY <2>1, <2>2, <2>4
  <2> QED
    BY <2>3, <2>4
<1>7. DOMAIN SS = DOMAIN seq /\ SS = [i \in DOMAIN SS |-> SS[i]]
  OBVIOUS
<1>8. FlattenSeq(SS) \in Seq(X)
  <2> HIDE DEF SS
  <2> QED
    BY <1>3, <1>6, <1>7, PartsOf
<1>9. T \in Seq(X)
  BY <1>4
<1>10. FlattenSeq(SS) \o T \in Seq(X)
  <2> HIDE DEF SS, T
  <2> QED
    BY <1>8, <1>9
<1> QED
  BY <1>1, <1>4, <1>10 DEF X

-----------------------------------------------------------------------------
(* What fits the rows, and goes on fitting *)

LEMMA FitKept ==
  ASSUME NEW t, NEW copy, NEW S, Fit(t, copy, S), UNCHANGED <<tasks, items>>
  PROVE  Fit(t, copy, S)'
BY DEF Fit, Begun, Numbered, Unlit, Harmless, Earned, ItemsOf

LEMMA SafeKept ==
  ASSUME Safe, UNCHANGED <<tasks, items>>
  PROVE  Safe'
BY DEF Safe, Filed, OneLit, DoneIsConfirmed, ItemsOf

LEMMA AloneKept ==
  ASSUME Alone, UNCHANGED <<tasks, items, hand>>
  PROVE  Alone'
<1>1. ASSUME NEW w \in Hand, Busy(w)'
      PROVE  Fit(hand[w].task, hand[w].copy, Ahead(w))'
  <2>1. PICK t, c, S : t = hand[w].task /\ c = hand[w].copy /\ S = Ahead(w)
    OBVIOUS
  <2>2. Fit(t, c, S)
    BY <1>1, <2>1 DEF Alone, Busy
  <2>3. Fit(t, c, S)'
    BY <2>2, FitKept
  <2> QED
    BY <2>1, <2>3 DEF Ahead
<1> QED
  BY <1>1 DEF Alone, Busy

LEMMA ItemsFinite ==
  ASSUME IsFiniteSet(Stocked), NEW t, NEW S
  PROVE  /\ IsFiniteSet(ItemsOf(t)) /\ IsFiniteSet(RowsIn(S))
         /\ IsFiniteSet(ItemsOf(t) \union RowsIn(S))
         /\ Cardinality(ItemsOf(t)) \in Nat
         /\ Cardinality(ItemsOf(t) \union RowsIn(S)) \in Nat
<1>1. /\ ItemsOf(t) \subseteq Stocked /\ RowsIn(S) \subseteq Stocked
      /\ ItemsOf(t) \union RowsIn(S) \subseteq Stocked
  BY DEF ItemsOf, RowsIn
<1>2. /\ IsFiniteSet(ItemsOf(t)) /\ IsFiniteSet(RowsIn(S))
      /\ IsFiniteSet(ItemsOf(t) \union RowsIn(S))
  BY <1>1, FS_Subset
<1> QED
  BY <1>2, FS_CardinalityType

\* Of a smaller set of rows there are no more.
LEMMA FewerRows ==
  ASSUME IsFiniteSet(Stocked), NEW A, NEW B, A \subseteq B, B \subseteq Stocked
  PROVE  /\ Cardinality(A) <= Cardinality(B) /\ Cardinality(A) \in Nat
         /\ Cardinality(B) \in Nat
<1>1. IsFiniteSet(B) /\ IsFiniteSet(A)
  BY FS_Subset
<1>2. Cardinality(A) <= Cardinality(B)
  BY <1>1, FS_Subset
<1> QED
  BY <1>1, <1>2, FS_CardinalityType

\* A handler that has less to do still fits.
LEMMA FewerFit ==
  ASSUME IsFiniteSet(Stocked), NEW t \in Task, NEW copy, NEW S, Fit(t, copy, S), ~Creates(S),
         NEW T, T \subseteq S, tasks[t] \in TaskRow
  PROVE  Fit(t, copy, T)
<1>1. ~Creates(T)
  BY DEF Creates
<1>2. Begun(t, T) /\ Unlit(t, T) /\ Harmless(t, T) /\ Earned(t, T)
  BY <1>1 DEF Fit, Begun, Unlit, Harmless, Earned
<1>3. ASSUME T # {} PROVE Numbered(t, copy, T)
  <2>1. /\ tasks[t].status # "none" /\ copy.total = tasks[t].total
        /\ Cardinality(ItemsOf(t) \union RowsIn(S)) <= tasks[t].total
    BY <1>3 DEF Fit, Numbered
  <2>2. /\ ItemsOf(t) \union RowsIn(T) \subseteq ItemsOf(t) \union RowsIn(S)
        /\ ItemsOf(t) \union RowsIn(S) \subseteq Stocked
    BY DEF RowsIn, ItemsOf
  <2>3. tasks[t].total \in Nat
    BY DEF TaskRow
  <2>4. Cardinality(ItemsOf(t) \union RowsIn(T)) <= tasks[t].total
    BY <2>1, <2>2, <2>3, FewerRows
  <2> QED
    BY <2>1, <2>4 DEF Numbered
<1> QED
  BY <1>2, <1>3 DEF Fit, Numbered

-----------------------------------------------------------------------------
(* Handlers that begin *)

LEMMA LightFits ==
  ASSUME IsFiniteSet(Stocked), PtlShape, Safe, NEW w, NEW t \in Task, NEW rows,
         BeginLight(w, t, rows)
  PROVE  /\ CreatesFirst(LightProgram(rows)) /\ LightProgram(rows) # <<>>
         /\ Fit(t, tasks[t], ToSet(LightProgram(rows)))
<1> DEFINE S == ToSet(LightProgram(rows))
<1>1. /\ tasks[t] = NoRow /\ rows \subseteq Stocked /\ IsFiniteSet(rows)
      /\ \A r \in rows : ~Occupied(SpotOf[r])
  BY FS_Subset DEF BeginLight, FindLightUpCandidates
<1>2. PICK R \in SUBSET Stocked :
        /\ CreatesFirst(LightProgram(rows)) /\ LightProgram(rows) # <<>>
        /\ S \subseteq {Stmt("create", NoStock, "-")} \union LightStmt(R)
        /\ \A r \in R : \E a \in S : a.op = "addItem" /\ a.row = r
        /\ \E s \in S : s.op = "create"
        /\ R \subseteq rows
  BY <1>1, LightStatements
<1> HIDE DEF S
<1>3. ASSUME NEW s \in S
      PROVE  /\ Lights(s) \/ Unconfirms(s) \/ s.op = "saveItem" \/ s.op = "send" => s.row \in R
             /\ ~Confirms(s) /\ ~Completes(s)
  BY <1>2, <1>3 DEF LightStmt, Stmt, Lights, Unconfirms, Confirms, Completes
<1>4. Creates(S) /\ Begun(t, S)
  BY <1>1, <1>2, <1>3 DEF Creates, Begun
<1>5. ItemsOf(t) = {}
  BY <1>1 DEF Safe, Filed, NoRow
<1>6. ASSUME NEW s \in S, Lights(s), NEW u \in Task, NEW q \in Stocked,
             items[u][q] \in Lit, SpotOf[q] = SpotOf[s.row]
      PROVE  u = t
  <2>1. s.row \in rows
    BY <1>2, <1>3, <1>6
  <2>2. q \in ItemsOf(u)
    BY <1>6 DEF ItemsOf, Lit
  <2> QED
    BY <1>1, <1>6, <2>1, <2>2 DEF Occupied
<1>7. Unlit(t, S)
  BY <1>6 DEF Unlit
<1>8. Harmless(t, S)
  <2>1. \A s \in S : Unconfirms(s) => s.row \in Stocked
    BY <1>1, <1>2, <1>3
  <2>2. \A r \in Stocked : items[t][r] # "CONFIRMED"
    BY <1>5 DEF ItemsOf
  <2> QED
    BY <1>1, <1>3, <2>1, <2>2 DEF Harmless, NoRow
<1>9. Earned(t, S)
  BY <1>3 DEF Earned
<1> QED
  BY <1>2, <1>4, <1>7, <1>8, <1>9 DEF Fit, Numbered, S

\* Whoever works on the items a task has, and adds none.
LEMMA NumberedWithin ==
  ASSUME IsFiniteSet(Stocked), Safe, NEW t \in Task, tasks[t].status # "none", NEW S,
         RowsIn(S) \subseteq ItemsOf(t)
  PROVE  Numbered(t, tasks[t], S)
<1>1. ItemsOf(t) \union RowsIn(S) = ItemsOf(t)
  OBVIOUS
<1> QED
  BY <1>1 DEF Numbered, Safe, Filed

LEMMA OffFits ==
  ASSUME IsFiniteSet(Stocked), PtlShape, Safe, NEW w, NEW t \in Task, BeginOff(w, t)
  PROVE  /\ CreatesFirst(OffProgram(t)) /\ Start(w, t, OffProgram(t))
         /\ Fit(t, tasks[t], ToSet(OffProgram(t)))
<1> DEFINE S == ToSet(OffProgram(t))
<1>1. tasks[t].status \in Open /\ Start(w, t, OffProgram(t))
  BY DEF BeginOff, OffProgram
<1>2. /\ CreatesFirst(OffProgram(t)) /\ ~Creates(S)
      /\ S \subseteq OffStmt(t) /\ S \subseteq Later
  BY OffStatements, LaterIsFine, Elements
<1> HIDE DEF S
<1>3. ASSUME NEW s \in S
      PROVE  /\ ~Lights(s) /\ ~Confirms(s) /\ ~Completes(s)
             /\ Unconfirms(s) => items[t][s.row] \in Lit
             /\ s.op \notin {"addItem", "send"} /\ (s.op = "saveItem" => items[t][s.row] \in Lit)
  BY <1>2, <1>3 DEF OffStmt, Lights, Unconfirms, Confirms, Completes, Lit
<1>4. RowsIn(S) \subseteq ItemsOf(t)
  BY <1>3 DEF RowsIn, ItemsOf, Lit
<1>5. Numbered(t, tasks[t], S)
  BY <1>1, <1>4, NumberedWithin DEF Open
<1>6. Begun(t, S) /\ Unlit(t, S) /\ Harmless(t, S) /\ Earned(t, S)
  BY <1>1, <1>2, <1>3 DEF Begun, Unlit, Harmless, Earned, Open, Lit
<1> QED
  BY <1>1, <1>2, <1>5, <1>6 DEF Fit, S

LEMMA ConfirmFits ==
  ASSUME IsFiniteSet(Stocked), PtlShape, Safe, NEW t \in Task, NEW r \in Stocked,
         items[t][r] \in Lit
  PROVE  /\ CreatesFirst(ConfirmProgram(r))
         /\ Fit(t, tasks[t], ToSet(ConfirmProgram(r)))
<1> DEFINE a == Stmt("saveItem", r, "CONFIRMED")
           b == Stmt("release", r, "-")
           c == Stmt("countConfirmed", NoStock, "-")
           q == <<a, b, c>>
           S == ToSet(q)
<1>1. ConfirmProgram(r) = q
  BY DEF ConfirmProgram
<1>2. /\ a \in Later /\ b \in Later /\ c \in Later
      /\ \A s \in {a, b, c} : /\ ~Lights(s) /\ ~Unconfirms(s) /\ ~Completes(s)
                              /\ s.op \notin {"addItem", "send"}
                              /\ s.op = "saveItem" => s.row = r
  BY DEF Later, Sound, Statement, Stmt, ItemStatus, TaskStatus, Open, Lit, Lights, Unconfirms,
         Completes
<1> HIDE DEF a, b, c
<1>3. q \in Seq(Later) /\ S = {a, b, c}
  <2>1. q \in Seq(Later)
    BY <1>2
  <2>2. DOMAIN q = 1..3 /\ q[1] = a /\ q[2] = b /\ q[3] = c
    OBVIOUS
  <2>3. 1 \in 1..3 /\ 2 \in 1..3 /\ 3 \in 1..3 /\ \A i \in 1..3 : i = 1 \/ i = 2 \/ i = 3
    OBVIOUS
  <2> HIDE DEF q
  <2> QED
    BY <2>1, <2>2, <2>3 DEF ToSet
<1> HIDE DEF q, S
<1>4. CreatesFirst(q) /\ ~Creates(S)
  BY <1>3, LaterIsFine DEF S
<1>5. r \in ItemsOf(t)
  BY DEF ItemsOf, Lit
<1>6. RowsIn(S) \subseteq ItemsOf(t)
  BY <1>2, <1>3, <1>5 DEF RowsIn
<1>7. tasks[t].status # "none"
  BY <1>5 DEF Safe, Filed
<1>8. Numbered(t, tasks[t], S)
  BY <1>6, <1>7, NumberedWithin
<1>9. Begun(t, S) /\ Unlit(t, S) /\ Harmless(t, S) /\ Earned(t, S)
  BY <1>2, <1>3, <1>4 DEF Begun, Unlit, Harmless, Earned
<1> QED
  BY <1>1, <1>4, <1>8, <1>9 DEF Fit, S

AckProgram(t, r) ==
  <<Stmt("saveItem", r, IF items[t][r] = "LIGHTING" THEN "ACTIVE" ELSE items[t][r])>>

LEMMA AckFits ==
  ASSUME IsFiniteSet(Stocked), PtlShape, Safe, NEW w, NEW t \in Task, NEW r \in Stocked,
         BeginAck(w, t, r)
  PROVE  /\ CreatesFirst(AckProgram(t, r)) /\ Start(w, t, AckProgram(t, r))
         /\ Fit(t, tasks[t], ToSet(AckProgram(t, r)))
<1> DEFINE x == IF items[t][r] = "LIGHTING" THEN "ACTIVE" ELSE items[t][r]
           a == Stmt("saveItem", r, x)
           q == <<a>>
           S == ToSet(q)
<1>1. /\ AckProgram(t, r) = q /\ Start(w, t, q)
      /\ items[t][r] # "none" /\ items[t][r] \in ItemStatus \union {"none"}
  BY DEF AckProgram, BeginAck, Acknowledged, PtlShape, PtlTypeOK
<1>2. /\ x \in ItemStatus /\ (x = "CONFIRMED" <=> items[t][r] = "CONFIRMED")
      /\ (x \in Lit => items[t][r] \in Lit)
  BY <1>1 DEF ItemStatus, Lit
<1> HIDE DEF x
<1>3. /\ a \in Later /\ a.op = "saveItem" /\ a.row = r /\ a.to = x
  BY <1>2 DEF Later, Sound, Statement, Stmt
<1> HIDE DEF a
<1>4. q \in Seq(Later) /\ S = {a}
  BY <1>3 DEF ToSet
<1> HIDE DEF q, S
<1>5. CreatesFirst(q) /\ ~Creates(S)
  BY <1>4, LaterIsFine DEF S
<1>6. r \in ItemsOf(t)
  BY <1>1 DEF ItemsOf
<1>7. RowsIn(S) \subseteq ItemsOf(t)
  BY <1>3, <1>4, <1>6 DEF RowsIn
<1>8. tasks[t].status # "none"
  BY <1>6 DEF Safe, Filed
<1>9. Numbered(t, tasks[t], S)
  BY <1>7, <1>8, NumberedWithin
<1>10. Unlit(t, S)
  BY <1>2, <1>3, <1>4 DEF Unlit, Lights, Safe, OneLit
<1>11. Harmless(t, S)
  BY <1>2, <1>3, <1>4, <1>6 DEF Harmless, Unconfirms, Confirms, Completes, Safe, DoneIsConfirmed
<1>12. Begun(t, S) /\ Earned(t, S)
  BY <1>3, <1>4, <1>5 DEF Begun, Earned, Completes
<1> QED
  BY <1>1, <1>5, <1>9, <1>10, <1>11, <1>12 DEF Fit, S

\* A handler begins with what fits.
LEMMA Starting ==
  ASSUME PtlInv, NEW w \in Hand, NEW t \in Task, NEW todo, CreatesFirst(todo),
         Safe => Fit(t, tasks[t], ToSet(todo)), Start(w, t, todo)
  PROVE  PtlInv'
<1>1. PICK q, c : q = todo /\ c = tasks[t]
  OBVIOUS
<1>2. /\ hand' = [hand EXCEPT ![w] = [task |-> t, copy |-> c, todo |-> q]]
      /\ raced' = (raced \/ \E v \in Hand : hand[v] # Idle)
      /\ slow' = (slow \/ t \in late)
      /\ UNCHANGED <<tasks, items, hold, late, sweeping, due>>
  BY <1>1 DEF Start
<1>3. PtlShape
  BY DEF PtlInv
<1>4. q \in Seq(Sound) /\ c \in TaskRow /\ CreatesFirst(q)
  BY <1>1, <1>3 DEF CreatesFirst, PtlShape, PtlTypeOK
<1>5. hand' \in [Hand -> [task : Task \union {NoTask}, copy : TaskRow, todo : Seq(Sound)]]
  <2> DEFINE h == [task |-> t, copy |-> c, todo |-> q]
             H == [task : Task \union {NoTask}, copy : TaskRow, todo : Seq(Sound)]
  <2>1. h \in H
    BY <1>4
  <2>2. hand \in [Hand -> H] /\ hand' = [hand EXCEPT ![w] = h]
    BY <1>2, <1>3 DEF PtlShape
  <2> HIDE DEF h, H
  <2>3. hand' \in [Hand -> H]
    BY <2>1, <2>2
  <2> QED
    BY <2>3 DEF H
<1>6. /\ hand'[w] = [task |-> t, copy |-> c, todo |-> q]
      /\ \A v \in Hand : v # w => hand'[v] = hand[v]
  <2>1. DOMAIN hand = Hand
    BY <1>3 DEF PtlShape
  <2> QED
    BY <1>2, <2>1
<1>7. \A v \in Hand : Busy(v)' => hand'[v].task \in Task /\ CreatesFirst(hand'[v].todo)
  <2>1. hand'[w].task \in Task /\ CreatesFirst(hand'[w].todo)
    BY <1>4, <1>6
  <2>2. \A v \in Hand : Busy(v) => hand[v].task \in Task /\ CreatesFirst(hand[v].todo)
    BY <1>3 DEF PtlShape
  <2> QED
    BY <1>6, <2>1, <2>2 DEF Busy
<1>8. PtlTypeOK'
  <2>1. \A v \in Hand : /\ hand'[v].task \in Task \union {NoTask} /\ hand'[v].copy \in TaskRow
                        /\ \A i \in DOMAIN hand'[v].todo : hand'[v].todo[i] \in Statement
    <3>1. \A q0 \in Seq(Sound) : \A i \in DOMAIN q0 : q0[i] \in Statement
      BY DEF Sound
    <3>2. \A v \in Hand : /\ hand'[v].task \in Task \union {NoTask} /\ hand'[v].copy \in TaskRow
                          /\ hand'[v].todo \in Seq(Sound)
      BY <1>5
    <3> QED
      BY <3>1, <3>2
  <2>2. raced' \in BOOLEAN /\ slow' \in BOOLEAN
    BY <1>2
  <2> QED
    BY <1>2, <1>3, <2>1, <2>2 DEF PtlShape, PtlTypeOK
<1>9. PtlShape'
  BY <1>5, <1>7, <1>8 DEF PtlShape
<1>10. ASSUME ~raced' PROVE Safe' /\ Alone'
  <2>1. Safe /\ \A v \in Hand : hand[v] = Idle
    BY <1>2, <1>10 DEF PtlInv
  <2>2. Safe'
    BY <1>2, <2>1, SafeKept
  <2>3. \A v \in Hand : Busy(v)' => v = w
    BY <1>6, <2>1 DEF Busy, Idle
  <2>4. Fit(t, c, ToSet(q))
    BY <1>1, <2>1
  <2>5. Fit(t, c, ToSet(q))'
    BY <1>2, <2>4, FitKept
  <2>6. Fit(hand[w].task, hand[w].copy, Ahead(w))'
    BY <1>6, <2>5 DEF Ahead
  <2> QED
    BY <2>2, <2>3, <2>6 DEF Alone
<1> QED
  BY <1>9, <1>10 DEF PtlInv

LEMMA BeginStep ==
  ASSUME IsFiniteSet(Stocked), PtlInv, NEW w \in Hand, Begin(w)
  PROVE  PtlInv'
<1>1. PICK t \in Task :
        \/ \E rows \in SUBSET Stocked : BeginLight(w, t, rows)
        \/ BeginOff(w, t)
        \/ \E r \in Stocked : BeginConfirm(w, t, r) \/ BeginButton(w, t, r) \/ BeginAck(w, t, r)
  BY DEF Begin
<1>2. PtlShape
  BY DEF PtlInv
<1>3. ASSUME NEW rows \in SUBSET Stocked, BeginLight(w, t, rows) PROVE PtlInv'
  <2>1. Start(w, t, LightProgram(rows)) /\ rows \subseteq Stocked
    BY <1>3 DEF BeginLight
  <2>2. IsFiniteSet(rows)
    BY <2>1, FS_Subset
  <2>3. CreatesFirst(LightProgram(rows))
    BY <2>1, <2>2, LightStatements
  <2>4. Safe => Fit(t, tasks[t], ToSet(LightProgram(rows)))
    BY <1>2, <1>3, LightFits
  <2> QED
    BY <2>1, <2>3, <2>4, Starting
<1>4. CASE BeginOff(w, t)
  <2>1. Start(w, t, OffProgram(t))
    BY <1>4 DEF BeginOff, OffProgram
  <2>2. CreatesFirst(OffProgram(t))
    <3>1. OffProgram(t) \in Seq(Later)
      BY OffStatements
    <3> QED
      BY <3>1, LaterIsFine
  <2>3. Safe => Fit(t, tasks[t], ToSet(OffProgram(t)))
    BY <1>2, <1>4, OffFits
  <2> QED
    BY <2>1, <2>2, <2>3, Starting
<1>5. ASSUME NEW r \in Stocked, BeginConfirm(w, t, r) \/ BeginButton(w, t, r) PROVE PtlInv'
  <2>1. items[t][r] \in Lit /\ Start(w, t, ConfirmProgram(r))
    BY <1>5 DEF BeginConfirm, BeginButton
  <2>2. CreatesFirst(ConfirmProgram(r))
    <3>1. ConfirmProgram(r) \in Seq(Later)
      BY DEF ConfirmProgram, Later, Sound, Statement, Stmt, ItemStatus, TaskStatus, Open, Lit
    <3> QED
      BY <3>1, LaterIsFine
  <2>3. Safe => Fit(t, tasks[t], ToSet(ConfirmProgram(r)))
    BY <1>2, <2>1, ConfirmFits
  <2> QED
    BY <2>1, <2>2, <2>3, Starting
<1>6. ASSUME NEW r \in Stocked, BeginAck(w, t, r) PROVE PtlInv'
  <2>1. Start(w, t, AckProgram(t, r)) /\ items[t][r] \in ItemStatus
    BY <1>2, <1>6 DEF BeginAck, Acknowledged, AckProgram, PtlShape, PtlTypeOK
  <2>2. CreatesFirst(AckProgram(t, r))
    <3>1. AckProgram(t, r) \in Seq(Later)
      <4> DEFINE a == Stmt("saveItem", r, IF items[t][r] = "LIGHTING" THEN "ACTIVE"
                                          ELSE items[t][r])
      <4>1. a \in Later
        BY <2>1 DEF Later, Sound, Statement, Stmt, ItemStatus, Lit
      <4>2. AckProgram(t, r) = <<a>>
        BY DEF AckProgram
      <4> HIDE DEF a
      <4> QED
        BY <4>1, <4>2
    <3> QED
      BY <3>1, LaterIsFine
  <2>3. Safe => Fit(t, tasks[t], ToSet(AckProgram(t, r)))
    BY <1>2, <1>6, AckFits
  <2> QED
    BY <2>1, <2>2, <2>3, Starting
<1> QED
  BY <1>1, <1>3, <1>4, <1>5, <1>6

-----------------------------------------------------------------------------
(* Handlers that go on *)

\* What a handler may rely on when it is about to perform its next statement.
LEMMA AtStatement ==
  ASSUME PtlInv, NEW w \in Hand, Busy(w)
  PROVE  /\ hand[w].task \in Task /\ hand[w].copy \in TaskRow
         /\ hand[w] = [task |-> hand[w].task, copy |-> hand[w].copy, todo |-> hand[w].todo]
         /\ tasks[hand[w].task] \in TaskRow
         /\ CreatesFirst(hand[w].todo) /\ Next1(w) \in Sound /\ Next1(w) \in Ahead(w)
         /\ Tail(hand[w].todo) \in Seq(Later) /\ ToSet(Tail(hand[w].todo)) \subseteq Ahead(w)
         /\ Next1(w).op # "create" => hand[w].todo \in Seq(Later) /\ ~Creates(Ahead(w))
         /\ ~raced => Safe /\ Fit(hand[w].task, hand[w].copy, Ahead(w))
<1>1. /\ hand[w].task \in Task /\ hand[w].copy \in TaskRow
      /\ tasks[hand[w].task] \in TaskRow
      /\ hand[w] = [task |-> hand[w].task, copy |-> hand[w].copy, todo |-> hand[w].todo]
      /\ CreatesFirst(hand[w].todo) /\ hand[w].todo # <<>>
      /\ ~raced => Safe /\ Fit(hand[w].task, hand[w].copy, Ahead(w))
  BY DEF PtlInv, PtlShape, PtlTypeOK, Alone, Busy
<1>2. /\ Next1(w) \in Sound /\ Next1(w) \in Ahead(w)
      /\ Tail(hand[w].todo) \in Seq(Later) /\ ToSet(Tail(hand[w].todo)) \subseteq Ahead(w)
      /\ Next1(w).op # "create" => hand[w].todo \in Seq(Later)
  BY <1>1, Leftover DEF Next1, Ahead
<1>3. Next1(w).op # "create" => ~Creates(Ahead(w))
  BY <1>2, LaterIsFine DEF Ahead
<1> QED
  BY <1>1, <1>2, <1>3

\* A statement is performed, and what is left still fits.
LEMMA Going ==
  ASSUME PtlInv, NEW w \in Hand, Busy(w),
         NEW t, t = hand[w].task, NEW copy \in TaskRow, NEW todo \in Seq(Later),
         Goes(w, copy, todo),
         tasks' \in [Task -> TaskRow],
         items' \in [Task -> [Stocked -> ItemStatus \union {"none"}]],
         hold' \in [Spot -> Task \union {NoTask}],
         ~raced => Safe' /\ Fit(t, copy, ToSet(todo))'
  PROVE  PtlInv'
<1>1. /\ hand' = [hand EXCEPT ![w] = IF todo = <<>> THEN Idle
                                     ELSE [task |-> @.task, copy |-> copy, todo |-> todo]]
      /\ UNCHANGED <<late, sweeping, due, raced, slow>>
  BY DEF Goes
<1>2. PtlShape /\ t \in Task
  BY AtStatement DEF PtlInv
<1>3. todo \in Seq(Sound) /\ CreatesFirst(todo)
  BY LaterIsFine
<1>4. Idle \in [task : Task \union {NoTask}, copy : TaskRow, todo : Seq(Sound)]
  BY DEF Idle, NoRow, TaskRow
<1>5. \A v \in Hand : v # w => hand'[v] = hand[v]
  BY <1>1, <1>2 DEF PtlShape
<1>6. hand'[w] = IF todo = <<>> THEN Idle ELSE [task |-> t, copy |-> copy, todo |-> todo]
  BY <1>1, <1>2 DEF PtlShape
<1>7. hand' \in [Hand -> [task : Task \union {NoTask}, copy : TaskRow, todo : Seq(Sound)]]
  <2>1. hand'[w] \in [task : Task \union {NoTask}, copy : TaskRow, todo : Seq(Sound)]
    BY <1>2, <1>3, <1>4, <1>6
  <2> QED
    BY <1>1, <1>2, <1>5, <2>1 DEF PtlShape
<1>8. \A v \in Hand : Busy(v)' => hand'[v].task \in Task /\ CreatesFirst(hand'[v].todo)
  BY <1>2, <1>3, <1>5, <1>6 DEF PtlShape, Busy, Idle
<1>9. PtlTypeOK'
  <2>1. \A v \in Hand : /\ hand'[v].task \in Task \union {NoTask} /\ hand'[v].copy \in TaskRow
                        /\ \A i \in DOMAIN hand'[v].todo : hand'[v].todo[i] \in Statement
    <3>1. \A q0 \in Seq(Sound) : \A i \in DOMAIN q0 : q0[i] \in Statement
      BY DEF Sound
    <3>2. \A v \in Hand : /\ hand'[v].task \in Task \union {NoTask} /\ hand'[v].copy \in TaskRow
                          /\ hand'[v].todo \in Seq(Sound)
      BY <1>7
    <3> QED
      BY <3>1, <3>2
  <2> QED
    BY <1>1, <1>2, <2>1 DEF PtlShape, PtlTypeOK
<1>10. PtlShape'
  BY <1>7, <1>8, <1>9 DEF PtlShape
<1>11. ASSUME ~raced' PROVE Safe' /\ Alone'
  <2>1. Safe' /\ Fit(t, copy, ToSet(todo))' /\ Alone
    BY <1>1, <1>11 DEF PtlInv
  <2>2. \A v \in Hand : Busy(v)' => v = w
    BY <1>5, <2>1 DEF Busy, Alone
  <2>3. Busy(w)' => Fit(hand[w].task, hand[w].copy, Ahead(w))'
    BY <1>6, <2>1 DEF Busy, Idle, Ahead
  <2> QED
    BY <2>1, <2>2, <2>3 DEF Alone
<1> QED
  BY <1>10, <1>11 DEF PtlInv

-----------------------------------------------------------------------------
(* The statements that write the task *)

\* A task's row changes, its items do not.
LEMMA TaskWritten ==
  ASSUME IsFiniteSet(Stocked), PtlShape, Safe, NEW t \in Task, NEW row \in TaskRow,
         row.status # "none",
         tasks' = [tasks EXCEPT ![t] = row], items' = items,
         Cardinality(ItemsOf(t)) <= row.total,
         row.status = "COMPLETED" => \A r \in ItemsOf(t) : items[t][r] = "CONFIRMED"
  PROVE  Safe' /\ tasks' \in [Task -> TaskRow] /\ tasks'[t] = row
<1>1. /\ tasks' \in [Task -> TaskRow] /\ tasks'[t] = row
      /\ \A u \in Task : u # t => tasks'[u] = tasks[u]
  BY DEF PtlShape, PtlTypeOK
<1>2. \A u \in Task : ItemsOf(u)' = ItemsOf(u)
  BY DEF ItemsOf
<1>3. Filed'
  <2>1. ASSUME NEW u \in Task
        PROVE  /\ tasks'[u].status = "none" => ItemsOf(u)' = {}
               /\ Cardinality(ItemsOf(u)') <= tasks'[u].total
    <3>1. CASE u = t
      BY <1>1, <1>2, <3>1
    <3>2. CASE u # t
      BY <1>1, <1>2, <3>2 DEF Safe, Filed
    <3> QED
      BY <3>1, <3>2
  <2> QED
    BY <2>1 DEF Filed
<1>4. OneLit'
  BY DEF Safe, OneLit
<1>5. DoneIsConfirmed'
  <2>1. ASSUME NEW u \in Task, tasks'[u].status = "COMPLETED", NEW r \in ItemsOf(u)'
        PROVE  items'[u][r] = "CONFIRMED"
    <3>1. CASE u = t
      BY <1>1, <1>2, <2>1, <3>1
    <3>2. CASE u # t
      BY <1>1, <1>2, <2>1, <3>2 DEF Safe, DoneIsConfirmed
    <3> QED
      BY <3>1, <3>2
  <2> QED
    BY <2>1 DEF DoneIsConfirmed
<1> QED
  BY <1>1, <1>3, <1>4, <1>5 DEF Safe

LEMMA CreateTaskStep ==
  ASSUME IsFiniteSet(Stocked), PtlInv, NEW w \in Hand, CreateTask(w)
  PROVE  PtlInv'
<1>1. PICK t, S, q, row :
        /\ t = hand[w].task /\ S = Ahead(w) /\ q = Tail(hand[w].todo)
        /\ row = [status |-> "CREATED", confirmed |-> 0,
                  total |-> Cardinality({i \in DOMAIN hand[w].todo :
                                           hand[w].todo[i].op = "addItem"})]
  OBVIOUS
<1>2. /\ Busy(w) /\ Next1(w).op = "create"
      /\ tasks' = [tasks EXCEPT ![t] = row]
      /\ Goes(w, row, q)
      /\ UNCHANGED <<items, hold>>
  BY <1>1 DEF CreateTask, WriteTask, At, Busy
<1>3. /\ t \in Task /\ Next1(w) \in S /\ q \in Seq(Later) /\ ToSet(q) \subseteq S
      /\ CreatesFirst(hand[w].todo)
      /\ ~raced => Safe /\ Fit(t, hand[w].copy, S)
  BY <1>1, <1>2, AtStatement
<1>4. PtlShape
  BY DEF PtlInv
<1> DEFINE added == {i \in DOMAIN hand[w].todo : hand[w].todo[i].op = "addItem"}
<1>5. IsFiniteSet(added) /\ Cardinality(added) \in Nat
  <2>1. hand[w].todo \in Seq(Sound)
    BY <1>3 DEF CreatesFirst
  <2>2. added \subseteq 1..Len(hand[w].todo) /\ Len(hand[w].todo) \in Int
    BY <2>1
  <2>3. IsFiniteSet(added)
    BY <2>2, FS_Interval, FS_Subset
  <2> QED
    BY <2>3, FS_CardinalityType
<1>6. row \in TaskRow /\ row.status = "CREATED" /\ row.total = Cardinality(added)
  BY <1>1, <1>5 DEF TaskRow, TaskStatus, Open
<1>7. tasks' \in [Task -> TaskRow]
  BY <1>2, <1>4, <1>6 DEF PtlShape, PtlTypeOK
<1>8. ASSUME ~raced PROVE Safe' /\ Fit(t, row, ToSet(q))'
  <2> DEFINE T == ToSet(q)
  <2>1. Safe /\ Fit(t, hand[w].copy, S) /\ Creates(S)
    BY <1>2, <1>3, <1>8 DEF Creates
  <2>2. /\ tasks[t] = NoRow
        /\ \A s \in S : s.op \in {"saveItem", "send"}
                          => \E a \in S : a.op = "addItem" /\ a.row = s.row
    BY <2>1 DEF Fit, Begun
  <2>3. ItemsOf(t) = {}
    BY <1>3, <2>1, <2>2 DEF Safe, Filed, NoRow
  <2>4. /\ Cardinality(RowsIn(T)) <= Cardinality(added)
    <3> DEFINE rows == {hand[w].todo[i].row : i \in added}
               f == [i \in added |-> hand[w].todo[i].row]
    <3>1. f \in Surjection(added, rows)
      BY DEF Surjection
    <3>2. IsFiniteSet(rows) /\ Cardinality(rows) <= Cardinality(added)
      <4> HIDE DEF f, rows, added
      <4> QED
        BY <1>5, <3>1, FS_Surjection
    <3>3. RowsIn(T) \subseteq rows
      <4>1. ASSUME NEW s \in S, s.op \in {"addItem", "saveItem", "send"}
            PROVE  s.row \in rows
        <5>1. PICK a \in S : a.op = "addItem" /\ a.row = s.row
          BY <2>2, <4>1
        <5>2. PICK i \in DOMAIN hand[w].todo : a = hand[w].todo[i]
          BY <1>1, <5>1 DEF Ahead, ToSet
        <5> QED
          BY <5>1, <5>2
      <4> QED
        BY <1>3, <4>1 DEF RowsIn
    <3>4. /\ Cardinality(RowsIn(T)) <= Cardinality(rows) /\ Cardinality(RowsIn(T)) \in Nat
          /\ Cardinality(rows) \in Nat
      <4>1. IsFiniteSet(RowsIn(T)) /\ Cardinality(RowsIn(T)) <= Cardinality(rows)
        <5> HIDE DEF rows, T
        <5> QED
          BY <3>2, <3>3, FS_Subset
      <4> HIDE DEF rows, T
      <4>2. Cardinality(RowsIn(T)) \in Nat
        BY <4>1, FS_CardinalityType
      <4>3. Cardinality(rows) \in Nat
        BY <3>2, FS_CardinalityType
      <4> QED
        BY <4>1, <4>2, <4>3
    <3> HIDE DEF rows, T, added
    <3> QED
      BY <1>5, <3>2, <3>4
  <2> HIDE DEF T, added
  <2>5. Cardinality(ItemsOf(t)) <= row.total
    BY <1>5, <1>6, <2>3, FS_EmptySet
  <2>6. Safe' /\ tasks'[t] = row
    BY <1>2, <1>3, <1>4, <1>6, <2>1, <2>5, TaskWritten
  <2>7. ItemsOf(t)' = {} /\ items' = items
    BY <1>2, <2>3 DEF ItemsOf
  <2>8. ~Creates(T)
    BY <1>3, LaterIsFine DEF T
  <2>9. Numbered(t, row, T)'
    <3>1. (ItemsOf(t) \union RowsIn(T))' = RowsIn(T)
      BY <2>7 DEF RowsIn
    <3>2. Cardinality(ItemsOf(t) \union RowsIn(T))' <= row.total
      BY <1>6, <2>4, <3>1 DEF T
    <3> QED
      BY <1>6, <2>6, <3>2 DEF Numbered
  <2>10. Begun(t, T)' /\ Unlit(t, T)' /\ Earned(t, T)'
    BY <1>3, <2>1, <2>7, <2>8 DEF Fit, Begun, Unlit, Earned, T, Creates
  <2>11. Harmless(t, T)'
    BY <1>3, <1>6, <2>1, <2>6, <2>7 DEF Fit, Harmless, T
  <2> QED
    BY <2>6, <2>9, <2>10, <2>11 DEF Fit, T
<1>9. items' \in [Task -> [Stocked -> ItemStatus \union {"none"}]]
      /\ hold' \in [Spot -> Task \union {NoTask}]
  BY <1>2, <1>4 DEF PtlShape, PtlTypeOK
<1> QED
  BY <1>1, <1>2, <1>3, <1>6, <1>7, <1>8, <1>9, Going

LEMMA SaveTaskStep ==
  ASSUME IsFiniteSet(Stocked), PtlInv, NEW w \in Hand, SaveTask(w)
  PROVE  PtlInv'
<1>1. PICK t, S, q, c, row, x :
        /\ t = hand[w].task /\ S = Ahead(w) /\ q = Tail(hand[w].todo) /\ c = hand[w].copy
        /\ row = [c EXCEPT !.status = Next1(w).to] /\ x = Next1(w)
  OBVIOUS
<1>2. /\ Busy(w) /\ x.op = "saveTask"
      /\ tasks' = [tasks EXCEPT ![t] = row]
      /\ Goes(w, row, q)
      /\ UNCHANGED <<items, hold>>
  BY <1>1 DEF SaveTask, WriteTask, At, Busy
<1>3. /\ t \in Task /\ x \in S /\ q \in Seq(Later) /\ ToSet(q) \subseteq S
      /\ c \in TaskRow /\ x \in Sound /\ tasks[t] \in TaskRow
      /\ ~Creates(S)
      /\ ~raced => Safe /\ Fit(t, c, S)
  BY <1>1, <1>2, AtStatement
<1>4. PtlShape
  BY DEF PtlInv
<1>5. row \in TaskRow /\ row.status = x.to /\ row.total = c.total /\ x.to # "none"
  BY <1>1, <1>2, <1>3 DEF TaskRow, Sound, TaskStatus, Open
<1>6. tasks' \in [Task -> TaskRow]
  BY <1>2, <1>4, <1>5 DEF PtlShape, PtlTypeOK
<1>7. ASSUME ~raced PROVE Safe' /\ Fit(t, row, ToSet(q))'
  <2> DEFINE T == ToSet(q)
  <2>1. Safe /\ Fit(t, c, S)
    BY <1>3, <1>7
  <2>2. Fit(t, c, T) /\ ~Creates(T)
    BY <1>3, <2>1, FewerFit DEF Creates
  <2> HIDE DEF T
  <2>3. c.total = tasks[t].total /\ Cardinality(ItemsOf(t)) <= tasks[t].total
    BY <1>3, <2>1 DEF Fit, Numbered, Safe, Filed
  <2>4. row.status = "COMPLETED" => \A r \in ItemsOf(t) : items[t][r] = "CONFIRMED"
    BY <1>2, <1>3, <1>5, <2>1 DEF Fit, Earned, Completes
  <2>5. Safe' /\ tasks'[t] = row
    BY <1>2, <1>3, <1>4, <1>5, <2>1, <2>3, <2>4, TaskWritten
  <2>6. ItemsOf(t)' = ItemsOf(t) /\ items' = items
    BY <1>2 DEF ItemsOf
  <2>7. Numbered(t, row, T)'
    <3>1. (ItemsOf(t) \union RowsIn(T))' = ItemsOf(t) \union RowsIn(T)
      BY <2>6 DEF RowsIn
    <3>2. T # {} => Cardinality(ItemsOf(t) \union RowsIn(T)) <= tasks[t].total
      BY <2>2 DEF Fit, Numbered
    <3> QED
      BY <1>5, <2>3, <2>5, <3>1, <3>2 DEF Numbered
  <2>8. Begun(t, T)' /\ Unlit(t, T)' /\ Earned(t, T)'
    BY <2>2, <2>6 DEF Fit, Begun, Unlit, Earned, Creates
  <2>9. Harmless(t, T)'
    <3>1. ASSUME NEW s \in T, Unconfirms(s) PROVE ~Completes(x)
      BY <1>3, <2>1, <3>1 DEF Fit, Harmless, T
    <3> QED
      BY <1>2, <1>5, <2>2, <2>5, <2>6, <3>1 DEF Fit, Harmless, Completes
  <2> QED
    BY <2>5, <2>7, <2>8, <2>9 DEF Fit, T
<1>8. items' \in [Task -> [Stocked -> ItemStatus \union {"none"}]]
      /\ hold' \in [Spot -> Task \union {NoTask}]
  BY <1>2, <1>4 DEF PtlShape, PtlTypeOK
<1> QED
  BY <1>1, <1>2, <1>3, <1>5, <1>6, <1>7, <1>8, Going

-----------------------------------------------------------------------------
(* The statements that write items *)

\* Items of one task are written, in the rows R.
LEMMA ItemsWritten ==
  ASSUME IsFiniteSet(Stocked), PtlShape, Safe, NEW t \in Task, NEW R \in SUBSET Stocked,
         tasks' = tasks, items' \in [Task -> [Stocked -> ItemStatus \union {"none"}]],
         \A u \in Task : u # t => items'[u] = items[u],
         \A r \in Stocked \ R : items'[t][r] = items[t][r],
         \A r \in R : items'[t][r] # "none",
         tasks[t].status # "none", Cardinality(ItemsOf(t) \union R) <= tasks[t].total,
         \A r \in R : items'[t][r] \in Lit =>
           \A u \in Task, q \in Stocked :
             items[u][q] \in Lit /\ SpotOf[q] = SpotOf[r] => u = t,
         \A r \in R : items'[t][r] # "CONFIRMED" => tasks[t].status # "COMPLETED"
  PROVE  Safe' /\ ItemsOf(t)' = ItemsOf(t) \union R
<1>1. ItemsOf(t)' = ItemsOf(t) \union R
  BY DEF ItemsOf
<1>2. \A u \in Task : u # t => ItemsOf(u)' = ItemsOf(u)
  BY DEF ItemsOf
<1>3. Filed'
  <2>1. ASSUME NEW u \in Task
        PROVE  /\ tasks'[u].status = "none" => ItemsOf(u)' = {}
               /\ Cardinality(ItemsOf(u)') <= tasks'[u].total
    <3>1. CASE u = t
      BY <1>1, <3>1
    <3>2. CASE u # t
      BY <1>2, <3>2 DEF Safe, Filed
    <3> QED
      BY <3>1, <3>2
  <2> QED
    BY <2>1 DEF Filed
<1>4. OneLit'
  <2>1. ASSUME NEW u \in Task, NEW v \in Task, NEW r \in Stocked, NEW q \in Stocked,
               items'[u][r] \in Lit, items'[v][q] \in Lit, SpotOf[r] = SpotOf[q]
        PROVE  u = v
    <3>1. CASE u # t /\ v # t
      BY <2>1, <3>1 DEF Safe, OneLit
    <3>2. CASE u = t /\ v # t
      <4>1. CASE r \in R
        BY <2>1, <3>2, <4>1
      <4>2. CASE r \notin R
        BY <2>1, <3>2, <4>2 DEF Safe, OneLit
      <4> QED
        BY <4>1, <4>2
    <3>3. CASE u # t /\ v = t
      <4>1. CASE q \in R
        BY <2>1, <3>3, <4>1
      <4>2. CASE q \notin R
        BY <2>1, <3>3, <4>2 DEF Safe, OneLit
      <4> QED
        BY <4>1, <4>2
    <3> QED
      BY <3>1, <3>2, <3>3
  <2> QED
    BY <2>1 DEF OneLit
<1>5. DoneIsConfirmed'
  <2>1. ASSUME NEW u \in Task, tasks'[u].status = "COMPLETED", NEW r \in ItemsOf(u)'
        PROVE  items'[u][r] = "CONFIRMED"
    <3>1. CASE u = t
      <4>1. CASE r \in R
        BY <2>1, <3>1, <4>1
      <4>2. CASE r \notin R
        BY <1>1, <2>1, <3>1, <4>2 DEF Safe, DoneIsConfirmed, ItemsOf
      <4> QED
        BY <4>1, <4>2
    <3>2. CASE u # t
      BY <1>2, <2>1, <3>2 DEF Safe, DoneIsConfirmed
    <3> QED
      BY <3>1, <3>2
  <2> QED
    BY <2>1 DEF DoneIsConfirmed
<1> QED
  BY <1>1, <1>3, <1>4, <1>5 DEF Safe

\* What was ahead of a handler before it wrote rows that were ahead of it.
LEMMA FitAfterItems ==
  ASSUME IsFiniteSet(Stocked), PtlShape, NEW t \in Task, NEW copy, NEW S, Fit(t, copy, S),
         ~Creates(S), S # {}, NEW T, T \subseteq S, NEW R, R \subseteq RowsIn(S),
         tasks' = tasks, ItemsOf(t)' = ItemsOf(t) \union R,
         \A u \in Task : u # t => items'[u] = items[u]
  PROVE  Begun(t, T)' /\ Numbered(t, copy, T)' /\ Unlit(t, T)'
<1>1. ~Creates(T)
  BY DEF Creates
<1>2. /\ tasks[t].status # "none" /\ copy.total = tasks[t].total
      /\ Cardinality(ItemsOf(t) \union RowsIn(S)) <= tasks[t].total
      /\ tasks[t].total \in Nat
  BY DEF Fit, Numbered, PtlShape, PtlTypeOK, TaskRow
<1>3. /\ (ItemsOf(t) \union R) \union RowsIn(T) \subseteq ItemsOf(t) \union RowsIn(S)
      /\ ItemsOf(t) \union RowsIn(S) \subseteq Stocked
  BY DEF RowsIn, ItemsOf
<1>4. Cardinality((ItemsOf(t) \union R) \union RowsIn(T)) <= tasks[t].total
  BY <1>2, <1>3, FewerRows
<1>5. Numbered(t, copy, T)'
  <2>1. (ItemsOf(t) \union RowsIn(T))' = (ItemsOf(t) \union R) \union RowsIn(T)
    BY DEF RowsIn
  <2> QED
    BY <1>2, <1>4, <2>1 DEF Numbered
<1>6. Unlit(t, T)'
  <2>1. ASSUME NEW s \in T, Lights(s), NEW u \in Task, NEW q \in Stocked,
               items'[u][q] \in Lit, SpotOf[q] = SpotOf[s.row], u # t
        PROVE  FALSE
    BY <2>1 DEF Fit, Unlit
  <2> QED
    BY <2>1 DEF Unlit
<1> QED
  BY <1>1, <1>5, <1>6 DEF Begun, Creates

LEMMA AddItemsStep ==
  ASSUME IsFiniteSet(Stocked), PtlInv, NEW w \in Hand, AddItems(w)
  PROVE  PtlInv'
<1>1. PICK t, S, c, x, a, n :
        /\ t = hand[w].task /\ S = Ahead(w) /\ c = hand[w].copy /\ x = Next1(w)
        /\ a = hand[w].todo
        /\ n = Cardinality({i \in DOMAIN hand[w].todo : hand[w].todo[i].op = "addItem"})
  OBVIOUS
<1> DEFINE added == {i \in DOMAIN a : a[i].op = "addItem"}
           q == SubSeq(a, n + 1, Len(a))
           R == {r \in Stocked : \E i \in added : a[i].row = r}
<1>2. /\ Busy(w) /\ x.op = "addItem"
      /\ items' = [items EXCEPT ![t] = [r \in Stocked |-> IF \E i \in added : a[i].row = r
                                                          THEN "PENDING" ELSE @[r]]]
      /\ Goes(w, c, q)
      /\ UNCHANGED <<tasks, hold>>
  BY <1>1 DEF AddItems, At, Busy
<1>3. /\ t \in Task /\ x \in S /\ c \in TaskRow /\ a \in Seq(Later) /\ tasks[t] \in TaskRow
      /\ ~Creates(S) /\ S = ToSet(a)
      /\ ~raced => Safe /\ Fit(t, c, S)
  BY <1>1, <1>2, AtStatement DEF Ahead
<1>4. PtlShape
  BY DEF PtlInv
<1>5. n \in Nat
  <2>1. added \subseteq 1..Len(a) /\ Len(a) \in Int
    BY <1>3
  <2>2. IsFiniteSet(added)
    BY <2>1, FS_Interval, FS_Subset
  <2> QED
    BY <1>1, <2>2, FS_CardinalityType
<1>6. q \in Seq(Later) /\ ToSet(q) \subseteq S
  BY <1>3, <1>5, LeftoverOfMany
<1>7. /\ items' \in [Task -> [Stocked -> ItemStatus \union {"none"}]]
      /\ \A u \in Task : u # t => items'[u] = items[u]
      /\ \A r \in Stocked : items'[t][r] = IF r \in R THEN "PENDING" ELSE items[t][r]
  <2>1. "PENDING" \in ItemStatus
    BY DEF ItemStatus, Lit
  <2> HIDE DEF added
  <2>2. items[t] \in [Stocked -> ItemStatus \union {"none"}]
    BY <1>3, <1>4 DEF PtlShape, PtlTypeOK
  <2> QED
    BY <1>2, <1>3, <1>4, <2>1, <2>2 DEF PtlShape, PtlTypeOK
<1>8. R \subseteq RowsIn(S) /\ \A r \in R : \E s \in S : s.op = "addItem" /\ s.row = r
  BY <1>3 DEF RowsIn, ToSet
<1> HIDE DEF q, added, R
<1>9. ASSUME ~raced PROVE Safe' /\ Fit(t, c, ToSet(q))'
  <2>1. Safe /\ Fit(t, c, S) /\ S # {}
    BY <1>3, <1>9
  <2>2. /\ tasks[t].status # "none"
        /\ Cardinality(ItemsOf(t) \union R) <= tasks[t].total
    <3>1. ItemsOf(t) \union R \subseteq ItemsOf(t) \union RowsIn(S)
          /\ ItemsOf(t) \union RowsIn(S) \subseteq Stocked
      BY <1>8 DEF RowsIn, ItemsOf
    <3>2. tasks[t].total \in Nat
      BY <1>3 DEF TaskRow
    <3>3. /\ tasks[t].status # "none"
          /\ Cardinality(ItemsOf(t) \union RowsIn(S)) <= tasks[t].total
      BY <1>3, <2>1 DEF Fit, Numbered
    <3> QED
      BY <3>1, <3>2, <3>3, FewerRows
  <2>3. /\ tasks[t].status # "COMPLETED" /\ \A s \in S : ~Confirms(s) /\ ~Completes(s)
    BY <1>2, <1>3, <2>1 DEF Fit, Harmless, Unconfirms
  <2>4. \A r \in R : \A u \in Task, o \in Stocked :
          items[u][o] \in Lit /\ SpotOf[o] = SpotOf[r] => u = t
    BY <1>8, <2>1 DEF Fit, Unlit, Lights
  <2>5. R \in SUBSET Stocked
    BY DEF R
  <2>6. Safe' /\ ItemsOf(t)' = ItemsOf(t) \union R
    <3>1. /\ \A r \in R : items'[t][r] # "none"
          /\ \A r \in Stocked \ R : items'[t][r] = items[t][r]
          /\ \A r \in R : items'[t][r] # "CONFIRMED" => tasks[t].status # "COMPLETED"
      BY <1>7, <2>3, <2>5
    <3>2. \A r \in R : items'[t][r] \in Lit =>
            \A u \in Task, o \in Stocked :
              items[u][o] \in Lit /\ SpotOf[o] = SpotOf[r] => u = t
      BY <2>4
    <3> QED
      BY <1>2, <1>3, <1>4, <1>7, <2>1, <2>2, <2>5, <3>1, <3>2, ItemsWritten
  <2>7. Begun(t, ToSet(q))' /\ Numbered(t, c, ToSet(q))' /\ Unlit(t, ToSet(q))'
    BY <1>2, <1>3, <1>4, <1>6, <1>7, <1>8, <2>1, <2>6, FitAfterItems
  <2>8. Earned(t, ToSet(q))'
    BY <1>6, <2>3 DEF Earned
  <2>9. Harmless(t, ToSet(q))'
    <3>1. ASSUME NEW s \in S, Unconfirms(s)
          PROVE  items'[t][s.row] # "CONFIRMED"
      <4>1. s \in Later /\ items[t][s.row] # "CONFIRMED"
        BY <1>3, <2>1, <3>1, Elements DEF Fit, Harmless
      <4>2. s.row \in Stocked
        BY <3>1, <4>1 DEF Later, Sound, Unconfirms
      <4> QED
        BY <1>7, <4>1, <4>2
    <3> QED
      BY <1>2, <1>6, <2>3, <3>1 DEF Harmless
  <2> QED
    BY <2>6, <2>7, <2>8, <2>9 DEF Fit
<1>10. tasks' \in [Task -> TaskRow] /\ hold' \in [Spot -> Task \union {NoTask}]
  BY <1>2, <1>4 DEF PtlShape, PtlTypeOK
<1> QED
  BY <1>1, <1>2, <1>3, <1>6, <1>7, <1>9, <1>10, Going

LEMMA SaveItemStep ==
  ASSUME IsFiniteSet(Stocked), PtlInv, NEW w \in Hand, SaveItem(w)
  PROVE  PtlInv'
<1>1. PICK t, S, c, x, q :
        /\ t = hand[w].task /\ S = Ahead(w) /\ c = hand[w].copy /\ x = Next1(w)
        /\ q = Tail(hand[w].todo)
  OBVIOUS
<1>2. /\ Busy(w) /\ x.op = "saveItem"
      /\ items' = [items EXCEPT ![t][x.row] = x.to]
      /\ Goes(w, c, q)
      /\ UNCHANGED <<tasks, hold>>
  BY <1>1 DEF SaveItem, At, Busy, GoesOn
<1>3. /\ t \in Task /\ x \in S /\ c \in TaskRow /\ q \in Seq(Later) /\ ToSet(q) \subseteq S
      /\ x \in Sound /\ tasks[t] \in TaskRow
      /\ ~Creates(S)
      /\ ~raced => Safe /\ Fit(t, c, S)
      /\ S \subseteq Later
  <2>1. S \subseteq Later
    BY <1>1, <1>2, AtStatement, Elements DEF Ahead
  <2> QED
    BY <1>1, <1>2, <2>1, AtStatement
<1>4. PtlShape
  BY DEF PtlInv
<1>5. x.row \in Stocked /\ x.to \in ItemStatus
  BY <1>2, <1>3 DEF Sound
<1>6. /\ items' \in [Task -> [Stocked -> ItemStatus \union {"none"}]]
      /\ \A u \in Task : u # t => items'[u] = items[u]
      /\ \A r \in Stocked : items'[t][r] = IF r = x.row THEN x.to ELSE items[t][r]
  <2>1. items[t] \in [Stocked -> ItemStatus \union {"none"}]
    BY <1>3, <1>4 DEF PtlShape, PtlTypeOK
  <2> QED
    BY <1>2, <1>3, <1>4, <1>5, <2>1 DEF PtlShape, PtlTypeOK
<1> DEFINE R == {x.row}
<1>7. R \subseteq RowsIn(S) /\ R \in SUBSET Stocked
  BY <1>2, <1>3, <1>5 DEF RowsIn
<1>8. ASSUME ~raced PROVE Safe' /\ Fit(t, c, ToSet(q))'
  <2>1. Safe /\ Fit(t, c, S) /\ S # {}
    BY <1>3, <1>8
  <2>2. /\ tasks[t].status # "none"
        /\ Cardinality(ItemsOf(t) \union R) <= tasks[t].total
    <3>1. ItemsOf(t) \union R \subseteq ItemsOf(t) \union RowsIn(S)
          /\ ItemsOf(t) \union RowsIn(S) \subseteq Stocked
      BY <1>7 DEF RowsIn, ItemsOf
    <3>2. tasks[t].total \in Nat
      BY <1>3 DEF TaskRow
    <3>3. /\ tasks[t].status # "none"
          /\ Cardinality(ItemsOf(t) \union RowsIn(S)) <= tasks[t].total
      BY <1>3, <2>1 DEF Fit, Numbered
    <3> QED
      BY <3>1, <3>2, <3>3, FewerRows
  <2>3. x.to # "CONFIRMED" => /\ tasks[t].status # "COMPLETED"
                              /\ \A s \in S : ~Completes(s)
    BY <1>2, <1>3, <2>1 DEF Fit, Harmless, Unconfirms
  <2>4. x.to \in Lit => \A u \in Task, o \in Stocked :
                          items[u][o] \in Lit /\ SpotOf[o] = SpotOf[x.row] => u = t
    BY <1>2, <1>3, <2>1 DEF Fit, Unlit, Lights
  <2>5. Safe' /\ ItemsOf(t)' = ItemsOf(t) \union R
    <3>1. /\ \A r \in Stocked \ R : items'[t][r] = items[t][r]
          /\ \A r \in R : items'[t][r] = x.to /\ r = x.row
          /\ x.to # "none"
      BY <1>5, <1>6 DEF ItemStatus, Lit
    <3>2. /\ \A r \in R : items'[t][r] # "none"
          /\ \A r \in R : items'[t][r] # "CONFIRMED" => tasks[t].status # "COMPLETED"
      BY <2>3, <3>1
    <3>3. \A r \in R : items'[t][r] \in Lit =>
            \A u \in Task, o \in Stocked :
              items[u][o] \in Lit /\ SpotOf[o] = SpotOf[r] => u = t
      BY <2>4, <3>1
    <3> HIDE DEF R
    <3> QED
      BY <1>2, <1>3, <1>4, <1>6, <1>7, <2>1, <2>2, <3>1, <3>2, <3>3, ItemsWritten
  <2>6. Begun(t, ToSet(q))' /\ Numbered(t, c, ToSet(q))' /\ Unlit(t, ToSet(q))'
    <3> HIDE DEF R
    <3>1. R \subseteq RowsIn(S) /\ ItemsOf(t)' = ItemsOf(t) \union R /\ tasks' = tasks
      BY <1>2, <1>7, <2>5
    <3>2. \A u \in Task : u # t => items'[u] = items[u]
      BY <1>6
    <3> QED
      BY <1>3, <1>4, <2>1, <3>1, <3>2, FitAfterItems
  <2>7. Earned(t, ToSet(q))'
    <3>1. ASSUME NEW s \in ToSet(q), Completes(s), NEW r \in ItemsOf(t)'
          PROVE  items'[t][r] = "CONFIRMED"
      <4>1. x.to = "CONFIRMED" /\ \A o \in ItemsOf(t) : items[t][o] = "CONFIRMED"
        BY <1>3, <2>1, <2>3, <3>1 DEF Fit, Earned
      <4> QED
        BY <1>6, <2>5, <3>1, <4>1 DEF ItemsOf
    <3> QED
      BY <3>1 DEF Earned
  <2>8. Harmless(t, ToSet(q))'
    <3>1. ASSUME NEW s \in ToSet(q), Unconfirms(s)
          PROVE  /\ items'[t][s.row] # "CONFIRMED" /\ tasks[t].status # "COMPLETED"
                 /\ \A o \in S : ~Confirms(o) /\ ~Completes(o)
      <4>1. /\ s \in Later /\ items[t][s.row] # "CONFIRMED" /\ tasks[t].status # "COMPLETED"
            /\ \A o \in S : ~Confirms(o) /\ ~Completes(o)
        BY <1>3, <2>1, <3>1 DEF Fit, Harmless
      <4>2. s.row \in Stocked /\ x.to # "CONFIRMED"
        BY <1>2, <1>3, <3>1, <4>1 DEF Later, Sound, Unconfirms, Confirms
      <4> QED
        BY <1>6, <4>1, <4>2
    <3> QED
      BY <1>2, <1>3, <3>1 DEF Harmless
  <2> QED
    BY <2>5, <2>6, <2>7, <2>8 DEF Fit
<1>9. tasks' \in [Task -> TaskRow] /\ hold' \in [Spot -> Task \union {NoTask}]
  BY <1>2, <1>4 DEF PtlShape, PtlTypeOK
<1> QED
  BY <1>1, <1>2, <1>3, <1>6, <1>8, <1>9, Going

-----------------------------------------------------------------------------
(* The statements that write neither *)

\* Tables but the keys stay as they are, and what is left to do fits.
LEMMA OnlyHandMoves ==
  ASSUME PtlInv, NEW w \in Hand, Busy(w), NEW t, t = hand[w].task,
         NEW copy \in TaskRow, NEW todo \in Seq(Later), Goes(w, copy, todo),
         UNCHANGED <<tasks, items>>, hold' \in [Spot -> Task \union {NoTask}],
         ~raced => Fit(t, copy, ToSet(todo))
  PROVE  PtlInv'
<1>1. /\ tasks' \in [Task -> TaskRow]
      /\ items' \in [Task -> [Stocked -> ItemStatus \union {"none"}]]
  BY DEF PtlInv, PtlShape, PtlTypeOK
<1>2. ~raced => Safe' /\ Fit(t, copy, ToSet(todo))'
  BY FitKept, SafeKept DEF PtlInv
<1> QED
  BY <1>1, <1>2, Going

LEMMA HoldStep ==
  ASSUME IsFiniteSet(Stocked), PtlInv, NEW w \in Hand, SetHold(w) \/ Release(w)
  PROVE  PtlInv'
<1>1. PICK t, S, c, x, q :
        /\ t = hand[w].task /\ S = Ahead(w) /\ c = hand[w].copy /\ x = Next1(w)
        /\ q = Tail(hand[w].todo)
  OBVIOUS
<1>2. /\ Busy(w) /\ x.op \in {"hold", "release"} /\ Goes(w, c, q)
      /\ UNCHANGED <<tasks, items>>
      /\ \E s : \E u \in {t, NoTask} : hold' = [hold EXCEPT ![s] = u]
  BY <1>1 DEF SetHold, Release, At, Busy, GoesOn
<1>3. /\ t \in Task /\ c \in TaskRow /\ q \in Seq(Later) /\ ToSet(q) \subseteq S
      /\ tasks[t] \in TaskRow
      /\ ~Creates(S)
      /\ ~raced => Fit(t, c, S)
  BY <1>1, <1>2, AtStatement
<1>4. hold' \in [Spot -> Task \union {NoTask}]
  BY <1>2, <1>3 DEF PtlInv, PtlShape, PtlTypeOK
<1>5. ~raced => Fit(t, c, ToSet(q))
  BY <1>3, FewerFit
<1> QED
  BY <1>1, <1>2, <1>3, <1>4, <1>5, OnlyHandMoves

LEMMA SendStep ==
  ASSUME IsFiniteSet(Stocked), PtlInv, NEW w \in Hand, Send(w)
  PROVE  PtlInv'
<1>1. PICK t, S, c, x, q :
        /\ t = hand[w].task /\ S = Ahead(w) /\ c = hand[w].copy /\ x = Next1(w)
        /\ q = Tail(hand[w].todo)
  OBVIOUS
<1>2. /\ Busy(w) /\ x.op = "send" /\ UNCHANGED <<tasks, items, hold>>
  BY <1>1 DEF Send, At, Busy
<1>3. PICK after \in {<<Stmt("saveItem", x.row, "ACTIVE")>>,
                      <<Stmt("release", x.row, "-"), Stmt("saveItem", x.row, "FAILED")>>} :
        Goes(w, c, after \o q)
  BY <1>1 DEF Send
<1>4. /\ t \in Task /\ c \in TaskRow /\ q \in Seq(Later) /\ ToSet(q) \subseteq S
      /\ x \in S /\ x \in Sound /\ tasks[t] \in TaskRow
      /\ ~Creates(S)
      /\ ~raced => Fit(t, c, S)
  BY <1>1, <1>2, AtStatement
<1>5. x.row \in Stocked
  BY <1>2, <1>4 DEF Sound
<1> DEFINE on == Stmt("saveItem", x.row, "ACTIVE")
           off == Stmt("release", x.row, "-")
           lost == Stmt("saveItem", x.row, "FAILED")
           Y == {on, off, lost}
           T == ToSet(after \o q)
<1>6. /\ on \in Later /\ off \in Later /\ lost \in Later
      /\ \A y \in Y : /\ y.row = x.row /\ y.op \in {"saveItem", "release"}
                      /\ ~Confirms(y) /\ ~Completes(y)
  BY <1>5 DEF Later, Sound, Statement, Stmt, ItemStatus, Lit, Confirms, Completes
<1> HIDE DEF on, off, lost
<1>7. after = <<on>> \/ after = <<off, lost>>
  BY DEF on, off, lost
<1>8. after \in Seq(Later) /\ after \in Seq(Y)
  <2>1. on \in Y /\ off \in Y /\ lost \in Y
    OBVIOUS
  <2> HIDE DEF Y
  <2>2. CASE after = <<on>>
    BY <1>6, <2>1, <2>2
  <2>3. CASE after = <<off, lost>>
    BY <1>6, <2>1, <2>3
  <2> QED
    BY <1>7, <2>2, <2>3
<1>9. after \o q \in Seq(Later) /\ T = ToSet(after) \union ToSet(q)
  BY <1>4, <1>8, ElementsOfBoth
<1>10. T \subseteq Y \union S /\ ~Creates(T)
  BY <1>4, <1>8, <1>9, Elements, LaterIsFine
<1>11. RowsIn(T) \subseteq RowsIn(S)
  BY <1>2, <1>4, <1>6, <1>10 DEF RowsIn
<1>12. ASSUME ~raced PROVE Fit(t, c, T)
  <2>1. Fit(t, c, S)
    BY <1>4, <1>12
  <2>2. /\ items[t][x.row] # "CONFIRMED" /\ tasks[t].status # "COMPLETED"
        /\ \A o \in S : ~Confirms(o) /\ ~Completes(o)
    BY <1>2, <1>4, <2>1 DEF Fit, Harmless, Unconfirms
  <2>3. Harmless(t, T)
    BY <1>6, <1>10, <2>1, <2>2 DEF Fit, Harmless
  <2>4. Earned(t, T)
    BY <1>6, <1>10, <2>2 DEF Earned
  <2>5. Unlit(t, T)
    <3>1. \A u \in Task, o \in Stocked :
            items[u][o] \in Lit /\ SpotOf[o] = SpotOf[x.row] => u = t
      BY <1>2, <1>4, <2>1 DEF Fit, Unlit, Lights
    <3> QED
      BY <1>6, <1>10, <2>1, <3>1 DEF Fit, Unlit
  <2>6. Numbered(t, c, T)
    <3>1. /\ tasks[t].status # "none" /\ c.total = tasks[t].total
          /\ Cardinality(ItemsOf(t) \union RowsIn(S)) <= tasks[t].total
          /\ tasks[t].total \in Nat
      BY <1>4, <2>1 DEF Fit, Numbered, TaskRow
    <3>2. /\ ItemsOf(t) \union RowsIn(T) \subseteq ItemsOf(t) \union RowsIn(S)
          /\ ItemsOf(t) \union RowsIn(S) \subseteq Stocked
      BY <1>11 DEF RowsIn, ItemsOf
    <3>3. Cardinality(ItemsOf(t) \union RowsIn(T)) <= tasks[t].total
      BY <3>1, <3>2, FewerRows
    <3> QED
      BY <3>1, <3>3 DEF Numbered
  <2> QED
    BY <1>10, <2>3, <2>4, <2>5, <2>6 DEF Fit, Begun
<1>13. hold' \in [Spot -> Task \union {NoTask}]
  BY <1>2 DEF PtlInv, PtlShape, PtlTypeOK
<1> HIDE DEF T
<1>14. PICK todo \in Seq(Later) : todo = after \o q
  BY <1>9
<1>15. ~raced => Fit(t, c, ToSet(todo))
  BY <1>12, <1>14 DEF T
<1>16. Goes(w, c, todo)
  BY <1>3, <1>14
<1> QED
  BY <1>1, <1>2, <1>4, <1>13, <1>15, <1>16, OnlyHandMoves

\* What is left is to save the task with a status that was counted.
LEMMA CountStep ==
  ASSUME IsFiniteSet(Stocked), PtlInv, NEW w \in Hand, Busy(w),
         Next1(w).op \in {"countLit", "countConfirmed"},
         UNCHANGED <<tasks, items, hold>>,
         NEW copy \in TaskRow, copy.total = hand[w].copy.total, NEW x \in TaskStatus,
         Goes(w, copy, <<Stmt("saveTask", NoStock, x)>>),
         ~raced /\ x = "COMPLETED"
           => \A r \in ItemsOf(hand[w].task) : items[hand[w].task][r] = "CONFIRMED"
  PROVE  PtlInv'
<1>1. PICK t, S, c :
        /\ t = hand[w].task /\ S = Ahead(w) /\ c = hand[w].copy
  OBVIOUS
<1>2. /\ t \in Task /\ tasks[t] \in TaskRow /\ Next1(w) \in S
      /\ ~Creates(S)
      /\ ~raced => Safe /\ Fit(t, c, S)
  BY <1>1, AtStatement
<1> DEFINE s == Stmt("saveTask", NoStock, x)
           todo == <<s>>
<1>3. /\ s \in Later /\ s.op = "saveTask" /\ s.to = x
  BY DEF Later, Sound, Statement, Stmt
<1> HIDE DEF s
<1>4. todo \in Seq(Later) /\ ToSet(todo) = {s}
  BY <1>3 DEF ToSet
<1>5. ASSUME ~raced PROVE Fit(t, copy, {s})
  <2>1. RowsIn({s}) = {}
    BY <1>3 DEF RowsIn
  <2>2. Numbered(t, copy, {s})
    <3>1. ItemsOf(t) \union RowsIn({s}) = ItemsOf(t)
      BY <2>1
    <3>2. tasks[t].status # "none" /\ c.total = tasks[t].total
      BY <1>2, <1>5 DEF Fit, Numbered
    <3>3. Cardinality(ItemsOf(t)) <= tasks[t].total
      BY <1>2, <1>5 DEF Safe, Filed
    <3> QED
      BY <1>1, <3>1, <3>2, <3>3 DEF Numbered
  <2> QED
    BY <1>1, <1>3, <1>5, <2>2
       DEF Fit, Begun, Unlit, Harmless, Earned, Creates, Lights, Unconfirms, Completes
<1>6. hold' \in [Spot -> Task \union {NoTask}]
  BY DEF PtlInv, PtlShape, PtlTypeOK
<1>7. Goes(w, copy, todo)
  BY DEF s
<1> HIDE DEF todo
<1> QED
  BY <1>1, <1>4, <1>5, <1>6, <1>7, OnlyHandMoves

LEMMA CountLitStep ==
  ASSUME IsFiniteSet(Stocked), PtlInv, NEW w \in Hand, CountLit(w)
  PROVE  PtlInv'
<1>1. PICK x : x = IF \E r \in Stocked : items[hand[w].task][r] = "ACTIVE"
                   THEN "ACTIVE" ELSE "FAILED"
  OBVIOUS
<1>2. x \in TaskStatus /\ x # "COMPLETED"
  BY <1>1 DEF TaskStatus, Open
<1>3. /\ Busy(w) /\ Next1(w).op = "countLit" /\ UNCHANGED <<tasks, items, hold>>
      /\ Goes(w, hand[w].copy, <<Stmt("saveTask", NoStock, x)>>)
  BY <1>1 DEF CountLit, At, Busy
<1>4. PICK c \in TaskRow : c = hand[w].copy
  BY <1>3, AtStatement
<1> QED
  BY <1>2, <1>3, <1>4, CountStep

LEMMA CountConfirmedStep ==
  ASSUME IsFiniteSet(Stocked), PtlInv, NEW w \in Hand, CountConfirmed(w)
  PROVE  PtlInv'
<1>1. PICK t, c, n, copy, x :
        /\ t = hand[w].task /\ c = hand[w].copy
        /\ n = Cardinality({r \in Stocked : items[t][r] = "CONFIRMED"})
        /\ copy = [c EXCEPT !.confirmed = n] /\ x = Verdict(n, c.total)
  OBVIOUS
<1>2. /\ Busy(w) /\ Next1(w).op = "countConfirmed" /\ UNCHANGED <<tasks, items, hold>>
      /\ Goes(w, copy, <<Stmt("saveTask", NoStock, x)>>)
  BY <1>1 DEF CountConfirmed, At, Busy
<1>3. /\ t \in Task /\ c \in TaskRow /\ Next1(w) \in Ahead(w)
      /\ tasks[t] \in TaskRow
      /\ ~Creates(Ahead(w))
      /\ ~raced => Safe /\ Fit(t, c, Ahead(w))
  BY <1>1, <1>2, AtStatement
<1> DEFINE C == {r \in Stocked : items[t][r] = "CONFIRMED"}
<1>4. C \subseteq ItemsOf(t) /\ ItemsOf(t) \subseteq Stocked
  BY DEF ItemsOf
<1>5. IsFiniteSet(ItemsOf(t)) /\ Cardinality(C) \in Nat /\ Cardinality(ItemsOf(t)) \in Nat
  BY <1>4, FewerRows, FS_Subset
<1>6. copy \in TaskRow /\ copy.total = c.total
  BY <1>1, <1>3, <1>5 DEF TaskRow
<1>7. x \in TaskStatus
  BY <1>1 DEF Verdict, TaskStatus, Open
<1>8. ASSUME ~raced, x = "COMPLETED" PROVE \A r \in ItemsOf(t) : items[t][r] = "CONFIRMED"
  <2>1. c.total = tasks[t].total /\ Cardinality(ItemsOf(t)) <= tasks[t].total
    BY <1>3, <1>8 DEF Fit, Numbered, Safe, Filed
  <2>2. Cardinality(C) >= c.total
    BY <1>1, <1>8 DEF Verdict
  <2>3. c.total \in Nat
    BY <1>3 DEF TaskRow
  <2>4. Cardinality(C) <= Cardinality(ItemsOf(t))
    BY <1>4, <1>5, FewerRows
  <2>5. Cardinality(C) = Cardinality(ItemsOf(t))
    BY <1>5, <2>1, <2>2, <2>3, <2>4
  <2>6. C = ItemsOf(t)
    <3> HIDE DEF C
    <3> QED
      BY <1>4, <1>5, <2>5, FS_Subset
  <2> QED
    BY <2>6
<1> QED
  BY <1>1, <1>2, <1>6, <1>7, <1>8, CountStep

LEMMA StepStep ==
  ASSUME IsFiniteSet(Stocked), PtlInv, NEW w \in Hand, Step(w)
  PROVE  PtlInv'
BY CreateTaskStep, AddItemsStep, HoldStep, SaveTaskStep, SaveItemStep, SendStep, CountLitStep,
   CountConfirmedStep DEF Step

-----------------------------------------------------------------------------
(* What happens between the statements *)

\* Time passes, and keys expire.
LEMMA ClockStep ==
  ASSUME PtlInv,
         (\E t \in Task : PassesExpiry(t)) \/ (\E s \in Spot : KeyExpires(s))
  PROVE  PtlInv'
<1>1. /\ UNCHANGED <<tasks, items, hand, sweeping, due, raced>>
      /\ late' \subseteq Task /\ hold' \in [Spot -> Task \union {NoTask}]
      /\ slow' \in BOOLEAN
  BY DEF PtlInv, PtlShape, PtlTypeOK, PassesExpiry, KeyExpires
<1>2. PtlShape'
  BY <1>1 DEF PtlInv, PtlShape, PtlTypeOK, Busy
<1>3. Safe => Safe'
  BY <1>1, SafeKept
<1>4. Alone => Alone'
  BY <1>1, AloneKept
<1> QED
  BY <1>1, <1>2, <1>3, <1>4 DEF PtlInv

LEMMA SweepItemsStep ==
  ASSUME PtlInv, SweepItems
  PROVE  PtlInv'
<1>1. /\ UNCHANGED <<tasks, hold, late, hand, raced, slow>>
      /\ sweeping' = TRUE /\ due' = late
      /\ \A t \in Task : items'[t] \in [Stocked -> ItemStatus \union {"none"}]
      /\ items' = [t \in Task |-> items'[t]]
      /\ \A t \in Task, r \in Stocked :
           \/ items'[t][r] = items[t][r]
           \/ items[t][r] \in Lit /\ items'[t][r] = "EXPIRED"
  <2>1. PtlTypeOK /\ "EXPIRED" \in ItemStatus
    BY DEF PtlInv, PtlShape, ItemStatus
  <2> QED
    BY <2>1 DEF PtlTypeOK, SweepItems, Expires
<1>2. items' \in [Task -> [Stocked -> ItemStatus \union {"none"}]]
  BY <1>1
<1>3. PtlShape'
  BY <1>1, <1>2 DEF PtlInv, PtlShape, PtlTypeOK, Busy
<1>4. \A t \in Task, r \in Stocked :
        /\ items'[t][r] = "none" <=> items[t][r] = "none"
        /\ items'[t][r] = "CONFIRMED" <=> items[t][r] = "CONFIRMED"
        /\ items'[t][r] \in Lit => items[t][r] \in Lit
  BY <1>1 DEF Lit
<1>5. \A t \in Task : ItemsOf(t)' = ItemsOf(t)
  BY <1>4 DEF ItemsOf
<1>6. Safe => Safe'
  <2>1. Filed => Filed'
    BY <1>1, <1>5 DEF Filed
  <2>2. OneLit => OneLit'
    BY <1>4 DEF OneLit
  <2>3. DoneIsConfirmed => DoneIsConfirmed'
    BY <1>1, <1>4, <1>5 DEF DoneIsConfirmed, ItemsOf
  <2> QED
    BY <2>1, <2>2, <2>3 DEF Safe
<1>7. ASSUME NEW t \in Task, NEW c, NEW S, S \subseteq Sound, Fit(t, c, S)
      PROVE  Fit(t, c, S)'
  <2>1. Begun(t, S)'
    BY <1>1, <1>7 DEF Fit, Begun
  <2>2. Numbered(t, c, S)'
    BY <1>1, <1>5, <1>7 DEF Fit, Numbered, RowsIn
  <2>3. Unlit(t, S)'
    BY <1>4, <1>7 DEF Fit, Unlit
  <2>4. Harmless(t, S)'
    BY <1>1, <1>4, <1>7 DEF Fit, Harmless, Sound, Unconfirms
  <2>5. Earned(t, S)'
    BY <1>4, <1>5, <1>7 DEF Fit, Earned, ItemsOf
  <2> QED
    BY <2>1, <2>2, <2>3, <2>4, <2>5 DEF Fit
<1>8. Alone => Alone'
  <2>1. SUFFICES ASSUME Alone PROVE Alone'
    OBVIOUS
  <2>2. ASSUME NEW w \in Hand, Busy(w)'
        PROVE  Fit(hand[w].task, hand[w].copy, Ahead(w))'
    <3>1. PICK t, c, S : t = hand[w].task /\ c = hand[w].copy /\ S = Ahead(w)
      OBVIOUS
    <3>2. t \in Task /\ S \subseteq Sound /\ Fit(t, c, S)
      BY <1>1, <2>1, <2>2, <3>1, Elements
         DEF Alone, Busy, PtlInv, PtlShape, CreatesFirst, Ahead
    <3>3. Fit(t, c, S)'
      BY <1>7, <3>2
    <3> QED
      BY <1>1, <3>1, <3>3 DEF Ahead
  <2> QED
    BY <1>1, <2>1, <2>2 DEF Alone, Busy
<1> QED
  BY <1>1, <1>3, <1>6, <1>8 DEF PtlInv

LEMMA SweepTasksStep ==
  ASSUME PtlInv, SweepTasks
  PROVE  PtlInv'
<1>1. /\ UNCHANGED <<items, hold, late, hand, raced, slow>>
      /\ sweeping' = FALSE /\ due' = {}
      /\ \A t \in Task : tasks'[t] \in TaskRow
      /\ tasks' = [t \in Task |-> tasks'[t]]
      /\ \A t \in Task :
           \/ tasks'[t] = tasks[t]
           \/ /\ tasks[t].status \in Open /\ tasks'[t].status = "EXPIRED"
              /\ tasks'[t].total = tasks[t].total
  <2>1. PtlTypeOK /\ "EXPIRED" \in TaskStatus
    BY DEF PtlInv, PtlShape, TaskStatus
  <2>2. \A row \in TaskRow : /\ [row EXCEPT !.status = "EXPIRED"] \in TaskRow
                             /\ [row EXCEPT !.status = "EXPIRED"].status = "EXPIRED"
                             /\ [row EXCEPT !.status = "EXPIRED"].total = row.total
    BY <2>1 DEF TaskRow
  <2>3. \A t \in Task : /\ tasks[t] \in TaskRow
                        /\ tasks'[t] = IF t \in Expiring(due)
                                       THEN [tasks[t] EXCEPT !.status = "EXPIRED"]
                                       ELSE tasks[t]
    BY <2>1 DEF PtlTypeOK, SweepTasks
  <2>4. tasks' = [t \in Task |-> tasks'[t]]
    BY DEF SweepTasks
  <2> QED
    BY <2>2, <2>3, <2>4 DEF SweepTasks, Expiring
<1>2. tasks' \in [Task -> TaskRow]
  BY <1>1
<1>3. PtlShape'
  BY <1>1, <1>2 DEF PtlInv, PtlShape, PtlTypeOK, Busy
<1>4. \A t \in Task :
        /\ tasks'[t].status = "none" <=> tasks[t].status = "none"
        /\ tasks'[t].status = "COMPLETED" => tasks[t].status = "COMPLETED"
        /\ tasks'[t].total = tasks[t].total
        /\ tasks[t] = NoRow => tasks'[t] = NoRow
  BY <1>1 DEF Open, NoRow
<1>5. \A t \in Task : ItemsOf(t)' = ItemsOf(t)
  BY <1>1 DEF ItemsOf
<1>6. Safe => Safe'
  BY <1>1, <1>4, <1>5 DEF Safe, Filed, OneLit, DoneIsConfirmed
<1>7. ASSUME NEW t \in Task, NEW c, NEW S, Fit(t, c, S)
      PROVE  Fit(t, c, S)'
  <2>1. Begun(t, S)'
    BY <1>4, <1>7 DEF Fit, Begun
  <2>2. Numbered(t, c, S)'
    BY <1>4, <1>5, <1>7 DEF Fit, Numbered, RowsIn
  <2>3. Unlit(t, S)' /\ Earned(t, S)'
    BY <1>1, <1>5, <1>7 DEF Fit, Unlit, Earned
  <2>4. Harmless(t, S)'
    BY <1>1, <1>4, <1>7 DEF Fit, Harmless
  <2> QED
    BY <2>1, <2>2, <2>3, <2>4 DEF Fit
<1>8. Alone => Alone'
  <2>1. SUFFICES ASSUME Alone PROVE Alone'
    OBVIOUS
  <2>2. ASSUME NEW w \in Hand, Busy(w)'
        PROVE  Fit(hand[w].task, hand[w].copy, Ahead(w))'
    <3>1. PICK t, c, S : t = hand[w].task /\ c = hand[w].copy /\ S = Ahead(w)
      OBVIOUS
    <3>2. t \in Task /\ Fit(t, c, S)
      BY <1>1, <2>1, <2>2, <3>1 DEF Alone, Busy, PtlInv, PtlShape
    <3>3. Fit(t, c, S)'
      BY <1>7, <3>2
    <3> QED
      BY <1>1, <3>1, <3>3 DEF Ahead
  <2> QED
    BY <1>1, <2>1, <2>2 DEF Alone, Busy
<1> QED
  BY <1>1, <1>3, <1>6, <1>8 DEF PtlInv

\* With the process, all that was still to be done is gone.
LEMMA CrashStep ==
  ASSUME PtlInv, PtlCrash
  PROVE  PtlInv'
<1>1. /\ hand' = [w \in Hand |-> Idle] /\ sweeping' = FALSE /\ due' = {}
      /\ UNCHANGED <<tasks, items, hold, late, raced, slow>>
  BY DEF PtlCrash
<1>2. Idle \in [task : Task \union {NoTask}, copy : TaskRow, todo : Seq(Sound)]
  BY DEF Idle, NoRow, TaskRow
<1>3. \A w \in Hand : hand'[w] = Idle /\ ~Busy(w)'
  BY <1>1 DEF Busy, Idle
<1>4. PtlTypeOK'
  <2>1. Idle.task \in Task \union {NoTask} /\ Idle.copy \in TaskRow /\ DOMAIN Idle.todo = {}
    BY <1>2 DEF Idle
  <2> QED
    BY <1>1, <1>3, <2>1 DEF PtlInv, PtlShape, PtlTypeOK
<1>5. PtlShape'
  BY <1>1, <1>2, <1>3, <1>4 DEF PtlShape
<1>6. Safe => Safe'
  BY <1>1, SafeKept
<1> QED
  BY <1>1, <1>3, <1>5, <1>6 DEF PtlInv, Alone

-----------------------------------------------------------------------------
(* The theorems *)

LEMMA PtlStart ==
  ASSUME IsFiniteSet(Stocked), PtlInit
  PROVE  PtlInv
<1>1. Idle \in [task : Task \union {NoTask}, copy : TaskRow, todo : Seq(Sound)]
  BY DEF Idle, NoRow, TaskRow
<1>2. \A w \in Hand : hand[w] = Idle /\ ~Busy(w)
  BY DEF PtlInit, Busy, Idle
<1>3. NoRow \in TaskRow /\ NoRow.status = "none" /\ NoRow.total = 0
  BY DEF NoRow, TaskRow
<1>4. PtlTypeOK
  <2>1. Idle.task \in Task \union {NoTask} /\ Idle.copy \in TaskRow /\ DOMAIN Idle.todo = {}
    BY <1>1 DEF Idle
  <2> QED
    BY <1>2, <1>3, <2>1 DEF PtlInit, PtlTypeOK
<1>5. PtlShape
  BY <1>1, <1>2, <1>4 DEF PtlShape, PtlInit
<1>6. \A t \in Task : ItemsOf(t) = {}
  BY DEF ItemsOf, PtlInit
<1>7. Filed
  <2>1. Cardinality({}) = 0
    BY FS_EmptySet
  <2> QED
    BY <1>3, <1>6, <2>1 DEF Filed, PtlInit
<1>8. OneLit /\ DoneIsConfirmed
  BY <1>3 DEF OneLit, DoneIsConfirmed, PtlInit, Lit
<1> QED
  BY <1>2, <1>5, <1>7, <1>8 DEF PtlInv, Safe, Alone

LEMMA PtlStep ==
  ASSUME IsFiniteSet(Stocked), PtlInv, [PtlNext]_ptlVars
  PROVE  PtlInv'
<1>1. CASE UNCHANGED ptlVars
  <2>1. /\ UNCHANGED <<tasks, items, hand, sweeping, due, raced>>
        /\ UNCHANGED <<hold, late, slow>>
    BY <1>1 DEF ptlVars
  <2>2. PtlShape'
    BY <2>1 DEF PtlInv, PtlShape, PtlTypeOK, Busy
  <2>3. Safe => Safe'
    BY <2>1, SafeKept
  <2>4. Alone => Alone'
    BY <2>1, AloneKept
  <2> QED
    BY <2>1, <2>2, <2>3, <2>4 DEF PtlInv
<1>2. ASSUME NEW w \in Hand, Begin(w) PROVE PtlInv'
  BY <1>2, BeginStep
<1>3. ASSUME NEW w \in Hand, Step(w) PROVE PtlInv'
  BY <1>3, StepStep
<1>4. CASE (\E t \in Task : PassesExpiry(t)) \/ (\E s \in Spot : KeyExpires(s))
  BY <1>4, ClockStep
<1>5. CASE SweepItems
  BY <1>5, SweepItemsStep
<1>6. CASE SweepTasks
  BY <1>6, SweepTasksStep
<1>7. CASE PtlCrash
  BY <1>7, CrashStep
<1> QED
  BY <1>1, <1>2, <1>3, <1>4, <1>5, <1>6, <1>7 DEF PtlNext

(* The invariant is kept.                                                      *)
LEMMA TasksInvariant ==
  ASSUME IsFiniteSet(Stocked)
  PROVE  PtlSpec => []PtlInv
BY PtlStart, PtlStep, PTL DEF PtlSpec

(* As long as handlers follow one another, no location is lit for two tasks,   *)
(* and a task is completed only when each of its locations was confirmed;      *)
(* rows, copies and what handlers have still to do always keep their shape.    *)
THEOREM OnePickerPerLamp ==
  ASSUME IsFiniteSet(Stocked)
  PROVE  PtlSpec => [](OneTaskPerLocation /\ CompletedInFull)
<1>1. PtlInv => OneTaskPerLocation /\ CompletedInFull
  BY DEF PtlInv, PtlShape, Safe, OneLit, DoneIsConfirmed, OneTaskPerLocation, CompletedInFull,
         CompletedIsConfirmed
<1> QED
  BY <1>1, TasksInvariant, PTL

\* A step that writes an item over one that is confirmed confirms it again.
LEMMA ConfirmedKept ==
  ASSUME IsFiniteSet(Stocked), PtlInv, [PtlNext]_ptlVars, ~raced',
         NEW t \in Task, NEW r \in Stocked, items[t][r] = "CONFIRMED"
  PROVE  items'[t][r] = "CONFIRMED"
<1>1. PtlTypeOK
  BY DEF PtlInv, PtlShape
<1>2. ASSUME NEW w \in Hand, AddItems(w) PROVE items'[t][r] = "CONFIRMED"
  <2>1. /\ Busy(w) /\ Next1(w).op = "addItem" /\ raced' = raced
    BY <1>2 DEF AddItems, At, Busy, Goes
  <2>2. /\ hand[w].task \in Task /\ Fit(hand[w].task, hand[w].copy, Ahead(w))
        /\ hand[w].todo \in Seq(Later)
    BY <2>1, AtStatement
  <2> DEFINE added == {i \in DOMAIN hand[w].todo : hand[w].todo[i].op = "addItem"}
  <2>3. items' = [items EXCEPT ![hand[w].task] =
                    [o \in Stocked |-> IF \E i \in added : hand[w].todo[i].row = o
                                       THEN "PENDING" ELSE @[o]]]
    BY <1>2 DEF AddItems
  <2>4. ASSUME NEW i \in added, t = hand[w].task PROVE hand[w].todo[i].row # r
    <3>1. hand[w].todo[i] \in Ahead(w) /\ Unconfirms(hand[w].todo[i])
      BY <2>4 DEF Ahead, ToSet, Unconfirms
    <3> QED
      BY <2>2, <2>4, <3>1 DEF Fit, Harmless
  <2> HIDE DEF added
  <2> QED
    BY <1>1, <2>2, <2>3, <2>4 DEF PtlTypeOK
<1>3. ASSUME NEW w \in Hand, SaveItem(w) PROVE items'[t][r] = "CONFIRMED"
  <2>1. /\ Busy(w) /\ Next1(w).op = "saveItem" /\ raced' = raced
        /\ items' = [items EXCEPT ![hand[w].task][Next1(w).row] = Next1(w).to]
    BY <1>3 DEF SaveItem, At, Busy, Goes, GoesOn
  <2>2. /\ hand[w].task \in Task /\ Fit(hand[w].task, hand[w].copy, Ahead(w))
        /\ Next1(w) \in Ahead(w)
    BY <2>1, AtStatement
  <2>3. t = hand[w].task /\ r = Next1(w).row => Next1(w).to = "CONFIRMED"
    BY <2>1, <2>2 DEF Fit, Harmless, Unconfirms
  <2> QED
    BY <1>1, <2>1, <2>2, <2>3 DEF PtlTypeOK
<1>4. CASE SweepItems
  BY <1>1, <1>4 DEF SweepItems, Expires, Lit, PtlTypeOK
<1>5. ASSUME UNCHANGED items PROVE items'[t][r] = "CONFIRMED"
  BY <1>5
<1>6. ASSUME NEW w \in Hand, Begin(w) PROVE UNCHANGED items
  BY <1>6 DEF Begin, BeginLight, BeginOff, BeginConfirm, BeginButton, BeginAck, Start
<1>7. ASSUME NEW w \in Hand, Step(w) PROVE AddItems(w) \/ SaveItem(w) \/ UNCHANGED items
  BY <1>7 DEF Step, CreateTask, SetHold, SaveTask, Send, CountLit, Release, CountConfirmed,
              WriteTask
<1>8. CASE (\E u \in Task : PassesExpiry(u)) \/ (\E s \in Spot : KeyExpires(s))
  BY <1>8 DEF PassesExpiry, KeyExpires
<1>9. CASE SweepTasks \/ PtlCrash \/ UNCHANGED ptlVars
  BY <1>9 DEF SweepTasks, PtlCrash, ptlVars
<1> QED
  BY <1>2, <1>3, <1>4, <1>5, <1>6, <1>7, <1>8, <1>9 DEF PtlNext

(* What was confirmed is never expired, cancelled or lit again, neither by the *)
(* sweep nor by a handler that read the item earlier and has not overlapped    *)
(* with another.                                                               *)
THEOREM ConfirmedForGood ==
  ASSUME IsFiniteSet(Stocked)
  PROVE  PtlSpec => ConfirmedStays
<1>1. PtlInv /\ [PtlNext]_ptlVars
        => [~raced' => \A t \in Task, r \in Stocked :
              items[t][r] = "CONFIRMED" => items'[t][r] = "CONFIRMED"]_ptlVars
  BY ConfirmedKept
<1> QED
  BY <1>1, TasksInvariant, PTL DEF PtlSpec, ConfirmedStays
=============================================================================
