------------------------ MODULE CommandOrder_proofs ------------------------
(***************************************************************************)
(* Proofs about what a flush of CommandQueue leaves of the entities, for   *)
(* any entities, components, values, stages and bounds: a batched flush    *)
(* has the outcome of its commands one after the other, and leaves the     *)
(* values that were set last.                                              *)
(***************************************************************************)
EXTENDS CommandQueue_proofs

-----------------------------------------------------------------------------
(* What a batch and a buffer do to an entity.                              *)

\* Induction up to n: what holds at 0 and is passed on is in S throughout.
LEMMA UpTo ==
  ASSUME NEW N \in Nat, NEW S, 0 \in S, \A n \in 1..N : n - 1 \in S => n \in S
  PROVE  \A n \in 0..N : n \in S
<1> DEFINE B == {n \in 0..N : n \notin S}
<1>1. SUFFICES ASSUME B # {} PROVE FALSE
  OBVIOUS
<1>2. PICK n \in B : \A k \in B : n <= k
  <2>1. B \in SUBSET Nat
    OBVIOUS
  <2> HIDE DEF B
  <2> QED
    BY <1>1, <2>1, NatMin
<1>3. n # 0 /\ n \in 1..N
  OBVIOUS
<1>4. n - 1 \in 0..N /\ n - 1 < n
  BY <1>3
<1>5. n - 1 \in S
  BY <1>2, <1>4
<1> QED
  BY <1>3, <1>5

\* The command that follows command k in its chain, if k is not the last.
LastOf(q, k) == q[k].next = 0 \/ q[k].kind = "Delete"
NextOf(q, k) == IF q[k].next < 0 THEN - q[k].next ELSE q[k].next

ChainFrom(q, f, k) == f[k] = IF LastOf(q, k) THEN <<k>> ELSE <<k>> \o f[NextOf(q, k)]

LEMMA NextIs ==
  ASSUME NEW q \in Seq(Cmds), Ordered(q), NEW k \in Links(q), q[k].next # 0
  PROVE  Follows(q, k, NextOf(q, k))
<1>1. PICK j \in Links(q) : Follows(q, k, j) /\ q[k].next = IF First(q, k) THEN -j ELSE j
  BY DEF Ordered, Links
<1>2. j \in Nat /\ j > 0
  BY LenProperties DEF Links
<1> QED
  BY <1>1, <1>2 DEF NextOf

\* A command that is not in a chain has no link.
LEMMA NextForward ==
  ASSUME NEW q \in Seq(Cmds), Ordered(q), NEW k \in DOMAIN q, ~ LastOf(q, k)
  PROVE  k \in Links(q) /\ NextOf(q, k) \in k + 1..Len(q)
<1>1. k \in Links(q)
  BY DEF LastOf, Ordered
<1>2. Follows(q, k, NextOf(q, k))
  BY <1>1, NextIs DEF LastOf
<1> QED
  BY <1>1, <1>2, LenProperties DEF Follows, Links

\* The recursive function in Chain exists.
LEMMA ChainRuns ==
  ASSUME NEW q \in Seq(Cmds), Ordered(q)
  PROVE  \E f : /\ f = [k \in 1..Len(q) |-> IF q[k].next = 0 \/ q[k].kind = "Delete" THEN <<k>>
                                            ELSE <<k>> \o f[IF q[k].next < 0 THEN - q[k].next ELSE q[k].next]]
<1> DEFINE n == Len(q)
           P(m) == \E f : \A k \in n - m + 1..n : ChainFrom(q, f, k)
           S == {m \in 0..n : P(m)}
<1>1. n \in Nat /\ DOMAIN q = 1..n
  BY LenProperties
<1> HIDE DEF n
<1>2. 0 \in S
  BY <1>1
<1>3. ASSUME NEW m \in 1..n, m - 1 \in S PROVE m \in S
  <2>1. PICK f : \A k \in n - (m - 1) + 1..n : ChainFrom(q, f, k)
    BY <1>3 DEF P
  <2> DEFINE h == n - m + 1
             g == [k \in 1..n |-> IF k = h THEN IF LastOf(q, k) THEN <<k>> ELSE <<k>> \o f[NextOf(q, k)]
                                  ELSE f[k]]
  <2>2. h \in 1..n /\ h + 1 = n - (m - 1) + 1
    BY <1>1
  <2>3. ASSUME NEW k \in h..n PROVE ChainFrom(q, g, k)
    <3>1. k \in DOMAIN q /\ k \in 1..n
      BY <1>1, <2>2
    <3>2. ASSUME ~ LastOf(q, k) PROVE NextOf(q, k) \in h + 1..n /\ g[NextOf(q, k)] = f[NextOf(q, k)]
      <4>1. NextOf(q, k) \in k + 1..n
        BY <3>1, <3>2, NextForward DEF n
      <4>2. NextOf(q, k) \in h + 1..n /\ NextOf(q, k) \in 1..n /\ NextOf(q, k) # h
        BY <1>1, <2>2, <4>1
      <4> HIDE DEF h
      <4> QED
        BY <4>2
    <3>3. CASE k = h
      BY <3>1, <3>2, <3>3 DEF ChainFrom
    <3>4. CASE k # h
      <4>1. k \in h + 1..n
        BY <1>1, <2>2, <3>4
      <4>2. ChainFrom(q, f, k)
        BY <2>1, <2>2, <4>1
      <4>3. g[k] = f[k]
        BY <3>1, <3>4
      <4> QED
        BY <3>2, <4>2, <4>3 DEF ChainFrom
    <3> QED
      BY <3>3, <3>4
  <2>4. m \in 0..n
    BY <1>1
  <2>5. P(m)
    <3> HIDE DEF g
    <3> QED
      BY <2>3
  <2> HIDE DEF P
  <2> QED
    BY <2>4, <2>5
<1>4. n \in S
  <2>1. n \in 0..n
    BY <1>1
  <2> HIDE DEF S
  <2> QED
    BY <1>1, <1>2, <1>3, <2>1, UpTo
<1>5. PICK f : \A k \in 1..n : ChainFrom(q, f, k)
  BY <1>1, <1>4
<1> DEFINE g == [k \in 1..n |-> f[k]]
<1>6. ASSUME NEW k \in 1..n PROVE g[k] = IF LastOf(q, k) THEN <<k>> ELSE <<k>> \o g[NextOf(q, k)]
  <2>1. ~ LastOf(q, k) => NextOf(q, k) \in 1..n
    BY <1>1, NextForward DEF n
  <2> QED
    BY <1>5, <2>1 DEF ChainFrom
<1>7. g = [k \in 1..n |-> IF LastOf(q, k) THEN <<k>> ELSE <<k>> \o g[NextOf(q, k)]]
  BY <1>6
<1> QED
  BY <1>7 DEF n, LastOf, NextOf

LEMMA ChainUnfolds ==
  ASSUME NEW q \in Seq(Cmds), Ordered(q)
  PROVE  \E f : /\ \A k \in DOMAIN q : ChainFrom(q, f, k) /\ Chain(q, k) = f[k]
<1> DEFINE F(f) == f = [k \in 1..Len(q) |-> IF q[k].next = 0 \/ q[k].kind = "Delete" THEN <<k>>
                                            ELSE <<k>> \o f[IF q[k].next < 0 THEN - q[k].next ELSE q[k].next]]
           f == CHOOSE f : F(f)
<1>1. \E f0 : F(f0)
  BY ChainRuns
<1>2. F(f)
  BY <1>1
<1>3. \A k : Chain(q, k) = f[k]
  BY DEF Chain
<1>4. ASSUME NEW k \in DOMAIN q PROVE ChainFrom(q, f, k)
  <2>1. k \in 1..Len(q)
    BY LenProperties
  <2> HIDE DEF f
  <2> QED
    BY <1>2, <2>1 DEF ChainFrom, LastOf, NextOf
<1> QED
  BY <1>3, <1>4

\* The commands of the entity of command k, from k on.
Rest(q, k) == {x \in Links(q) : x >= k /\ q[x].of.ent = q[k].of.ent}

\* ch has commands of Rest(q, k) in their order, all of them if none is a Delete.
ChainOf(q, k, ch) ==
  /\ ch \in Seq(Nat)
  /\ \A a \in DOMAIN ch : ch[a] \in Rest(q, k)
  /\ \A a, b \in DOMAIN ch : a < b => ch[a] < ch[b]
  /\ (\A x \in Rest(q, k) : q[x].kind # "Delete") => \A x \in Rest(q, k) : \E a \in DOMAIN ch : ch[a] = x

LEMMA ChainOne ==
  ASSUME NEW q \in Seq(Cmds), Ordered(q), NEW k \in Links(q), LastOf(q, k)
  PROVE  ChainOf(q, k, <<k>>)
<1>1. k \in Nat /\ \A x \in Links(q) : x \in Nat
  BY LenProperties DEF Links
<1>2. k \in Rest(q, k)
  BY <1>1 DEF Rest
<1>3. ASSUME q[k].kind # "Delete", NEW x \in Rest(q, k) PROVE x = k
  <2>1. q[k].next = 0
    BY <1>3 DEF LastOf
  <2>2. ~ \E j \in Links(q) : Follows(q, k, j) /\ q[k].next = IF First(q, k) THEN -j ELSE j
    BY <1>1, <2>1 DEF Follows
  <2>3. Final(q, k)
    BY <2>2 DEF Ordered, Links
  <2> QED
    BY <1>1, <2>3 DEF Final, Rest
<1>4. <<k>> \in Seq(Nat) /\ DOMAIN <<k>> = {1} /\ <<k>>[1] = k
  BY <1>1
<1> DEFINE ch == <<k>>
<1> HIDE DEF ch
<1>5. ch \in Seq(Nat) /\ DOMAIN ch = {1} /\ ch[1] = k
  BY <1>4 DEF ch
<1> QED
  BY <1>2, <1>3, <1>5 DEF ChainOf, ch

LEMMA ChainMore ==
  ASSUME NEW q \in Seq(Cmds), Ordered(q), NEW k \in Links(q), ~ LastOf(q, k),
         NEW c2, ChainOf(q, NextOf(q, k), c2)
  PROVE  ChainOf(q, k, <<k>> \o c2)
<1> DEFINE j == NextOf(q, k)
           ch == <<k>> \o c2
<1>1. Follows(q, k, j)
  BY NextIs DEF LastOf
<1>2. k \in Nat /\ j \in Nat /\ \A x \in Links(q) : x \in Nat
  BY <1>1, LenProperties DEF Links, Follows
<1>3. c2 \in Seq(Nat) /\ <<k>> \in Seq(Nat) /\ Len(<<k>>) = 1 /\ <<k>>[1] = k
  BY <1>2 DEF ChainOf
<1> DEFINE n == Len(c2)
<1>4. n \in Nat /\ DOMAIN c2 = 1..n
  BY <1>3, LenProperties
<1>5. /\ ch \in Seq(Nat) /\ DOMAIN ch = 1..n + 1 /\ ch[1] = k
      /\ \A a \in 1..n : ch[a + 1] = c2[a]
  BY <1>2, <1>3, <1>4
<1> HIDE DEF ch, n, j
<1>6. Rest(q, k) = {k} \cup Rest(q, j) /\ \A x \in Rest(q, j) : x > k
  <2>1. j \in Links(q) /\ k < j /\ q[j].of.ent = q[k].of.ent
    BY <1>1 DEF Follows
  <2>2. ASSUME NEW x \in Rest(q, k), x # k PROVE x \in Rest(q, j)
    <3>1. x \in Links(q) /\ x > k /\ q[x].of.ent = q[k].of.ent
      BY <1>2, <2>2 DEF Rest
    <3>2. ~ (x < j)
      BY <1>1, <3>1 DEF Follows
    <3> QED
      BY <1>2, <2>1, <3>1, <3>2 DEF Rest
  <2>3. ASSUME NEW x \in Rest(q, j) PROVE x \in Rest(q, k) /\ x > k
    BY <1>2, <2>1 DEF Rest
  <2>4. k \in Rest(q, k)
    BY <1>2 DEF Rest
  <2> QED
    BY <2>2, <2>3, <2>4
<1>7. ChainOf(q, j, c2)
  BY DEF j
<1>8. ASSUME NEW a \in DOMAIN ch PROVE a = 1 \/ (a - 1 \in DOMAIN c2 /\ ch[a] = c2[a - 1])
  BY <1>4, <1>5
<1>9. \A a \in DOMAIN ch : ch[a] \in Rest(q, k)
  BY <1>5, <1>6, <1>7, <1>8 DEF ChainOf
<1>10. ASSUME NEW a \in DOMAIN ch, NEW b \in DOMAIN ch, a < b PROVE ch[a] < ch[b]
  <2>1. a \in Nat /\ b \in Nat /\ a >= 1 /\ b # 1
    BY <1>4, <1>5, <1>10
  <2>2. b - 1 \in DOMAIN c2 /\ ch[b] = c2[b - 1] /\ ch[b] \in Rest(q, j)
    BY <1>7, <1>8, <2>1 DEF ChainOf
  <2>3. CASE a = 1
    BY <1>5, <1>6, <2>2, <2>3
  <2>4. CASE a # 1
    <3>1. a - 1 \in DOMAIN c2 /\ ch[a] = c2[a - 1] /\ a - 1 < b - 1
      BY <1>8, <1>10, <2>1, <2>4
    <3> QED
      BY <1>7, <2>2, <3>1 DEF ChainOf
  <2> QED
    BY <2>3, <2>4
<1>11. ASSUME \A x \in Rest(q, k) : q[x].kind # "Delete", NEW x \in Rest(q, k)
       PROVE  \E a \in DOMAIN ch : ch[a] = x
  <2>1. CASE x = k
    BY <1>4, <1>5, <2>1
  <2>2. CASE x \in Rest(q, j)
    <3>1. PICK a \in DOMAIN c2 : c2[a] = x
      BY <1>6, <1>7, <1>11, <2>2 DEF ChainOf
    <3>2. a + 1 \in DOMAIN ch /\ ch[a + 1] = x
      BY <1>4, <1>5, <3>1
    <3> QED
      BY <3>2
  <2> QED
    BY <1>6, <2>1, <2>2
<1>12. ChainOf(q, k, ch)
  BY <1>5, <1>9, <1>10, <1>11 DEF ChainOf
<1> QED
  BY <1>12 DEF ch

\* The chain of a command has the commands of its entity from there on, up to a Delete.
LEMMA ChainIs ==
  ASSUME NEW q \in Seq(Cmds), Ordered(q), NEW k \in Links(q)
  PROVE  ChainOf(q, k, Chain(q, k))
<1> DEFINE n == Len(q)
           P(m) == \A x \in Links(q) : x > n - m => ChainOf(q, x, Chain(q, x))
           S == {m \in 0..n : P(m)}
<1>1. n \in Nat /\ DOMAIN q = 1..n /\ \A x \in Links(q) : x \in 1..n
  BY LenProperties DEF Links
<1>2. PICK f : \A x \in DOMAIN q : ChainFrom(q, f, x) /\ Chain(q, x) = f[x]
  BY ChainUnfolds
<1> HIDE DEF n
<1>3. 0 \in S
  BY <1>1
<1>4. ASSUME NEW m \in 1..n, m - 1 \in S PROVE m \in S
  <2>1. \A x \in Links(q) : x > n - (m - 1) => ChainOf(q, x, Chain(q, x))
    BY <1>4
  <2>2. ASSUME NEW x \in Links(q), x > n - m PROVE ChainOf(q, x, Chain(q, x))
    <3>1. x \in DOMAIN q /\ ChainFrom(q, f, x) /\ Chain(q, x) = f[x]
      BY <1>2 DEF Links
    <3>2. CASE LastOf(q, x)
      <4>1. Chain(q, x) = <<x>>
        BY <3>1, <3>2 DEF ChainFrom
      <4> QED
        BY <3>2, <4>1, ChainOne
    <3>3. CASE ~ LastOf(q, x)
      <4>1. Follows(q, x, NextOf(q, x))
        BY <3>3, NextIs DEF LastOf
      <4> DEFINE y == NextOf(q, x)
      <4>2. y \in Links(q) /\ x < y
        BY <4>1 DEF Follows
      <4> HIDE DEF y
      <4>3. y > n - (m - 1)
        BY <1>1, <2>2, <4>2
      <4>4. ChainOf(q, y, Chain(q, y)) /\ Chain(q, y) = f[y]
        BY <1>2, <2>1, <4>2, <4>3 DEF Links
      <4>5. Chain(q, x) = <<x>> \o f[y]
        BY <3>1, <3>3 DEF ChainFrom, y
      <4> QED
        BY <3>3, <4>4, <4>5, ChainMore DEF y
    <3> QED
      BY <3>2, <3>3
  <2>3. m \in 0..n
    BY <1>1
  <2>4. P(m)
    BY <2>2
  <2> HIDE DEF P
  <2> QED
    BY <2>3, <2>4
<1>5. n \in S
  <2>1. n \in 0..n
    BY <1>1
  <2> HIDE DEF S
  <2> QED
    BY <1>1, <1>3, <1>4, <2>1, UpTo
<1>6. k > n - n
  BY <1>1
<1> QED
  BY <1>5, <1>6

\* Whether a component is there after the commands A have added it and the
\* commands R have removed it, if it was there before or not.
Remains(b, A, R) ==
  IF R = {} THEN b \/ A # {} ELSE \E i \in A : \A j \in R : j < i

\* The first of the commands is executed.
LEMMA RemainsPass ==
  ASSUME NEW p \in Nat, NEW A \in SUBSET Nat, NEW R \in SUBSET Nat,
         \A x \in A \cup R : x >= p, ~ (p \in A /\ p \in R),
         NEW b \in BOOLEAN, NEW d \in BOOLEAN, d <=> p \in A \/ (b /\ p \notin R)
  PROVE  Remains(d, A \ {p}, R \ {p}) <=> Remains(b, A, R)
<1>1. CASE p \in R
  <2>1. Remains(b, A, R) <=> \E i \in A : \A j \in R : j < i
    BY <1>1 DEF Remains
  <2>2. ~ d /\ A \ {p} = A /\ \A i \in A : p < i
    BY <1>1
  <2>3. CASE R \ {p} = {}
    BY <1>1, <2>1, <2>2, <2>3 DEF Remains
  <2>4. CASE R \ {p} # {}
    BY <1>1, <2>1, <2>2, <2>4 DEF Remains
  <2> QED
    BY <2>3, <2>4
<1>2. CASE p \notin R
  <2>1. R \ {p} = R
    BY <1>2
  <2>2. CASE R = {}
    BY <1>2, <2>1, <2>2 DEF Remains
  <2>3. CASE R # {}
    <3>0. PICK j \in R : j \in Nat /\ j >= p
      BY <2>3
    <3>1. \A i \in A : (\A x \in R : x < i) => i # p
      <4>1. ASSUME NEW i \in A, \A x \in R : x < i PROVE i # p
        <5>1. j < i /\ i \in Nat
          BY <4>1
        <5> QED
          BY <3>0, <5>1
      <4> QED
        BY <4>1
    <3> QED
      BY <2>1, <2>3, <3>1 DEF Remains
  <2> QED
    BY <2>2, <2>3
<1> QED
  BY <1>1, <1>2

\* One more command comes after all others.
LEMMA RemainsMore ==
  ASSUME NEW p \in Nat, NEW A \in SUBSET Nat, NEW R \in SUBSET Nat,
         \A x \in A \cup R : x < p, NEW b \in BOOLEAN
  PROVE  Remains(b, A \cup {p}, R) /\ ~ Remains(b, A, R \cup {p})
<1>1. \A i \in A : ~ (p < i)
  OBVIOUS
<1> QED
  BY <1>1 DEF Remains

\* A batch leads to the components that the commands of its chain leave.
LEMMA PlanTable ==
  ASSUME NEW q, NEW k, NEW ch, ChainOf(q, k, ch), Rest(q, k) \subseteq Nat,
         \A x \in Rest(q, k) : q[x].kind # "Delete", NEW had, NEW c \in Comps
  PROVE  c \in Plan(q, ch, had).table <=>
           Remains(c \in had, {x \in Rest(q, k) : Adds(q, x, c)}, {x \in Rest(q, k) : Removes(q, x, c)})
<1> DEFINE A == {i \in DOMAIN ch : Adds(q, ch[i], c)}
           R == {i \in DOMAIN ch : Removes(q, ch[i], c)}
           B == {x \in Rest(q, k) : Adds(q, x, c)}
           S == {x \in Rest(q, k) : Removes(q, x, c)}
<1>1. c \in Plan(q, ch, had).table <=> IF R = {} THEN c \in had \/ A # {} ELSE \E i \in A : \A j \in R : j < i
  BY DEF Plan
<1>2. DOMAIN ch \subseteq Nat
  BY LenProperties DEF ChainOf
<1>3. \A x \in Rest(q, k) : \E i \in DOMAIN ch : ch[i] = x
  BY DEF ChainOf
<1>4. \A i \in DOMAIN ch : ch[i] \in Rest(q, k)
  BY DEF ChainOf
<1>5. ASSUME NEW i \in DOMAIN ch, NEW j \in DOMAIN ch PROVE j < i <=> ch[j] < ch[i]
  <2>1. i \in Nat /\ j \in Nat /\ ch[i] \in Nat /\ ch[j] \in Nat
    BY <1>2, <1>4
  <2>2. (j < i => ch[j] < ch[i]) /\ (i < j => ch[i] < ch[j])
    BY DEF ChainOf
  <2> QED
    BY <2>1, <2>2
<1>6. (A = {} <=> B = {}) /\ (R = {} <=> S = {})
  BY <1>3, <1>4
<1>7. ASSUME NEW i \in DOMAIN ch PROVE (\A j \in R : j < i) <=> \A y \in S : y < ch[i]
  BY <1>3, <1>4, <1>5
<1>8. (\E i \in A : \A j \in R : j < i) <=> \E x \in B : \A y \in S : y < x
  <2>1. ASSUME NEW i \in A, \A j \in R : j < i PROVE ch[i] \in B /\ \A y \in S : y < ch[i]
    BY <1>4, <1>7, <2>1
  <2>2. ASSUME NEW x \in B, \A y \in S : y < x PROVE \E i \in A : \A j \in R : j < i
    <3>1. PICK i \in DOMAIN ch : ch[i] = x
      BY <1>3
    <3>2. i \in A /\ \A j \in R : j < i
      BY <1>7, <2>2, <3>1
    <3> QED
      BY <3>2
  <2> QED
    BY <2>1, <2>2
<1> HIDE DEF A, R
<1> QED
  BY <1>1, <1>6, <1>8 DEF Remains

-----------------------------------------------------------------------------
(* The meaning of a buffer.                                                *)

MeantType == [Slots -> [alive : BOOLEAN, gen : 0..MaxGen, val : [Comps -> Vals \cup {Unfixed}]]]

\* Whether component c is there after o if it was before or not.
Leaves(o, c, b) ==
  \/ o.op \in {"add", "set"} /\ o.comp = c
  \/ b /\ o.op \notin {"clear", "delete"} /\ ~ (o.op = "remove" /\ o.comp = c)

\* r is m after o.
OpDone(m, o, r) ==
  LET s == o.ent[1] IN
  /\ r \in MeantType /\ \A t \in Slots : r[t].gen = m[t].gen
  /\ \A t \in Slots \ {s} : r[t] = m[t]
  /\ ~ Alive(m, o.ent) => r = m
  /\ Alive(m, o.ent) =>
       /\ r[s].alive <=> o.op # "delete"
       /\ \A c \in Comps : r[s].val[c] # None <=> Leaves(o, c, m[s].val[c] # None)

LEMMA InOrderIs ==
  ASSUME NEW m \in MeantType, NEW o \in AllOps
  PROVE  OpDone(m, o, InOrder(m, o))
<1> DEFINE r == InOrder(m, o)
           s == o.ent[1]
           E == [alive : BOOLEAN, gen : 0..MaxGen, val : [Comps -> Vals \cup {Unfixed}]]
<1> SUFFICES OpDone(m, o, r)
  OBVIOUS
<1>1. /\ o.ent \in Entities /\ o.comp \in Comps \cup {None} /\ o.arg \in Values \cup {None}
      /\ (o.comp = None) = (o.op \in {"clear", "delete"}) /\ (o.arg = None) = (o.op # "set")
      /\ o.op \in Ops \cup HookOps \cup {"set"}
  BY OperationIs DEF AllOps
<1>2. o.op \in {"add", "remove", "set", "clear", "delete"} /\ Unfixed # None /\ None \notin Comps /\ None \notin Values
  BY <1>1, ConstantsAssumption
<1>3. s \in Slots /\ m[s] \in E
  BY <1>1, EntityIs DEF MeantType
<1>4. m[s].alive \in BOOLEAN /\ m[s].gen \in 0..MaxGen /\ m[s].val \in [Comps -> Vals \cup {Unfixed}]
  BY <1>3
<1>5. ASSUME NEW x \in E, x.gen = m[s].gen
      PROVE  LET v == [m EXCEPT ![s] = x] IN
             /\ v \in MeantType /\ v[s] = x /\ \A t \in Slots \ {s} : v[t] = m[t]
             /\ \A t \in Slots : v[t].gen = m[t].gen
  BY <1>3, <1>5 DEF MeantType
<1>6. ASSUME NEW f \in [Comps -> Vals \cup {Unfixed}], NEW a \in BOOLEAN
      PROVE  LET x == [m[s] EXCEPT !.val = f, !.alive = a] IN
             x \in E /\ x.gen = m[s].gen /\ x.val = f /\ x.alive = a
  BY <1>3
<1>7. CASE ~ Alive(m, o.ent)
  <2>1. r = m
    BY <1>7 DEF InOrder, Alive
  <2> QED
    BY <1>7, <2>1 DEF OpDone
<1>8. CASE Alive(m, o.ent)
  <2>1. m[s].alive
    BY <1>8 DEF Alive
  <2>2. ASSUME NEW f \in [Comps -> Vals \cup {Unfixed}], NEW a \in BOOLEAN,
               r = [m EXCEPT ![s] = [m[s] EXCEPT !.val = f, !.alive = a]],
               a <=> o.op # "delete",
               \A c \in Comps : f[c] # None <=> Leaves(o, c, m[s].val[c] # None)
        PROVE  /\ r \in MeantType /\ \A t \in Slots : r[t].gen = m[t].gen
               /\ \A t \in Slots \ {s} : r[t] = m[t]
               /\ r[s].alive <=> o.op # "delete"
               /\ \A c \in Comps : r[s].val[c] # None <=> Leaves(o, c, m[s].val[c] # None)
    <3> DEFINE x == [m[s] EXCEPT !.val = f, !.alive = a]
    <3>1. x \in E /\ x.gen = m[s].gen /\ x.val = f /\ x.alive = a
      BY <1>6
    <3>2. r = [m EXCEPT ![s] = x]
      BY <2>2
    <3> HIDE DEF x, r, s, E
    <3>3. r \in MeantType /\ r[s] = x /\ (\A t \in Slots \ {s} : r[t] = m[t]) /\ \A t \in Slots : r[t].gen = m[t].gen
      BY <1>5, <3>1, <3>2
    <3> QED
      BY <2>2, <3>1, <3>3
  <2>3. ASSUME NEW v \in Vals \cup {Unfixed}, o.comp \in Comps,
               r = [m EXCEPT ![s].val[o.comp] = v], o.op \in {"add", "set", "remove"},
               v # None <=> o.op # "remove"
        PROVE  r = [m EXCEPT ![s] = [m[s] EXCEPT !.val = [m[s].val EXCEPT ![o.comp] = v], !.alive = TRUE]]
               /\ LET f == [m[s].val EXCEPT ![o.comp] = v] IN
                  /\ f \in [Comps -> Vals \cup {Unfixed}]
                  /\ \A c \in Comps : f[c] # None <=> Leaves(o, c, m[s].val[c] # None)
    <3> DEFINE f == [m[s].val EXCEPT ![o.comp] = v]
    <3>1. [m[s] EXCEPT !.val = f, !.alive = TRUE] = [m[s] EXCEPT !.val = f]
      BY <1>3, <2>1
    <3>2. f \in [Comps -> Vals \cup {Unfixed}] /\ \A c \in Comps : f[c] = IF c = o.comp THEN v ELSE m[s].val[c]
      BY <1>4, <2>3
    <3>3. \A c \in Comps : f[c] # None <=> Leaves(o, c, m[s].val[c] # None)
      BY <2>3, <3>2 DEF Leaves
    <3> QED
      BY <2>3, <3>1, <3>2, <3>3
  <2>4. CASE o.op \in {"add", "set", "remove"}
    <3>1. o.comp \in Comps /\ (o.comp \in Has(m, o.ent) <=> m[s].val[o.comp] # None)
      BY <1>1, <2>4 DEF Has
    <3>2. CASE o.op = "add" /\ o.comp \in Has(m, o.ent)
      <4>1. r = m
        BY <1>8, <3>2 DEF InOrder, Alive
      <4>2. \A c \in Comps : r[s].val[c] # None <=> Leaves(o, c, m[s].val[c] # None)
        BY <3>1, <3>2, <4>1 DEF Leaves
      <4> QED
        BY <1>8, <2>1, <3>2, <4>1, <4>2 DEF OpDone
    <3>3. CASE o.op # "add" \/ o.comp \notin Has(m, o.ent)
      <4> DEFINE v == CASE o.op = "add" -> Unfixed [] o.op = "set" -> o.arg [] o.op = "remove" -> None
      <4>1. r = [m EXCEPT ![s].val[o.comp] = v]
        BY <1>8, <2>4, <3>3 DEF InOrder, Alive
      <4>2. v \in Vals \cup {Unfixed} /\ (v # None <=> o.op # "remove")
        BY <1>1, <1>2, <2>4 DEF Vals
      <4> HIDE DEF v, r
      <4> DEFINE f == [m[s].val EXCEPT ![o.comp] = v]
      <4>3. /\ r = [m EXCEPT ![s] = [m[s] EXCEPT !.val = f, !.alive = TRUE]]
            /\ f \in [Comps -> Vals \cup {Unfixed}]
            /\ \A c \in Comps : f[c] # None <=> Leaves(o, c, m[s].val[c] # None)
        BY <2>3, <2>4, <3>1, <4>1, <4>2
      <4> HIDE DEF f
      <4> QED
        BY <1>8, <2>2, <2>4, <4>3 DEF OpDone
    <3> QED
      BY <3>2, <3>3
  <2>5. CASE o.op \in {"clear", "delete"}
    <3> DEFINE f == [c \in Comps |-> None]
               a == o.op = "clear"
    <3>1. f \in [Comps -> Vals \cup {Unfixed}] /\ \A c \in Comps : f[c] # None <=> Leaves(o, c, m[s].val[c] # None)
      BY <1>1, <1>2, <2>5 DEF Vals, Leaves
    <3>2. r = [m EXCEPT ![s] = [m[s] EXCEPT !.val = f, !.alive = a]]
      <4>1. CASE o.op = "clear"
        <5>1. r = [m EXCEPT ![s].val = f]
          BY <1>8, <4>1 DEF InOrder, Alive
        <5>2. [m[s] EXCEPT !.val = f, !.alive = a] = [m[s] EXCEPT !.val = f]
          BY <1>3, <2>1, <4>1
        <5> QED
          BY <5>1, <5>2
      <4>2. CASE o.op = "delete"
        <5>1. r = [m EXCEPT ![s].val = f, ![s].alive = FALSE]
          BY <1>8, <4>2 DEF InOrder, Alive
        <5>2. a = FALSE
          BY <4>2
        <5> HIDE DEF f, a, r
        <5>3. [m EXCEPT ![s].val = f, ![s].alive = FALSE] = [m EXCEPT ![s] = [m[s] EXCEPT !.val = f, !.alive = FALSE]]
          BY <1>3 DEF MeantType
        <5> QED
          BY <5>1, <5>2, <5>3
      <4> QED
        BY <2>5, <4>1, <4>2
    <3>3. a \in BOOLEAN /\ (a <=> o.op # "delete")
      BY <2>5
    <3> HIDE DEF f, a, r
    <3> QED
      BY <1>8, <2>2, <3>1, <3>2, <3>3 DEF OpDone
  <2> QED
    BY <1>2, <2>4, <2>5
<1> QED
  BY <1>7, <1>8

MeaningRun(ent, q, n, f) == f = [k \in 0..n |-> IF k = 0 THEN ent ELSE InOrder(f[k - 1], q[k].of)]

\* The recursive function in Meaning exists.
LEMMA MeaningRuns ==
  ASSUME NEW ent, NEW q, NEW n \in Nat
  PROVE  \E f : MeaningRun(ent, q, n, f)
<1> DEFINE P(m) == \E f : f[0] = ent /\ \A k \in 1..m : f[k] = InOrder(f[k - 1], q[k].of)
           S == {m \in 0..n : P(m)}
<1>1. 0 \in S
  <2> DEFINE h == [k \in {0} |-> ent]
  <2>1. h[0] = ent /\ \A k \in 1..0 : FALSE
    OBVIOUS
  <2> HIDE DEF h
  <2>2. P(0)
    BY <2>1
  <2> HIDE DEF P
  <2> QED
    BY <2>2
<1>2. ASSUME NEW m \in 1..n, m - 1 \in S PROVE m \in S
  <2>1. P(m - 1)
    BY <1>2
  <2>2. PICK f : f[0] = ent /\ \A k \in 1..m - 1 : f[k] = InOrder(f[k - 1], q[k].of)
    BY <2>1
  <2> DEFINE g == [k \in 0..n |-> IF k = m THEN InOrder(f[m - 1], q[m].of) ELSE f[k]]
  <2>3. g[0] = ent
    BY <2>2
  <2>4. ASSUME NEW k \in 1..m PROVE g[k] = InOrder(g[k - 1], q[k].of)
    <3>1. k - 1 \in 0..n /\ k \in 0..n /\ k - 1 # m
      OBVIOUS
    <3>2. g[k - 1] = f[k - 1]
      BY <3>1
    <3>3. CASE k = m
      BY <3>1, <3>2, <3>3
    <3>4. CASE k # m
      <4>1. g[k] = f[k] /\ k \in 1..m - 1
        BY <3>1, <3>4
      <4> QED
        BY <2>2, <3>2, <4>1
    <3> QED
      BY <3>3, <3>4
  <2>5. P(m)
    <3> HIDE DEF g
    <3> QED
      BY <2>3, <2>4
  <2> HIDE DEF P
  <2> QED
    BY <2>5
<1>3. n \in S
  <2>1. n \in 0..n
    OBVIOUS
  <2> HIDE DEF S
  <2> QED
    BY <1>1, <1>2, <2>1, UpTo
<1>4. PICK f : f[0] = ent /\ \A k \in 1..n : f[k] = InOrder(f[k - 1], q[k].of)
  BY <1>3
<1> DEFINE g == [k \in 0..n |-> f[k]]
<1>5. ASSUME NEW k \in 0..n PROVE g[k] = IF k = 0 THEN ent ELSE InOrder(g[k - 1], q[k].of)
  <2>1. k # 0 => k - 1 \in 0..n /\ k \in 1..n
    OBVIOUS
  <2> QED
    BY <1>4, <2>1
<1>6. g = [k \in 0..n |-> IF k = 0 THEN ent ELSE InOrder(g[k - 1], q[k].of)]
  BY <1>5
<1>7. MeaningRun(ent, q, n, g)
  BY <1>6 DEF MeaningRun
<1> QED
  BY <1>7

LEMMA MeaningUnfolds ==
  ASSUME NEW ent, NEW q \in Seq(Cmds)
  PROVE  \E f : /\ f[0] = ent /\ \A k \in 1..Len(q) : f[k] = InOrder(f[k - 1], q[k].of)
                /\ Meaning(ent, q) = f[Len(q)]
<1> DEFINE f == CHOOSE f : MeaningRun(ent, q, Len(q), f)
<1>1. Len(q) \in Nat
  BY LenProperties
<1>2. MeaningRun(ent, q, Len(q), f)
  BY <1>1, MeaningRuns
<1>3. Meaning(ent, q) = f[Len(q)]
  BY DEF Meaning, MeaningRun
<1> HIDE DEF f
<1> QED
  BY <1>1, <1>2, <1>3 DEF MeaningRun

\* cmd is one of the entity that slot sl has.
Of(ent, sl, cmd) == cmd.of.ent[1] = sl /\ cmd.of.ent[2] = ent[sl].gen

OpDels(ent, q, n, sl) == {k \in 1..n : Of(ent, sl, q[k]) /\ q[k].of.op = "delete"}
OpAdds(ent, q, n, sl, c) ==
  {k \in 1..n : Of(ent, sl, q[k]) /\ q[k].of.op \in {"add", "set"} /\ q[k].of.comp = c}
OpRemoves(ent, q, n, sl, c) ==
  {k \in 1..n : /\ Of(ent, sl, q[k])
                /\ q[k].of.op = "clear" \/ (q[k].of.op = "remove" /\ q[k].of.comp = c)}

\* What the first n commands leave in slot sl.
MeantAt(ent, q, n, m, sl) ==
  /\ m[sl].alive <=> ent[sl].alive /\ OpDels(ent, q, n, sl) = {}
  /\ m[sl].alive => \A c \in Comps :
       m[sl].val[c] # None <=>
         Remains(ent[sl].val[c] # None, OpAdds(ent, q, n, sl, c), OpRemoves(ent, q, n, sl, c))
  /\ ~ m[sl].alive => \A c \in Comps : m[sl].val[c] = None

Meant(ent, q, n, m) ==
  m \in MeantType /\ \A sl \in Slots : m[sl].gen = ent[sl].gen /\ MeantAt(ent, q, n, m, sl)

\* What is dead has no components.
Tidy(ent) == \A sl \in Slots : ~ ent[sl].alive => \A c \in Comps : ent[sl].val[c] = None

LEMMA MeantNone ==
  ASSUME NEW ent \in [Slots -> EntType], Tidy(ent), NEW q
  PROVE  Meant(ent, q, 0, ent)
<1>1. ent \in MeantType
  BY DEF EntType, MeantType
<1>2. ASSUME NEW sl \in Slots, NEW c
      PROVE  OpDels(ent, q, 0, sl) = {} /\ OpAdds(ent, q, 0, sl, c) = {} /\ OpRemoves(ent, q, 0, sl, c) = {}
  BY DEF OpDels, OpAdds, OpRemoves
<1>3. ASSUME NEW sl \in Slots PROVE MeantAt(ent, q, 0, ent, sl)
  BY <1>2 DEF MeantAt, Remains, Tidy
<1> QED
  BY <1>1, <1>3 DEF Meant

\* One command more that is of another entity.
LEMMA OtherOp ==
  ASSUME NEW ent, NEW q, NEW n \in Nat \ {0}, NEW sl, ~ Of(ent, sl, q[n])
  PROVE  /\ OpDels(ent, q, n, sl) = OpDels(ent, q, n - 1, sl)
         /\ \A c : /\ OpAdds(ent, q, n, sl, c) = OpAdds(ent, q, n - 1, sl, c)
                   /\ OpRemoves(ent, q, n, sl, c) = OpRemoves(ent, q, n - 1, sl, c)
<1>1. \A k : k \in 1..n <=> k \in 1..n - 1 \/ k = n
  OBVIOUS
<1> QED
  BY <1>1 DEF OpDels, OpAdds, OpRemoves

\* One command more that is of this entity.
LEMMA OwnOp ==
  ASSUME NEW ent, NEW q, NEW n \in Nat \ {0}, NEW sl, Of(ent, sl, q[n])
  PROVE  LET o == q[n].of IN
         /\ OpDels(ent, q, n, sl) = OpDels(ent, q, n - 1, sl) \cup (IF o.op = "delete" THEN {n} ELSE {})
         /\ \A c : /\ OpAdds(ent, q, n, sl, c) = OpAdds(ent, q, n - 1, sl, c)
                        \cup (IF o.op \in {"add", "set"} /\ o.comp = c THEN {n} ELSE {})
                   /\ OpRemoves(ent, q, n, sl, c) = OpRemoves(ent, q, n - 1, sl, c)
                        \cup (IF o.op = "clear" \/ (o.op = "remove" /\ o.comp = c) THEN {n} ELSE {})
<1>1. \A k : k \in 1..n <=> k \in 1..n - 1 \/ k = n
  OBVIOUS
<1> QED
  BY <1>1 DEF OpDels, OpAdds, OpRemoves

\* One command is executed.
LEMMA MeantStep ==
  ASSUME NEW ent \in [Slots -> EntType], NEW q, NEW n \in Nat \ {0}, NEW m, Meant(ent, q, n - 1, m),
         q[n].of \in AllOps, NEW r, OpDone(m, q[n].of, r)
  PROVE  Meant(ent, q, n, r)
<1> DEFINE o == q[n].of
<1>1. r \in MeantType /\ \A sl \in Slots : r[sl].gen = ent[sl].gen /\ m[sl].gen = ent[sl].gen
  BY DEF Meant, OpDone
<1>2. ASSUME NEW sl \in Slots, ~ Of(ent, sl, q[n]) PROVE MeantAt(ent, q, n, r, sl)
  <2>1. r[sl] = m[sl]
    BY <1>1, <1>2 DEF OpDone, Of, Alive
  <2>2. MeantAt(ent, q, n - 1, m, sl)
    BY DEF Meant
  <2> QED
    BY <1>2, <2>1, <2>2, OtherOp DEF MeantAt
<1>3. ASSUME NEW sl \in Slots, Of(ent, sl, q[n]) PROVE MeantAt(ent, q, n, r, sl)
  <2>1. MeantAt(ent, q, n - 1, m, sl) /\ o.ent[1] = sl /\ (Alive(m, o.ent) <=> m[sl].alive)
    BY <1>1, <1>3 DEF Meant, Of, Alive
  <2>2. CASE ~ m[sl].alive
    <3>1. r[sl] = m[sl]
      BY <2>1, <2>2 DEF OpDone
    <3> QED
      BY <1>3, <2>1, <2>2, <3>1, OwnOp DEF MeantAt
  <2>3. CASE m[sl].alive
    <3>1. /\ r[sl].alive <=> o.op # "delete"
          /\ \A c \in Comps : r[sl].val[c] # None <=> Leaves(o, c, m[sl].val[c] # None)
      BY <2>1, <2>3 DEF OpDone
    <3>2. ent[sl].alive /\ OpDels(ent, q, n - 1, sl) = {}
      BY <2>1, <2>3 DEF MeantAt
    <3>3. r[sl].alive <=> ent[sl].alive /\ OpDels(ent, q, n, sl) = {}
      BY <1>3, <3>1, <3>2, OwnOp
    <3>4. ASSUME o.op = "delete", NEW c \in Comps PROVE r[sl].val[c] = None
      BY <3>1, <3>4 DEF Leaves
    <3>5. ASSUME o.op # "delete", NEW c \in Comps
          PROVE  r[sl].val[c] # None <=>
                   Remains(ent[sl].val[c] # None, OpAdds(ent, q, n, sl, c), OpRemoves(ent, q, n, sl, c))
      <4> DEFINE A == OpAdds(ent, q, n - 1, sl, c)
                 R == OpRemoves(ent, q, n - 1, sl, c)
                 b == ent[sl].val[c] # None
      <4>1. m[sl].val[c] # None <=> Remains(b, A, R)
        BY <2>1, <2>3 DEF MeantAt
      <4>2. A \in SUBSET Nat /\ R \in SUBSET Nat /\ \A x \in A \cup R : x < n
        BY DEF OpAdds, OpRemoves
      <4>3. b \in BOOLEAN
        OBVIOUS
      <4>4. /\ OpAdds(ent, q, n, sl, c) = A \cup (IF o.op \in {"add", "set"} /\ o.comp = c THEN {n} ELSE {})
            /\ OpRemoves(ent, q, n, sl, c)
                 = R \cup (IF o.op = "clear" \/ (o.op = "remove" /\ o.comp = c) THEN {n} ELSE {})
        BY <1>3, OwnOp
      <4> HIDE DEF A, R, b
      <4>5. Remains(b, A \cup {n}, R) /\ ~ Remains(b, A, R \cup {n})
        <5>1. n \in Nat
          OBVIOUS
        <5> QED
          BY ONLY <4>2, <4>3, <5>1, RemainsMore
      <4>6. CASE o.op \in {"add", "set"} /\ o.comp = c
        <5>1. OpAdds(ent, q, n, sl, c) = A \cup {n} /\ OpRemoves(ent, q, n, sl, c) = R
          BY <4>4, <4>6
        <5> QED
          BY <3>1, <4>5, <4>6, <5>1 DEF Leaves, b
      <4>7. CASE o.op = "clear" \/ (o.op = "remove" /\ o.comp = c)
        <5>1. OpAdds(ent, q, n, sl, c) = A /\ OpRemoves(ent, q, n, sl, c) = R \cup {n}
          BY <4>4, <4>7
        <5> QED
          BY <3>1, <4>5, <4>7, <5>1 DEF Leaves, b
      <4>8. CASE ~ (o.op \in {"add", "set"} /\ o.comp = c) /\ ~ (o.op = "clear" \/ (o.op = "remove" /\ o.comp = c))
        <5>1. OpAdds(ent, q, n, sl, c) = A /\ OpRemoves(ent, q, n, sl, c) = R
          BY <4>4, <4>8
        <5> QED
          BY <3>1, <3>5, <4>1, <4>8, <5>1 DEF Leaves, b
      <4> QED
        BY <4>6, <4>7, <4>8
    <3> QED
      BY <3>1, <3>3, <3>4, <3>5 DEF MeantAt
  <2> QED
    BY <2>2, <2>3
<1> QED
  BY <1>1, <1>2, <1>3 DEF Meant

LEMMA MeaningIs ==
  ASSUME NEW ent \in [Slots -> EntType], Tidy(ent), NEW q \in Seq(Cmds),
         \A k \in DOMAIN q : q[k].of \in AllOps
  PROVE  Meant(ent, q, Len(q), Meaning(ent, q))
<1> DEFINE N == Len(q)
<1>1. N \in Nat /\ DOMAIN q = 1..N
  BY LenProperties
<1>2. PICK f : /\ f[0] = ent /\ \A k \in 1..N : f[k] = InOrder(f[k - 1], q[k].of)
               /\ Meaning(ent, q) = f[N]
  BY MeaningUnfolds
<1> HIDE DEF N
<1> DEFINE P(n) == Meant(ent, q, n, f[n])
           S == {n \in 0..N : P(n)}
<1>3. 0 \in S
  BY <1>1, <1>2, MeantNone
<1>4. ASSUME NEW n \in 1..N, n - 1 \in S PROVE n \in S
  <2>1. Meant(ent, q, n - 1, f[n - 1]) /\ f[n] = InOrder(f[n - 1], q[n].of) /\ q[n].of \in AllOps
    BY <1>1, <1>2, <1>4
  <2>2. OpDone(f[n - 1], q[n].of, f[n])
    BY <2>1, InOrderIs DEF Meant
  <2>3. n \in Nat \ {0} /\ n \in 0..N
    BY <1>1
  <2>4. P(n)
    BY <2>1, <2>2, <2>3, MeantStep
  <2> HIDE DEF P
  <2> QED
    BY <2>3, <2>4
<1>5. N \in S
  <2>1. N \in 0..N
    BY <1>1
  <2> HIDE DEF S
  <2> QED
    BY <1>1, <1>3, <1>4, <2>1, UpTo
<1> QED
  BY <1>2, <1>5 DEF N

-----------------------------------------------------------------------------
(* What a flush still owes.                                                *)

\* No component is emplaced: a batch passes over an Emplace and executes it
\* after the commands that follow it in the chain.
NoPlain == \A c \in Comps : Kind[c] # "plain"

\* A command as it was recorded.
Raw(cmd) ==
  /\ cmd.of \in AllOps
  /\ cmd.kind \in {"Add", "AddModified", "Set", "Ensure"} <=> cmd.of.op \in {"add", "set"}
  /\ cmd.kind = "Remove" <=> cmd.of.op = "remove"
  /\ cmd.kind = "Clear" <=> cmd.of.op = "clear"
  /\ cmd.kind = "Delete" <=> cmd.of.op = "delete"

\* The commands that the flush f of q has not passed and that are of the entity of slot sl.
Live(ent, q, f, sl) == {k \in DOMAIN q : k >= f.pos /\ Of(ent, sl, q[k])}

\* The batch at which f is has already added the component of command k.
Used(q, f, k) == f.step = "moves" /\ q[k].of.ent = q[f.pos].of.ent /\ q[k].kind \in {"Set", "Ensure"}

Deletes(ent, q, f, sl) == {k \in Live(ent, q, f, sl) : q[k].kind = "Delete"}
Gets(ent, q, f, sl, c) == {k \in Live(ent, q, f, sl) : Adds(q, k, c) /\ ~ Used(q, f, k)}
Loses(ent, q, f, sl, c) == {k \in Live(ent, q, f, sl) : Removes(q, k, c)}

\* The commands ahead of f turn slot sl of ent into that of x.
OwesAt(x, ent, q, f, sl) ==
  /\ x[sl].alive \in BOOLEAN
  /\ x[sl].alive <=> ent[sl].alive /\ Deletes(ent, q, f, sl) = {}
  /\ x[sl].alive => \A c \in Comps :
       x[sl].val[c] # None <=>
         Remains(ent[sl].val[c] # None, Gets(ent, q, f, sl, c), Loses(ent, q, f, sl, c))
  /\ ~ x[sl].alive => \A c \in Comps : x[sl].val[c] = None

Owes(x, ent, q, f) == \A sl \in Slots : OwesAt(x, ent, q, f, sl)

\* The component of a command that is about to be given its value is there.
WritesThere(ent, q, f) ==
  f.step = "write" => /\ q[f.pos].kind \in {"Set", "Ensure"} /\ Alive(ent, q[f.pos].of.ent)
                      /\ q[f.pos].of.comp \in Has(ent, q[f.pos].of.ent)

Unplain(q) == \A k \in DOMAIN q : q[k].kind # "Emplace" /\ q[k].of.op # "none"

FlushOK(w, st, fl, x) ==
  fl # <<>> => /\ Len(fl) = 1
               /\ Owes(x, w.ent, BufOf(st, fl[1]).queue, fl[1])
               /\ Unplain(BufOf(st, fl[1]).queue)
               /\ WritesThere(w.ent, BufOf(st, fl[1]).queue, fl[1])

RawOK(st, fl) ==
  \A s \in Stages, b \in 0..1 : ~ Flushed(fl, s, b) =>
    \A k \in DOMAIN st[s].buf[b].queue : Raw(st[s].buf[b].queue[k])

\* As long as no observer has recorded anything.
OrderInv ==
  hooks = HookBudget =>
    /\ Tidy(world.ent) /\ RawOK(stage, flush) /\ FlushOK(world, stage, flush, want)

LEMMA OwesSame ==
  ASSUME NEW x, NEW ent, NEW q, NEW f, NEW sl, OwesAt(x, ent, q, f, sl), NEW ent2, NEW q2, NEW f2,
         ent2[sl].alive <=> ent[sl].alive,
         \A c \in Comps : ent2[sl].val[c] # None <=> ent[sl].val[c] # None,
         Deletes(ent2, q2, f2, sl) = Deletes(ent, q, f, sl),
         \A c \in Comps : /\ Gets(ent2, q2, f2, sl, c) = Gets(ent, q, f, sl, c)
                          /\ Loses(ent2, q2, f2, sl, c) = Loses(ent, q, f, sl, c)
  PROVE  OwesAt(x, ent2, q2, f2, sl)
<1>1. ASSUME NEW c \in Comps
      PROVE  Remains(ent2[sl].val[c] # None, Gets(ent2, q2, f2, sl, c), Loses(ent2, q2, f2, sl, c))
               <=> Remains(ent[sl].val[c] # None, Gets(ent, q, f, sl, c), Loses(ent, q, f, sl, c))
  BY DEF Remains
<1> QED
  BY <1>1 DEF OwesAt

\* A step with a command of e concerns no other slot.
LEMMA OwesOther ==
  ASSUME NEW x, NEW ent, NEW q, NEW f, NEW sl, OwesAt(x, ent, q, f, sl), NEW ent2, NEW q2, NEW f2,
         NEW e, e[1] # sl, DOMAIN q \subseteq Nat, DOMAIN q2 = DOMAIN q, f.pos \in DOMAIN q, q[f.pos].of.ent = e,
         f2.pos = f.pos \/ (f2.pos = f.pos + 1 /\ f2.step # "moves"),
         \A k \in DOMAIN q : q2[k].of = q[k].of /\ (q[k].of.ent # e => q2[k].kind = q[k].kind),
         ent2[sl] = ent[sl]
  PROVE  OwesAt(x, ent2, q2, f2, sl)
<1>1. ASSUME NEW k \in DOMAIN q, Of(ent, sl, q[k]) \/ Of(ent2, sl, q2[k])
      PROVE  /\ Of(ent, sl, q[k]) /\ Of(ent2, sl, q2[k]) /\ q[k].of.ent # e /\ q2[k].kind = q[k].kind
             /\ k # f.pos
  BY <1>1 DEF Of
<1>2. \A k \in DOMAIN q : k # f.pos => (k >= f.pos <=> k >= f2.pos)
  OBVIOUS
<1>3. Live(ent2, q2, f2, sl) = Live(ent, q, f, sl)
  BY <1>1, <1>2 DEF Live
<1>4. ASSUME NEW k \in Live(ent, q, f, sl)
      PROVE  /\ q2[k].kind = q[k].kind /\ q2[k].of = q[k].of /\ ~ Used(q, f, k) /\ ~ Used(q2, f2, k)
  BY <1>1 DEF Live, Used
<1>5. Deletes(ent2, q2, f2, sl) = Deletes(ent, q, f, sl)
  BY <1>3, <1>4 DEF Deletes
<1>6. ASSUME NEW c \in Comps
      PROVE  /\ Gets(ent2, q2, f2, sl, c) = Gets(ent, q, f, sl, c)
             /\ Loses(ent2, q2, f2, sl, c) = Loses(ent, q, f, sl, c)
  BY <1>3, <1>4 DEF Gets, Loses, Adds, Removes
<1> QED
  BY <1>5, <1>6, OwesSame

\* A command is passed that says nothing of the entity of slot sl.
LEMMA OwesPast ==
  ASSUME NEW x, NEW ent, NEW q, NEW f, NEW sl, OwesAt(x, ent, q, f, sl), NEW f2,
         DOMAIN q \subseteq Nat, f.pos \in DOMAIN q, f2.pos = f.pos + 1, f.step # "moves", f2.step # "moves",
         q[f.pos].kind = "Skip" \/ ~ Of(ent, sl, q[f.pos])
  PROVE  OwesAt(x, ent, q, f2, sl)
<1>1. Live(ent, q, f2, sl) = Live(ent, q, f, sl) \ {f.pos}
  BY DEF Live
<1>2. f.pos \in Live(ent, q, f, sl) => q[f.pos].kind = "Skip"
  BY DEF Live
<1>3. Deletes(ent, q, f2, sl) = Deletes(ent, q, f, sl)
  BY <1>1, <1>2 DEF Deletes
<1>4. ASSUME NEW c \in Comps
      PROVE  /\ Gets(ent, q, f2, sl, c) = Gets(ent, q, f, sl, c)
             /\ Loses(ent, q, f2, sl, c) = Loses(ent, q, f, sl, c)
  BY <1>1, <1>2 DEF Gets, Loses, Adds, Removes, Used
<1> QED
  BY <1>3, <1>4, OwesSame

LEMMA OwesDead ==
  ASSUME NEW x, NEW ent, NEW q, NEW f, NEW sl, OwesAt(x, ent, q, f, sl),
         ~ ent[sl].alive \/ Deletes(ent, q, f, sl) # {}, NEW ent2, ~ ent2[sl].alive, NEW q2, NEW f2
  PROVE  OwesAt(x, ent2, q2, f2, sl)
BY DEF OwesAt

\* A command of the entity is executed.
LEMMA OwesOwn ==
  ASSUME NEW x, NEW ent, NEW q, NEW f, NEW sl, OwesAt(x, ent, q, f, sl), NEW f2, NEW ent2,
         DOMAIN q \subseteq Nat, f.pos \in DOMAIN q, f2.pos = f.pos + 1, f.step # "moves", f2.step # "moves",
         Of(ent, sl, q[f.pos]), q[f.pos].kind # "Delete",
         ent2[sl].alive <=> ent[sl].alive, ent2[sl].gen = ent[sl].gen,
         \A c \in Comps : ent2[sl].val[c] # None <=>
           Adds(q, f.pos, c) \/ (ent[sl].val[c] # None /\ ~ Removes(q, f.pos, c))
  PROVE  OwesAt(x, ent2, q, f2, sl)
<1>1. Live(ent2, q, f2, sl) = Live(ent, q, f, sl) \ {f.pos} /\ f.pos \in Live(ent, q, f, sl)
  BY DEF Live, Of
<1>2. Deletes(ent2, q, f2, sl) = Deletes(ent, q, f, sl)
  BY <1>1 DEF Deletes
<1>3. ASSUME NEW c \in Comps
      PROVE  Remains(ent2[sl].val[c] # None, Gets(ent2, q, f2, sl, c), Loses(ent2, q, f2, sl, c))
               <=> Remains(ent[sl].val[c] # None, Gets(ent, q, f, sl, c), Loses(ent, q, f, sl, c))
  <2> DEFINE A == Gets(ent, q, f, sl, c)
             R == Loses(ent, q, f, sl, c)
             b == ent[sl].val[c] # None
             d == ent2[sl].val[c] # None
             p == f.pos
  <2>1. Gets(ent2, q, f2, sl, c) = A \ {p} /\ Loses(ent2, q, f2, sl, c) = R \ {p}
    BY <1>1 DEF Gets, Loses, Used
  <2>2. (p \in A <=> Adds(q, p, c)) /\ (p \in R <=> Removes(q, p, c))
    BY <1>1 DEF Gets, Loses, Used
  <2>3. A \in SUBSET Nat /\ R \in SUBSET Nat /\ p \in Nat /\ \A y \in A \cup R : y >= p
    BY DEF Gets, Loses, Live
  <2>4. ~ (Adds(q, p, c) /\ Removes(q, p, c))
    BY DEF Adds, Removes
  <2>5. b \in BOOLEAN /\ d \in BOOLEAN /\ (d <=> Adds(q, p, c) \/ (b /\ ~ Removes(q, p, c)))
    OBVIOUS
  <2> HIDE DEF A, R, b, d, p
  <2>6. Remains(d, A \ {p}, R \ {p}) <=> Remains(b, A, R)
    BY <2>2, <2>3, <2>4, <2>5, RemainsPass
  <2> QED
    BY <2>1, <2>6 DEF A, R, b, d, p
<1> QED
  BY <1>2, <1>3 DEF OwesAt

\* The component of the command is added, the command still ahead.
LEMMA OwesEnsured ==
  ASSUME NEW x, NEW ent, NEW q, NEW f, NEW sl, OwesAt(x, ent, q, f, sl), NEW f2, NEW ent2,
         DOMAIN q \subseteq Nat, f.pos \in DOMAIN q, f2.pos = f.pos, f.step # "moves", f2.step # "moves",
         Of(ent, sl, q[f.pos]), q[f.pos].kind \in {"Set", "Ensure"},
         ent2[sl].alive <=> ent[sl].alive, ent2[sl].gen = ent[sl].gen,
         \A c \in Comps : ent2[sl].val[c] # None <=> ent[sl].val[c] # None \/ c = q[f.pos].of.comp
  PROVE  OwesAt(x, ent2, q, f2, sl)
<1>1. Live(ent2, q, f2, sl) = Live(ent, q, f, sl) /\ f.pos \in Live(ent, q, f, sl)
  BY DEF Live, Of
<1>2. Deletes(ent2, q, f2, sl) = Deletes(ent, q, f, sl)
  BY <1>1 DEF Deletes
<1>3. ASSUME NEW c \in Comps
      PROVE  Remains(ent2[sl].val[c] # None, Gets(ent2, q, f2, sl, c), Loses(ent2, q, f2, sl, c))
               <=> Remains(ent[sl].val[c] # None, Gets(ent, q, f, sl, c), Loses(ent, q, f, sl, c))
  <2>1. Gets(ent2, q, f2, sl, c) = Gets(ent, q, f, sl, c) /\ Loses(ent2, q, f2, sl, c) = Loses(ent, q, f, sl, c)
    BY <1>1 DEF Gets, Loses, Used
  <2>2. c = q[f.pos].of.comp => f.pos \in Gets(ent, q, f, sl, c)
    BY <1>1 DEF Gets, Used, Adds
  <2> QED
    BY <2>1, <2>2 DEF Remains
<1> QED
  BY <1>2, <1>3 DEF OwesAt

\* A queue that is being flushed.
Running(q, f) ==
  q \in Seq(Cmds) /\ Ordered(q) /\ Unplain(q) /\ f.pos \in DOMAIN q

\* What is ahead of an entity's command is the rest of its chain.
LEMMA RestIs ==
  ASSUME NEW ent, NEW q, NEW f, Running(q, f), NEW sl, Of(ent, sl, q[f.pos])
  PROVE  /\ Rest(q, f.pos) = Live(ent, q, f, sl) /\ Rest(q, f.pos) \subseteq Nat
         /\ ChainOf(q, f.pos, Chain(q, f.pos))
<1> DEFINE p == f.pos
<1>1. Links(q) = DOMAIN q /\ p \in Links(q) /\ \A k \in DOMAIN q : q[k] \in Cmds /\ k \in Nat
  <2>1. q \in Seq(Cmds) /\ Unplain(q) /\ p \in DOMAIN q
    BY DEF Running
  <2>2. \A k \in DOMAIN q : q[k] \in Cmds /\ k \in Nat
    BY <2>1, LenProperties, ElementOfSeq
  <2> QED
    BY <2>1, <2>2 DEF Links, Unplain
<1>2. ASSUME NEW k \in DOMAIN q PROVE q[k].of.ent = q[p].of.ent <=> Of(ent, sl, q[k])
  <2>1. q[k].of.ent \in Entities /\ q[p].of.ent \in Entities
    BY <1>1, CmdIs DEF Links
  <2>2. q[p].of.ent[1] = sl /\ q[p].of.ent[2] = ent[sl].gen
    BY DEF Of
  <2> QED
    BY <2>1, <2>2, SameEntity DEF Of
<1>3. Rest(q, p) = Live(ent, q, f, sl)
  BY <1>1, <1>2 DEF Rest, Live
<1>4. ChainOf(q, p, Chain(q, p))
  BY <1>1, ChainIs DEF Running
<1> QED
  BY <1>1, <1>3, <1>4 DEF Rest

\* The whole rest of the chain, unless a Delete is ahead.
LEMMA ChainAll ==
  ASSUME NEW ent, NEW q, NEW f, Running(q, f), NEW sl, Of(ent, sl, q[f.pos]),
         Deletes(ent, q, f, sl) = {}
  PROVE  /\ \A x \in Live(ent, q, f, sl) : x \in ToSet(Chain(q, f.pos))
         /\ \A x \in Rest(q, f.pos) : q[x].kind # "Delete"
<1> DEFINE ch == Chain(q, f.pos)
<1>1. Rest(q, f.pos) = Live(ent, q, f, sl) /\ ChainOf(q, f.pos, ch)
  BY RestIs
<1>2. \A x \in Rest(q, f.pos) : q[x].kind # "Delete"
  BY <1>1 DEF Deletes
<1> HIDE DEF ch
<1>3. \A x \in Rest(q, f.pos) : \E a \in DOMAIN ch : ch[a] = x
  BY <1>1, <1>2 DEF ChainOf
<1>4. ch \in Seq(Nat)
  BY <1>1 DEF ChainOf
<1>5. \A x \in Rest(q, f.pos) : x \in ToSet(ch)
  BY <1>3, <1>4 DEF ToSet
<1> QED
  BY <1>1, <1>2, <1>5 DEF ch

\* The kinds that the first pass leaves.
LEMMA FirstKinds ==
  ASSUME NEW q \in Seq(Cmds), NEW ch, NEW k \in DOMAIN q
  PROVE  LET c == AfterFirst(q, ch)[k] IN
         /\ c.of = q[k].of /\ (c.kind = "Delete" <=> q[k].kind = "Delete") /\ (c.kind = "Emplace" => q[k].kind = "Emplace")
         /\ q[k].kind \in {"Set", "Ensure"} <=> c.kind \in {"Set", "Ensure"}
         /\ c.kind = q[k].kind \/ c.kind \in {"Modified", "Skip"}
         /\ k \in ToSet(ch) => c.kind \notin {"Add", "AddModified", "Remove", "Clear"}
<1>1. q[k] \in Cmds
  BY ElementOfSeq, LenProperties
<1>2. CASE k \in ToSet(ch)
  <2>1. AfterFirst(q, ch)[k] = [q[k] EXCEPT !.kind = FirstPass(q[k].kind)]
    BY <1>2 DEF AfterFirst
  <2>2. LET c == [q[k] EXCEPT !.kind = FirstPass(q[k].kind)] IN c.of = q[k].of /\ c.kind = FirstPass(q[k].kind)
    BY <1>1, CmdIs
  <2> QED
    BY <2>1, <2>2 DEF FirstPass
<1>3. CASE k \notin ToSet(ch)
  <2>1. AfterFirst(q, ch)[k] = q[k]
    BY <1>3 DEF AfterFirst
  <2> QED
    BY <1>3, <2>1
<1> QED
  BY <1>2, <1>3

\* The entity is moved to the table its chain leads to.
LEMMA BatchOwes ==
  ASSUME NEW x, NEW ent, NEW q, NEW f, Running(q, f), f.step = "batch", NEW sl, Of(ent, sl, q[f.pos]),
         OwesAt(x, ent, q, f, sl), NEW g, g.pos = f.pos, g.step = "moves",
         NEW ent2, ent2[sl].alive <=> ent[sl].alive, ent2[sl].gen = ent[sl].gen, NEW had,
         \A c \in Comps : c \in had <=> ent[sl].val[c] # None,
         \A c \in Comps : ent2[sl].val[c] # None <=> c \in Plan(q, Chain(q, f.pos), had).table
  PROVE  OwesAt(x, ent2, AfterFirst(q, Chain(q, f.pos)), g, sl)
<1> DEFINE ch == Chain(q, f.pos)
           q2 == AfterFirst(q, ch)
<1>1. q \in Seq(Cmds) /\ f.pos \in DOMAIN q /\ DOMAIN q2 = DOMAIN q
  BY DEF Running, AfterFirst
<1>2. \A k \in DOMAIN q : /\ q2[k].of = q[k].of /\ (q2[k].kind = "Delete" <=> q[k].kind = "Delete")
                          /\ k \in ToSet(ch) => q2[k].kind \notin {"Add", "AddModified", "Remove", "Clear"}
  BY <1>1, FirstKinds
<1> HIDE DEF q2
<1>3. Live(ent2, q2, g, sl) = Live(ent, q, f, sl)
  BY <1>1, <1>2 DEF Live, Of
<1>4. Deletes(ent2, q2, g, sl) = Deletes(ent, q, f, sl)
  BY <1>2, <1>3 DEF Deletes, Live
<1>5. CASE ~ (ent[sl].alive /\ Deletes(ent, q, f, sl) = {})
  BY <1>4, <1>5 DEF OwesAt, q2
<1>6. CASE ent[sl].alive /\ Deletes(ent, q, f, sl) = {}
  <2>1. /\ \A y \in Live(ent, q, f, sl) : y \in ToSet(ch)
        /\ \A y \in Rest(q, f.pos) : q[y].kind # "Delete"
    BY <1>6, ChainAll
  <2>2. Rest(q, f.pos) = Live(ent, q, f, sl) /\ Rest(q, f.pos) \subseteq Nat /\ ChainOf(q, f.pos, ch)
    BY RestIs
  <2> HIDE DEF ch
  <2>3. ASSUME NEW c \in Comps
        PROVE  Gets(ent2, q2, g, sl, c) = {} /\ Loses(ent2, q2, g, sl, c) = {}
    <3>1. ASSUME NEW k \in Live(ent, q, f, sl)
          PROVE  /\ q2[k].kind \notin {"Add", "AddModified", "Remove", "Clear"}
                 /\ q2[k].kind \in {"Set", "Ensure"} => Used(q2, g, k)
      <4>1. k \in DOMAIN q /\ q[k].of.ent = q[f.pos].of.ent
        BY <2>2 DEF Live, Rest
      <4> QED
        BY <1>1, <1>2, <2>1, <4>1 DEF Used
    <3> QED
      BY <1>3, <3>1 DEF Gets, Loses, Adds, Removes
  <2>4. ASSUME NEW c \in Comps
        PROVE  ent2[sl].val[c] # None <=>
                 Remains(ent[sl].val[c] # None, Gets(ent, q, f, sl, c), Loses(ent, q, f, sl, c))
    <3>1. c \in Plan(q, ch, had).table <=>
            Remains(c \in had, {y \in Rest(q, f.pos) : Adds(q, y, c)}, {y \in Rest(q, f.pos) : Removes(q, y, c)})
      BY <2>1, <2>2, PlanTable
    <3>2. /\ Gets(ent, q, f, sl, c) = {y \in Rest(q, f.pos) : Adds(q, y, c)}
          /\ Loses(ent, q, f, sl, c) = {y \in Rest(q, f.pos) : Removes(q, y, c)}
      BY <2>2 DEF Gets, Loses, Used
    <3>3. (c \in had) = (ent[sl].val[c] # None)
      OBVIOUS
    <3> QED
      BY <3>1, <3>2, <3>3 DEF ch
  <2>5. x[sl].alive /\ \A c \in Comps : x[sl].val[c] # None <=> ent2[sl].val[c] # None
    BY <1>6, <2>4 DEF OwesAt
  <2> QED
    BY <1>4, <1>6, <2>3, <2>5 DEF OwesAt, Remains, q2, ch
<1> QED
  BY <1>5, <1>6

\* The kinds that the second pass leaves.
LEMMA SecondKinds ==
  ASSUME NEW w, NEW e, NEW q \in Seq(Cmds), NEW ch, NEW k \in DOMAIN q, k \in ToSet(ch),
         q[k].kind \in {"Set", "Ensure"}
  PROVE  SecondPass(w, e, q, ch).q[k].kind \in {"Modified", "Skip"}
<1> DEFINE sets == {i \in DOMAIN q : i \in ToSet(ch) /\ q[i].kind \in {"Set", "Ensure"}}
           moved == {i \in sets : q[i].of.comp \in Has(w.ent, e)}
<1>1. q[k] \in Cmds
  BY ElementOfSeq, LenProperties
<1>2. \A kind, v : /\ [q[k] EXCEPT !.kind = kind, !.val = v].kind = kind
                   /\ [q[k] EXCEPT !.kind = kind].kind = kind
  BY <1>1, CmdIs
<1>3. k \in sets
  OBVIOUS
<1>4. SecondPass(w, e, q, ch).q[k] =
        IF k \in moved THEN [q[k] EXCEPT !.kind = IF q[k].kind = "Set" THEN "Modified" ELSE "Skip", !.val = None]
        ELSE IF k \in sets THEN [q[k] EXCEPT !.kind = "Skip"]
        ELSE q[k]
  BY DEF SecondPass
<1> HIDE DEF moved, sets
<1> QED
  BY <1>2, <1>3, <1>4

\* The values of the chain are moved.
LEMMA MovesOwes ==
  ASSUME NEW x, NEW ent, NEW q, NEW f, Running(q, f), f.step = "moves", NEW sl, Of(ent, sl, q[f.pos]),
         OwesAt(x, ent, q, f, sl), NEW g, g.pos = f.pos, g.step = "exec",
         NEW ent2, ent2[sl].alive <=> ent[sl].alive, ent2[sl].gen = ent[sl].gen,
         \A c \in Comps : ent2[sl].val[c] # None <=> ent[sl].val[c] # None,
         NEW q2, DOMAIN q2 = DOMAIN q,
         \A k \in DOMAIN q : /\ q2[k].of = q[k].of /\ (q[k].kind \notin {"Set", "Ensure"} => q2[k].kind = q[k].kind)
                             /\ q2[k].kind = q[k].kind \/ q2[k].kind \in {"Modified", "Skip"}
                             /\ k \in ToSet(Chain(q, f.pos)) /\ q[k].kind \in {"Set", "Ensure"}
                                  => q2[k].kind \in {"Modified", "Skip"}
  PROVE  OwesAt(x, ent2, q2, g, sl)
<1>1. q \in Seq(Cmds) /\ f.pos \in DOMAIN q
  BY DEF Running
<1>2. Live(ent2, q2, g, sl) = Live(ent, q, f, sl)
  BY <1>1 DEF Live, Of
<1>3. Deletes(ent2, q2, g, sl) = Deletes(ent, q, f, sl)
  BY <1>2 DEF Deletes, Live
<1>4. CASE Deletes(ent, q, f, sl) # {}
  BY <1>3, <1>4 DEF OwesAt
<1>5. CASE Deletes(ent, q, f, sl) = {}
  <2>1. \A y \in Live(ent, q, f, sl) : y \in ToSet(Chain(q, f.pos))
    BY <1>5, ChainAll
  <2>2. Rest(q, f.pos) = Live(ent, q, f, sl)
    BY RestIs
  <2>3. ASSUME NEW k \in Live(ent, q, f, sl)
        PROVE  /\ q2[k].of = q[k].of
               /\ q[k].kind \notin {"Set", "Ensure"} => q2[k].kind = q[k].kind
               /\ q2[k].kind \notin {"Set", "Ensure"}
               /\ q[k].kind \in {"Set", "Ensure"} => q2[k].kind \in {"Modified", "Skip"} /\ Used(q, f, k)
    <3>1. k \in DOMAIN q /\ q[k].of.ent = q[f.pos].of.ent /\ k \in ToSet(Chain(q, f.pos))
      BY <2>1, <2>2 DEF Live, Rest
    <3> QED
      BY <3>1 DEF Used
  <2>4. ASSUME NEW c \in Comps
        PROVE  /\ Gets(ent2, q2, g, sl, c) = Gets(ent, q, f, sl, c)
               /\ Loses(ent2, q2, g, sl, c) = Loses(ent, q, f, sl, c)
    <3>1. ASSUME NEW k \in Live(ent, q, f, sl)
          PROVE  /\ Adds(q2, k, c) /\ ~ Used(q2, g, k) <=> Adds(q, k, c) /\ ~ Used(q, f, k)
                 /\ Removes(q2, k, c) <=> Removes(q, k, c)
      <4>1. CASE q[k].kind \in {"Set", "Ensure"}
        BY <2>3, <4>1 DEF Adds, Removes
      <4>2. CASE q[k].kind \notin {"Set", "Ensure"}
        BY <2>3, <4>2 DEF Adds, Removes, Used
      <4> QED
        BY <4>1, <4>2
    <3> QED
      BY <1>2, <3>1 DEF Gets, Loses
  <2> QED
    BY <1>3, <2>4, OwesSame
<1> QED
  BY <1>4, <1>5

-----------------------------------------------------------------------------
(* A flush to which no observer adds anything.                             *)

\* The only flush there is.
LEMMA FlushIs ==
  ASSUME QueueInv, OrderInv, hooks = HookBudget, flush # <<>>
  PROVE  /\ Len(flush) = 1 /\ Top = flush[1] /\ Owes(want, world.ent, Buf.queue, Top)
         /\ Unplain(Buf.queue) /\ WritesThere(world.ent, Buf.queue, Top)
         /\ Buf.queue \in Seq(Cmds) /\ Ordered(Buf.queue)
         /\ DOMAIN Buf.queue \subseteq Nat /\ Tidy(world.ent) /\ world \in WorldType
         /\ Top.pos <= Len(Buf.queue) => Running(Buf.queue, Top)
<1>1. Sound(world, stage, flush) /\ world \in WorldType
  BY DEF QueueInv, Sound, SoundBut, Typed
<1>2. FlushOK(world, stage, flush, want) /\ Tidy(world.ent)
  BY DEF OrderInv
<1>3. Len(flush) = 1
  BY <1>2 DEF FlushOK
<1>4. Top = flush[1] /\ Top.stage \in Stages /\ Top.buf \in 0..1
  BY <1>1, <1>3, OneFrame
<1>5. Buf = BufOf(stage, flush[1]) /\ Buf \in BufType /\ Buf = stage[Top.stage].buf[Top.buf]
  BY <1>1, <1>4, TopIs
<1>6. Buf.queue \in Seq(Cmds) /\ DOMAIN Buf.queue \subseteq Nat
  BY <1>5, BufIs
<1>7. Ordered(Buf.queue)
  BY <1>1, <1>4, <1>5 DEF Sound, SoundBut, LinksOK
<1>8. /\ Owes(want, world.ent, Buf.queue, Top) /\ Unplain(Buf.queue)
      /\ WritesThere(world.ent, Buf.queue, Top)
  BY <1>2, <1>4, <1>5 DEF FlushOK
<1>9. Top.pos <= Len(Buf.queue) => Top.pos \in DOMAIN Buf.queue
  BY <1>1, TopIs
<1> QED
  BY <1>1, <1>2, <1>3, <1>4, <1>6, <1>7, <1>8, <1>9 DEF Running

\* The observers are silent: the flush goes on with the buffer nb.
LEMMA QuietEnd ==
  ASSUME QueueInv, Len(flush) = 1,
         NEW st, NEW nb, PutBuf(stage, st, Top.stage, Top.buf, nb),
         NEW fl, NEW pos, NEW step, NEW added, Moved(flush, fl, pos, step, added),
         NEW w, NEW e, NEW events, Observers(st, fl, w, e, events), hooks' = HookBudget
  PROVE  hooks = HookBudget /\ stage' = st /\ flush' = fl /\ want' = want
<1>1. Sound(world, stage, flush) /\ DeferOK /\ stage \in [Stages -> StageType] /\ hooks \in 0..HookBudget
  BY DEF QueueInv, Sound, SoundBut, Typed
<1>2. /\ flush # <<>> /\ DOMAIN flush = {1} /\ Top = flush[1] /\ flush \in Seq(FrameType)
      /\ Top.stage \in Stages /\ Top.buf \in 0..1
      /\ DOMAIN fl = {1} /\ Len(fl) = 1 /\ fl[1].stage = Top.stage
  BY <1>1, OneFrame
<1>3. st \in [Stages -> StageType] /\ fl \in Seq(FrameType) /\ fl # <<>>
  BY <1>2, Empty DEF PutBuf, Except, Moved
<1>4. HookBudget \in Nat
  BY Consts
<1>5. hooks' = hooks /\ BecomesNext(Ended(st, fl, w, Main))
  <2>1. ~ (hooks > 0 /\ hooks' = hooks - 1)
    BY <1>1, <1>4
  <2> QED
    BY <2>1 DEF Observers
<1>6. CASE Top.stage = Main
  <2>1. \E i \in DOMAIN fl : fl[i].stage = Main
    BY <1>2, <1>6
  <2> QED
    BY <1>5, <2>1 DEF Ended, BecomesNext
<1>7. CASE Top.stage # Main
  <2>1. ~ \E i \in DOMAIN fl : fl[i].stage = Main
    BY <1>2, <1>7
  <2>2. Main \in Stages
    BY Consts
  <2>3. st[Main] = stage[Main]
    BY <1>7, <2>2 DEF PutBuf, Except
  <2>4. stage[Main].buf[stage[Main].cmd].queue = <<>>
    <3>1. stage[Main].cmd \in 0..1
      BY <1>1, <2>2, StageIs
    <3>2. ~ InFlush(flush, Main)
      BY <1>2, <1>7 DEF InFlush
    <3>3. stage[Main].defer = 0
      BY <1>1, <1>2 DEF DeferOK, Idle
    <3>4. ~ Filled(stage, flush, Main, stage[Main].cmd)
      BY <3>2, <3>3 DEF Filled, Flushed, InFlush
    <3> QED
      BY <1>1, <2>2, <3>1, <3>4 DEF Sound, SoundBut, BuffersOK
  <2>5. Ended(st, fl, w, Main) = [stage |-> st, flush |-> fl, want |-> want]
    BY <1>3, <2>1, <2>3, <2>4 DEF Ended, Swapped
  <2> QED
    BY <1>5, <2>5 DEF BecomesNext
<1> QED
  BY <1>5, <1>6, <1>7

\* What a flush must have after its step, at position pos of q.
Pays(w, q, pos, step) ==
  /\ Unplain(q) /\ Tidy(w.ent)
  /\ \A g : g.pos = pos /\ g.step = step => Owes(want, w.ent, q, g) /\ WritesThere(w.ent, q, g)

LEMMA OrderStays ==
  ASSUME QueueInv, OrderInv, hooks = HookBudget, flush # <<>>, want' = want,
         NEW nb, PutBuf(stage, stage', Top.stage, Top.buf, nb),
         NEW pos, NEW step, NEW added, Moved(flush, flush', pos, step, added),
         Pays(world', nb.queue, pos, step)
  PROVE  OrderInv'
<1>1. Sound(world, stage, flush) /\ stage \in [Stages -> StageType]
  BY DEF QueueInv, Sound, SoundBut, Typed
<1>2. Len(flush) = 1 /\ Top = flush[1]
  BY FlushIs
<1>3. /\ DOMAIN flush = {1} /\ DOMAIN flush' = {1} /\ Len(flush') = 1
      /\ flush'[1].stage = Top.stage /\ flush'[1].buf = Top.buf
      /\ flush'[1].pos = pos /\ flush'[1].step = step /\ Top.stage \in Stages /\ Top.buf \in 0..1
  BY <1>1, <1>2, OneFrame
<1>4. BufOf(stage', flush'[1]) = nb
  BY <1>3 DEF BufOf, PutBuf
<1>5. FlushOK(world', stage', flush', want')
  BY <1>3, <1>4 DEF FlushOK, Pays
<1>6. ASSUME NEW s \in Stages, NEW b \in 0..1, ~ Flushed(flush', s, b)
      PROVE  stage'[s].buf[b] = stage[s].buf[b] /\ ~ Flushed(flush, s, b)
  <2>1. ~ (s = Top.stage /\ b = Top.buf)
    BY <1>3, <1>6 DEF Flushed
  <2>2. ~ Flushed(flush, s, b)
    BY <1>2, <1>3, <2>1 DEF Flushed
  <2>3. CASE s # Top.stage
    BY <2>2, <2>3 DEF PutBuf, Except
  <2>4. CASE s = Top.stage
    <3>1. b = 1 - Top.buf
      BY <1>3, <2>1, <2>4
    <3> QED
      BY <2>2, <2>4, <3>1 DEF PutBuf
  <2> QED
    BY <2>3, <2>4
<1>7. RawOK(stage', flush')
  <2>1. RawOK(stage, flush)
    BY DEF OrderInv
  <2> QED
    BY <1>6, <2>1 DEF RawOK
<1> QED
  BY <1>5, <1>7 DEF OrderInv, Pays

\* Other commands than those of e are as before.
Mine(q, q2, e) ==
  /\ DOMAIN q2 = DOMAIN q
  /\ \A k \in DOMAIN q : q2[k].of = q[k].of /\ (q[k].of.ent # e => q2[k].kind = q[k].kind)

\* A step with a command of one entity leaves the others alone.
LEMMA OthersOwed ==
  ASSUME QueueInv, OrderInv, hooks = HookBudget, flush # <<>>, Top.pos <= Len(Buf.queue),
         NEW w, NEW q2, Mine(Buf.queue, q2, Cmd.of.ent), Others(world, w, Cmd.of.ent),
         NEW g, g.pos = Top.pos \/ (g.pos = Top.pos + 1 /\ g.step # "moves"),
         NEW sl \in Slots, sl # Cmd.of.ent[1]
  PROVE  OwesAt(want, w.ent, q2, g, sl)
<1>1. /\ DOMAIN Buf.queue \subseteq Nat /\ OwesAt(want, world.ent, Buf.queue, Top, sl)
      /\ Top.pos \in DOMAIN Buf.queue
  BY FlushIs DEF Owes, Running
<1>2. Cmd = Buf.queue[Top.pos]
  BY DEF Cmd
<1>3. w.ent[sl] = world.ent[sl]
  BY DEF Others
<1> QED
  BY <1>1, <1>2, <1>3, OwesOther DEF Mine

\* The storage stays tidy if an entity that is alive is changed.
LEMMA TidyKept ==
  ASSUME NEW w, NEW v, NEW e \in Entities, Tidy(w.ent), Others(w, v, e), v.ent[e[1]].alive \/ Has(v.ent, e) = {}
  PROVE  Tidy(v.ent)
<1>1. e[1] \in Slots
  BY EntityIs
<1>2. ASSUME NEW sl \in Slots, ~ v.ent[sl].alive, NEW c \in Comps PROVE v.ent[sl].val[c] = None
  <2>1. CASE sl = e[1]
    BY <1>2, <2>1, HasIs
  <2>2. CASE sl # e[1]
    BY <1>2, <2>2 DEF Others, Tidy
  <2> QED
    BY <2>1, <2>2
<1> QED
  BY <1>2 DEF Tidy

\* A chain has commands of one entity only.
LEMMA ChainMine ==
  ASSUME NEW q, NEW p, NEW ch, ChainOf(q, p, ch)
  PROVE  \A k \in ToSet(ch) : k \in DOMAIN q /\ q[k].of.ent = q[p].of.ent
<1>1. ASSUME NEW k \in ToSet(ch) PROVE k \in DOMAIN q /\ q[k].of.ent = q[p].of.ent
  <2>1. PICK a \in DOMAIN ch : ch[a] = k
    BY DEF ToSet, ChainOf
  <2>2. k \in Rest(q, p)
    BY <2>1 DEF ChainOf
  <2> QED
    BY <2>2 DEF Rest, Links
<1> QED
  BY <1>1

LEMMA AfterMine ==
  ASSUME NEW ent, NEW q, NEW f, Running(q, f), NEW sl, Of(ent, sl, q[f.pos])
  PROVE  Mine(q, AfterFirst(q, Chain(q, f.pos)), q[f.pos].of.ent) /\ Unplain(AfterFirst(q, Chain(q, f.pos)))
<1> DEFINE ch == Chain(q, f.pos)
           q2 == AfterFirst(q, ch)
<1>1. q \in Seq(Cmds) /\ Unplain(q)
  BY DEF Running
<1>2. DOMAIN q2 = DOMAIN q
  BY DEF AfterFirst
<1>3. \A k \in DOMAIN q : q2[k].of = q[k].of /\ (q2[k].kind = "Emplace" => q[k].kind = "Emplace")
  BY <1>1, FirstKinds
<1>4. \A k \in ToSet(ch) : k \in DOMAIN q /\ q[k].of.ent = q[f.pos].of.ent
  <2>1. ChainOf(q, f.pos, ch)
    BY RestIs
  <2> HIDE DEF ch
  <2> QED
    BY <2>1, ChainMine
<1>5. \A k \in DOMAIN q : k \notin ToSet(ch) => q2[k] = q[k]
  BY DEF AfterFirst
<1> HIDE DEF q2, ch
<1> QED
  BY <1>1, <1>2, <1>3, <1>4, <1>5 DEF Mine, Unplain, q2, ch

LEMMA CommitBatchOrder ==
  ASSUME QueueInv, OrderInv, hooks = HookBudget, hooks' = HookBudget, CommitBatch
  PROVE  OrderInv'
<1> DEFINE e == Cmd.of.ent
           q == Buf.queue
           ch == Chain(q, Top.pos)
           had == Has(world.ent, e)
           p == Plan(q, ch, had)
           q2 == AfterFirst(q, ch)
           nb == [Buf EXCEPT !.queue = q2]
           st == [stage EXCEPT ![Top.stage].buf[Top.buf].queue = q2]
           removed == IF p.table # had THEN p.removed ELSE {}
<1>1. Sound(world, stage, flush)
  BY DEF QueueInv
<1>2. /\ flush # <<>> /\ Top.step = "batch" /\ Top.pos <= Len(Buf.queue)
      /\ Observers(st, At(Top.pos, "moves", p.added), world', e, removed)
  BY DEF CommitBatch, AfterFirst
<1>3. Alive(world.ent, e) /\ Batched2(e, world', p)
  BY CommitBatchIs
<1>4. /\ Top.pos \in Nat \ {0} /\ e \in Entities /\ e[1] \in Slots /\ q \in Seq(Cmds) /\ flush \in Seq(FrameType)
      /\ Cmd = q[Top.pos] /\ had \in SUBSET Comps
  BY <1>1, <1>2, TopIs, BufIs, HasIs
<1>5. /\ Len(flush) = 1 /\ Running(q, Top) /\ OwesAt(want, world.ent, q, Top, e[1])
      /\ Tidy(world.ent) /\ world.ent[e[1]].alive
  BY <1>2, <1>3, <1>4, FlushIs DEF Owes, Alive
<1>6. Of(world.ent, e[1], q[Top.pos])
  BY <1>3, <1>4 DEF Of, Alive
<1>7. Spent(q, q2) /\ Mine(q, q2, e) /\ Unplain(q2)
  <2>1. Mine(q, q2, q[Top.pos].of.ent) /\ Unplain(q2)
    BY <1>5, <1>6, AfterMine
  <2> QED
    BY <1>4, <2>1, AfterFirstIs
<1>8. p.added \in SUBSET Comps
  <2> HIDE DEF had, q, ch
  <2> QED
    BY <1>4, PlanIs
<1> HIDE DEF q2
<1>9. PutBuf(stage, st, Top.stage, Top.buf, nb) /\ nb.queue = q2
  BY <1>1, <1>2, <1>7, PutQueue
<1> HIDE DEF nb, st, removed
<1>10. Moved(flush, At(Top.pos, "moves", p.added), Top.pos, "moves", p.added)
  BY <1>2, <1>4, <1>8, AtIs
<1>11. stage' = st /\ flush' = At(Top.pos, "moves", p.added) /\ want' = want
  BY <1>2, <1>5, <1>9, <1>10, QuietEnd
<1>12. /\ Others(world, world', e)
       /\ world'.ent[e[1]].alive <=> world.ent[e[1]].alive
       /\ world'.ent[e[1]].gen = world.ent[e[1]].gen /\ Has(world'.ent, e) = p.table
  BY <1>3, <1>4 DEF Batched2, SameLife
<1>13. ASSUME NEW g, g.pos = Top.pos, g.step = "moves", NEW sl \in Slots
       PROVE  OwesAt(want, world'.ent, q2, g, sl)
  <2>1. CASE sl # e[1]
    <3> HIDE DEF p
    <3> QED
      BY <1>2, <1>7, <1>12, <1>13, <2>1, OthersOwed
  <2>2. CASE sl = e[1]
    <3>1. \A c \in Comps : /\ c \in had <=> world.ent[sl].val[c] # None
                           /\ world'.ent[sl].val[c] # None <=> c \in Plan(q, Chain(q, Top.pos), had).table
      BY <1>12, <2>2, HasIs
    <3> HIDE DEF had, e, q
    <3>2. /\ Of(world.ent, sl, q[Top.pos]) /\ OwesAt(want, world.ent, q, Top, sl)
          /\ world'.ent[sl].alive <=> world.ent[sl].alive
          /\ world'.ent[sl].gen = world.ent[sl].gen
      BY <1>5, <1>6, <1>12, <2>2
    <3>3. OwesAt(want, world'.ent, AfterFirst(q, Chain(q, Top.pos)), g, sl)
      BY ONLY <1>2, <1>5, <1>13, <3>1, <3>2, BatchOwes
    <3> QED
      BY <3>3 DEF q2
  <2> QED
    BY <2>1, <2>2
<1>14. Tidy(world'.ent)
  BY <1>4, <1>5, <1>12, TidyKept
<1>15. Pays(world', q2, Top.pos, "moves")
  BY <1>7, <1>13, <1>14 DEF Pays, Owes, WritesThere
<1> HIDE DEF q, p
<1> QED
  BY <1>2, <1>9, <1>10, <1>11, <1>15, OrderStays

LEMMA MoveValuesOrder ==
  ASSUME QueueInv, OrderInv, hooks = HookBudget, hooks' = HookBudget, MoveValues
  PROVE  OrderInv'
<1> DEFINE e == Cmd.of.ent
           q == Buf.queue
           ch == Chain(q, Top.pos)
           m == SecondPass(world, e, q, ch)
           nb == [Buf EXCEPT !.queue = m.q]
           st == [stage EXCEPT ![Top.stage].buf[Top.buf].queue = m.q]
<1>1. Sound(world, stage, flush)
  BY DEF QueueInv
<1>2. /\ flush # <<>> /\ Top.step = "moves"
      /\ Observers(st, At(Top.pos, "exec", {}), world', e, Top.added \cap Has(world'.ent, e))
  BY DEF MoveValues
<1>3. Alive(world.ent, e) /\ Told2(e, world', Top.added) /\ Second(world, e, q, m)
  BY MoveValuesIs
<1>4. /\ Top.pos \in Nat \ {0} /\ e \in Entities /\ e[1] \in Slots /\ q \in Seq(Cmds) /\ flush \in Seq(FrameType)
      /\ Cmd = q[Top.pos] /\ Top.pos <= Len(q)
  BY <1>1, <1>2, TopIs, BufIs
<1>5. /\ Len(flush) = 1 /\ Running(q, Top) /\ OwesAt(want, world.ent, q, Top, e[1])
      /\ Tidy(world.ent) /\ world.ent[e[1]].alive
  BY <1>2, <1>3, <1>4, FlushIs DEF Owes, Alive
<1>6. Of(world.ent, e[1], q[Top.pos])
  BY <1>3, <1>4 DEF Of, Alive
<1>7. Spent(q, m.q) /\ \A k \in DOMAIN q : q[k].kind \notin {"Set", "Ensure"} => m.q[k] = q[k]
  BY <1>3, <1>4, LenProperties DEF Second
<1>8. DOMAIN m.q = DOMAIN q /\ \A k \in DOMAIN q : /\ m.q[k].of = q[k].of
                                                   /\ m.q[k].kind = q[k].kind \/ m.q[k].kind \in {"Modified", "Skip"}
  BY <1>4, <1>7, LenProperties DEF Spent
<1>9. \A k \in DOMAIN q : k \in ToSet(ch) /\ q[k].kind \in {"Set", "Ensure"} => m.q[k].kind \in {"Modified", "Skip"}
  BY <1>4, SecondKinds
<1>10. Mine(q, m.q, e)
  <2>1. \A k \in DOMAIN q : k \notin ToSet(ch) => m.q[k] = q[k]
    BY DEF SecondPass
  <2>2. \A k \in ToSet(ch) : k \in DOMAIN q /\ q[k].of.ent = q[Top.pos].of.ent
    <3>1. ChainOf(q, Top.pos, ch)
      BY <1>5, <1>6, RestIs
    <3> HIDE DEF q, m, ch
    <3> QED
      BY <3>1, ChainMine
  <2> HIDE DEF m, ch, q, e
  <2> QED
    BY <1>4, <1>8, <2>1, <2>2 DEF Mine, e
<1> HIDE DEF m
<1>11. PutBuf(stage, st, Top.stage, Top.buf, nb) /\ nb.queue = m.q
  BY <1>1, <1>2, <1>7, PutQueue
<1> HIDE DEF nb, st
<1>12. Moved(flush, At(Top.pos, "exec", {}), Top.pos, "exec", {})
  BY <1>2, <1>4, AtIs
<1>13. stage' = st /\ flush' = At(Top.pos, "exec", {}) /\ want' = want
  BY <1>2, <1>5, <1>11, <1>12, QuietEnd
<1>14. /\ Others(world, world', e)
       /\ world'.ent[e[1]].alive <=> world.ent[e[1]].alive
       /\ world'.ent[e[1]].gen = world.ent[e[1]].gen /\ Has(world'.ent, e) = Has(world.ent, e)
  BY <1>3, <1>4 DEF Told2, SameLife
<1>15. ASSUME NEW g, g.pos = Top.pos, g.step = "exec", NEW sl \in Slots
       PROVE  OwesAt(want, world'.ent, m.q, g, sl)
  <2>1. CASE sl # e[1]
    BY <1>2, <1>4, <1>10, <1>14, <1>15, <2>1, OthersOwed
  <2>2. CASE sl = e[1]
    <3>1. \A c \in Comps : world'.ent[sl].val[c] # None <=> world.ent[sl].val[c] # None
      BY <1>14, <2>2, HasIs
    <3> HIDE DEF e, q
    <3>2. /\ Of(world.ent, sl, q[Top.pos]) /\ OwesAt(want, world.ent, q, Top, sl)
          /\ world'.ent[sl].alive <=> world.ent[sl].alive
          /\ world'.ent[sl].gen = world.ent[sl].gen
      BY <1>5, <1>6, <1>14, <2>2
    <3>3. \A k \in DOMAIN q :
            /\ m.q[k].of = q[k].of /\ (q[k].kind \notin {"Set", "Ensure"} => m.q[k].kind = q[k].kind)
            /\ m.q[k].kind = q[k].kind \/ m.q[k].kind \in {"Modified", "Skip"}
            /\ k \in ToSet(Chain(q, Top.pos)) /\ q[k].kind \in {"Set", "Ensure"}
                 => m.q[k].kind \in {"Modified", "Skip"}
      BY <1>7, <1>8, <1>9
    <3> QED
      BY ONLY <1>2, <1>5, <1>8, <1>15, <3>1, <3>2, <3>3, MovesOwes
  <2> QED
    BY <2>1, <2>2
<1>16. Tidy(world'.ent)
  BY <1>4, <1>5, <1>14, TidyKept
<1>17. Unplain(m.q)
  BY <1>5, <1>8 DEF Running, Unplain
<1>18. Pays(world', m.q, Top.pos, "exec")
  BY <1>15, <1>16, <1>17 DEF Pays, Owes, WritesThere
<1> HIDE DEF q
<1> QED
  BY <1>2, <1>11, <1>12, <1>13, <1>18, OrderStays

\* The commands as they are; the flush goes on with the position pos.
LEMMA SameQueueOrder ==
  ASSUME QueueInv, OrderInv, hooks = HookBudget, flush # <<>>, Top.pos <= Len(Buf.queue), want' = want,
         PutBuf(stage, stage', Top.stage, Top.buf, Unused(Buf, Cmd)) \/ stage' = stage,
         NEW pos, NEW step, NEW added, Moved(flush, flush', pos, step, added),
         Pays(world', Buf.queue, pos, step)
  PROVE  OrderInv'
<1>1. Sound(world, stage, flush) /\ stage \in [Stages -> StageType]
  BY DEF QueueInv, Sound, SoundBut, Typed
<1>2. Unused(Buf, Cmd).queue = Buf.queue
  BY <1>1, InvalidatedIs
<1>3. PutBuf(stage, stage, Top.stage, Top.buf, Buf)
  BY <1>1, TopIs DEF PutBuf, Except
<1>4. CASE PutBuf(stage, stage', Top.stage, Top.buf, Unused(Buf, Cmd))
  BY <1>2, <1>4, OrderStays
<1>5. CASE stage' = stage
  BY <1>3, <1>5, OrderStays
<1> QED
  BY <1>4, <1>5

\* The command that a flush is at.
LEMMA CmdOwed ==
  ASSUME QueueInv, OrderInv, hooks = HookBudget, flush # <<>>, Top.pos <= Len(Buf.queue)
  PROVE  /\ Cmd = Buf.queue[Top.pos] /\ Cmd \in Cmds /\ Cmd.of.ent \in Entities /\ Cmd.of.ent[1] \in Slots
         /\ Top.pos \in DOMAIN Buf.queue /\ DOMAIN Buf.queue \subseteq Nat
         /\ Top.pos \in Nat \ {0} /\ Top.pos + 1 \in Nat \ {0} /\ flush \in Seq(FrameType)
         /\ Mine(Buf.queue, Buf.queue, Cmd.of.ent) /\ Unplain(Buf.queue) /\ Cmd.kind # "Emplace"
         /\ \A sl \in Slots : OwesAt(want, world.ent, Buf.queue, Top, sl)
         /\ \A sl \in Slots : Of(world.ent, sl, Cmd) => sl = Cmd.of.ent[1]
         /\ Alive(world.ent, Cmd.of.ent) => Of(world.ent, Cmd.of.ent[1], Cmd) /\ world.ent[Cmd.of.ent[1]].alive
<1>1. Sound(world, stage, flush)
  BY DEF QueueInv
<1>2. /\ Top.pos \in DOMAIN Buf.queue /\ Cmd = Buf.queue[Top.pos] /\ Cmd \in Cmds
      /\ Cmd.of.ent \in Entities /\ Cmd.of.ent[1] \in Slots /\ Top.pos \in Nat \ {0} /\ flush \in Seq(FrameType)
  BY <1>1, TopIs
<1>3. /\ Owes(want, world.ent, Buf.queue, Top) /\ Unplain(Buf.queue) /\ DOMAIN Buf.queue \subseteq Nat
  BY FlushIs
<1>4. Top.pos + 1 \in Nat \ {0}
  BY <1>2
<1>5. Cmd.kind # "Emplace"
  BY <1>2, <1>3 DEF Unplain
<1>6. \A sl \in Slots : OwesAt(want, world.ent, Buf.queue, Top, sl)
  BY <1>3 DEF Owes
<1>7. /\ \A sl \in Slots : Of(world.ent, sl, Cmd) => sl = Cmd.of.ent[1]
      /\ Alive(world.ent, Cmd.of.ent) => Of(world.ent, Cmd.of.ent[1], Cmd) /\ world.ent[Cmd.of.ent[1]].alive
  BY DEF Of, Alive
<1>8. Mine(Buf.queue, Buf.queue, Cmd.of.ent)
  BY DEF Mine
<1> QED
  BY <1>2, <1>3, <1>4, <1>5, <1>6, <1>7, <1>8

LEMMA DiscardOrder ==
  ASSUME QueueInv, OrderInv, hooks = HookBudget, DiscardCmd
  PROVE  OrderInv'
<1> DEFINE q == Buf.queue
<1>1. /\ Top.pos <= Len(q) /\ flush # <<>> /\ Top.step \in {"batch", "exec"}
      /\ PutBuf(stage, stage', Top.stage, Top.buf, Unused(Buf, Cmd))
      /\ Moved(flush, flush', Top.pos + 1, "batch", {}) /\ world'.ent = world.ent
  BY DiscardCmdIs
<1>2. want' = want /\ (Cmd.kind = "Skip" \/ ~ Alive(world.ent, Cmd.of.ent))
  BY DEF DiscardCmd
<1>3. /\ Cmd = q[Top.pos] /\ Top.pos \in DOMAIN q /\ DOMAIN q \subseteq Nat /\ Unplain(q)
      /\ \A sl \in Slots : OwesAt(want, world.ent, q, Top, sl)
  BY <1>1, CmdOwed
<1> HIDE DEF q
<1>4. ASSUME NEW g, g.pos = Top.pos + 1, g.step = "batch", NEW sl \in Slots
      PROVE  OwesAt(want, world.ent, q, g, sl)
  <2>1. OwesAt(want, world.ent, q, Top, sl) /\ Top.step # "moves" /\ g.step # "moves"
    BY <1>1, <1>3, <1>4
  <2>2. CASE Cmd.kind = "Skip" \/ ~ Of(world.ent, sl, Cmd)
    BY <1>3, <1>4, <2>1, <2>2, OwesPast
  <2>3. CASE Cmd.kind # "Skip" /\ Of(world.ent, sl, Cmd)
    <3>1. ~ world.ent[sl].alive
      BY <1>2, <2>3 DEF Of, Alive
    <3> QED
      BY <2>1, <3>1, OwesDead
  <2> QED
    BY <2>2, <2>3
<1>5. Tidy(world'.ent)
  BY <1>1, FlushIs
<1>6. Pays(world', q, Top.pos + 1, "batch")
  BY <1>1, <1>3, <1>4, <1>5 DEF Pays, Owes, WritesThere
<1> QED
  BY <1>1, <1>2, <1>6, SameQueueOrder DEF q

\* What a command without a value leaves.
LEMMA EffectHas ==
  ASSUME world \in WorldType, NEW cmd \in Cmds, cmd.kind \notin HasValue \cup {"Skip", "Delete"}
  PROVE  LET v == Effect(cmd)
             e == cmd.of.ent IN
         /\ SameLife(world, v) /\ Others(world, v, e)
         /\ \A c \in Comps : c \in Has(v.ent, e) <=>
              \/ cmd.kind \in {"Add", "AddModified"} /\ cmd.of.comp = c
              \/ c \in Has(world.ent, e) /\ cmd.kind # "Clear" /\ ~ (cmd.kind = "Remove" /\ cmd.of.comp = c)
<1> DEFINE e == cmd.of.ent
           had == Has(world.ent, e)
           v == Effect(cmd)
<1>1. SameLife(world, v) /\ Others(world, v, e)
  BY EffectIs
<1>2. /\ e \in Entities /\ had \in SUBSET Comps
      /\ cmd.kind \in {"Add", "AddModified", "Remove"} => cmd.of.comp \in Comps
      /\ cmd.kind \in {"Add", "AddModified", "Remove", "Clear", "Modified"}
  BY CmdIs, HasIs DEF Consistent, HasValue
<1>3. ASSUME NEW T \in SUBSET Comps, v = Commit(world, e, T) PROVE Has(v.ent, e) = T
  <2>1. Committed(world, Commit(world, e, T), e, T)
    BY <1>2, CommitIs
  <2> QED
    BY <1>3, <2>1 DEF Committed
<1>4. CASE cmd.kind \in {"Add", "AddModified"}
  <2>1. v = Commit(world, e, had \cup {cmd.of.comp})
    BY <1>4 DEF Effect
  <2>2. Has(v.ent, e) = had \cup {cmd.of.comp}
    <3>1. had \cup {cmd.of.comp} \in SUBSET Comps
      BY <1>2, <1>4
    <3> HIDE DEF v, e, had
    <3> QED
      BY <1>3, <2>1, <3>1
  <2> QED
    BY <1>1, <1>4, <2>2
<1>5. CASE cmd.kind = "Remove"
  <2>1. v = Commit(world, e, had \ {cmd.of.comp})
    BY <1>5 DEF Effect
  <2>2. Has(v.ent, e) = had \ {cmd.of.comp}
    <3> HIDE DEF v, e, had
    <3> QED
      BY <1>2, <1>3, <2>1
  <2> QED
    BY <1>1, <1>5, <2>2
<1>6. CASE cmd.kind = "Clear"
  <2>1. v = Commit(world, e, {})
    BY <1>6 DEF Effect
  <2>2. Has(v.ent, e) = {}
    <3> HIDE DEF v, e, had
    <3> QED
      BY <1>3, <2>1
  <2> QED
    BY <1>1, <1>6, <2>2
<1>7. CASE cmd.kind = "Modified"
  <2>1. v = world
    BY <1>7 DEF Effect
  <2> QED
    BY <1>1, <1>7, <2>1
<1> QED
  BY <1>2, <1>4, <1>5, <1>6, <1>7

\* The storage after a command, seen from the slot of its entity.
LEMMA SlotHas ==
  ASSUME NEW w, NEW v, NEW e \in Entities, SameLife(w, v)
  PROVE  /\ v.ent[e[1]].alive <=> w.ent[e[1]].alive
         /\ v.ent[e[1]].gen = w.ent[e[1]].gen
         /\ \A c \in Comps : /\ v.ent[e[1]].val[c] # None <=> c \in Has(v.ent, e)
                             /\ w.ent[e[1]].val[c] # None <=> c \in Has(w.ent, e)
BY EntityIs, HasIs DEF SameLife

LEMMA ExecuteOrder ==
  ASSUME QueueInv, OrderInv, hooks = HookBudget, hooks' = HookBudget, ExecuteCmd
  PROVE  OrderInv'
<1> DEFINE e == Cmd.of.ent
           q == Buf.queue
           p == Top.pos
           nb == Unused(Buf, Cmd)
<1>1. Sound(world, stage, flush) /\ world \in WorldType
  BY DEF QueueInv, Sound, SoundBut, Typed
<1>2. /\ Alive(world.ent, e) /\ Cmd.kind \notin HasValue \cup {"Skip"} /\ p <= Len(q) /\ flush # <<>>
      /\ Top.step \in {"batch", "exec"} /\ world' = Effect(Cmd)
  BY ExecuteCmdIs
<1>3. Observers(Invalidated, At(p + 1, "batch", {}), world', e, SymDiff(Has(world.ent, e), Has(world'.ent, e)))
  BY DEF ExecuteCmd
<1>4. /\ Cmd = q[p] /\ Cmd \in Cmds /\ e \in Entities /\ e[1] \in Slots /\ p \in DOMAIN q /\ DOMAIN q \subseteq Nat
      /\ p + 1 \in Nat \ {0} /\ flush \in Seq(FrameType) /\ Mine(q, q, e) /\ Unplain(q)
      /\ \A sl \in Slots : OwesAt(want, world.ent, q, Top, sl)
      /\ Of(world.ent, e[1], Cmd) /\ world.ent[e[1]].alive
  BY <1>2, CmdOwed
<1>5. Len(flush) = 1 /\ Tidy(world.ent)
  BY <1>2, FlushIs
<1>6. PutBuf(stage, Invalidated, Top.stage, Top.buf, nb)
  BY <1>1, <1>2, InvalidatedIs
<1>7. Moved(flush, At(p + 1, "batch", {}), p + 1, "batch", {})
  BY <1>2, <1>4, AtIs
<1> HIDE DEF nb
<1>8. stage' = Invalidated /\ flush' = At(p + 1, "batch", {}) /\ want' = want
  BY <1>3, <1>5, <1>6, <1>7, QuietEnd
<1>9. Others(world, world', e)
  BY <1>1, <1>2, <1>4, EffectIs
<1> HIDE DEF q, p
<1>10. ASSUME NEW g, g.pos = p + 1, g.step = "batch", NEW sl \in Slots, sl # e[1]
       PROVE  OwesAt(want, world'.ent, q, g, sl)
  <2>1. g.pos = Top.pos + 1 /\ g.step # "moves"
    BY <1>10 DEF p
  <2> QED
    BY <1>2, <1>4, <1>9, <1>10, <2>1, OthersOwed DEF q, p
<1>11. CASE Cmd.kind = "Delete"
  <2>1. world' = Destroy(world, e)
    BY <1>2, <1>11 DEF Effect
  <2>2. Has(world'.ent, e) = {} /\ ~ world'.ent[e[1]].alive
    BY <1>1, <1>4, <2>1, DestroyIs
  <2>3. p \in Deletes(world.ent, q, Top, e[1])
    BY <1>4, <1>11 DEF Deletes, Live, p
  <2>4. ASSUME NEW g PROVE OwesAt(want, world'.ent, q, g, e[1])
    BY <1>4, <2>2, <2>3, OwesDead
  <2>5. Tidy(world'.ent)
    BY <1>4, <1>5, <1>9, <2>2, TidyKept
  <2>6. Pays(world', q, p + 1, "batch")
    BY <1>4, <1>10, <2>4, <2>5 DEF Pays, Owes, WritesThere
  <2> QED
    BY <1>2, <1>6, <1>7, <1>8, <2>6, SameQueueOrder DEF q, p, nb
<1>12. CASE Cmd.kind # "Delete"
  <2>1. /\ SameLife(world, world')
        /\ \A c \in Comps : c \in Has(world'.ent, e) <=>
             \/ Cmd.kind \in {"Add", "AddModified"} /\ Cmd.of.comp = c
             \/ c \in Has(world.ent, e) /\ Cmd.kind # "Clear" /\ ~ (Cmd.kind = "Remove" /\ Cmd.of.comp = c)
    BY <1>1, <1>2, <1>4, <1>12, EffectHas
  <2>2. /\ world'.ent[e[1]].alive <=> world.ent[e[1]].alive
        /\ world'.ent[e[1]].gen = world.ent[e[1]].gen
        /\ \A c \in Comps : /\ world'.ent[e[1]].val[c] # None <=> c \in Has(world'.ent, e)
                            /\ world.ent[e[1]].val[c] # None <=> c \in Has(world.ent, e)
    BY <1>4, <2>1, SlotHas
  <2>3. \A c \in Comps : world'.ent[e[1]].val[c] # None <=>
                           Adds(q, p, c) \/ (world.ent[e[1]].val[c] # None /\ ~ Removes(q, p, c))
    BY <1>2, <1>4, <2>1, <2>2 DEF Adds, Removes, HasValue
  <2>4. ASSUME NEW g, g.pos = p + 1, g.step = "batch" PROVE OwesAt(want, world'.ent, q, g, e[1])
    <3> HIDE DEF e
    <3>1. /\ Top.pos = p /\ Top.step # "moves" /\ g.step # "moves" /\ OwesAt(want, world.ent, q, Top, e[1])
          /\ Of(world.ent, e[1], q[Top.pos]) /\ q[Top.pos].kind # "Delete" /\ Top.pos \in DOMAIN q
          /\ g.pos = Top.pos + 1 /\ DOMAIN q \subseteq Nat
      BY <1>2, <1>4, <1>12, <2>4 DEF p
    <3> QED
      BY ONLY <2>2, <2>3, <3>1, OwesOwn
  <2>5. Tidy(world'.ent)
    BY <1>4, <1>5, <1>9, <2>2, TidyKept
  <2>6. Pays(world', q, p + 1, "batch")
    BY <1>4, <1>10, <2>4, <2>5 DEF Pays, Owes, WritesThere
  <2> QED
    BY <1>2, <1>6, <1>7, <1>8, <2>6, SameQueueOrder DEF q, p, nb
<1> QED
  BY <1>11, <1>12

LEMMA EnsureOrder ==
  ASSUME QueueInv, OrderInv, hooks = HookBudget, hooks' = HookBudget, EnsureCmd
  PROVE  OrderInv'
<1> DEFINE e == Cmd.of.ent
           c == Cmd.of.comp
           q == Buf.queue
           p == Top.pos
           nb == Unused(Buf, Cmd)
<1>1. Sound(world, stage, flush) /\ world \in WorldType
  BY DEF QueueInv, Sound, SoundBut, Typed
<1>2. /\ Alive(world.ent, e) /\ Cmd.kind \in HasValue /\ c \in Comps /\ p <= Len(q) /\ flush # <<>>
      /\ Top.step \in {"batch", "exec"} /\ Committed(world, world', e, Has(world.ent, e) \cup {c})
  BY EnsureCmdIs
<1>3. Observers(Invalidated, At(p, "write", {}), world', e, {c} \ Has(world.ent, e))
  BY DEF EnsureCmd
<1>4. /\ Cmd = q[p] /\ Cmd \in Cmds /\ e \in Entities /\ e[1] \in Slots /\ p \in DOMAIN q /\ DOMAIN q \subseteq Nat
      /\ p \in Nat \ {0} /\ flush \in Seq(FrameType) /\ Mine(q, q, e) /\ Unplain(q) /\ Cmd.kind # "Emplace"
      /\ \A sl \in Slots : OwesAt(want, world.ent, q, Top, sl)
      /\ Of(world.ent, e[1], Cmd) /\ world.ent[e[1]].alive
  BY <1>2, CmdOwed
<1>5. Len(flush) = 1 /\ Tidy(world.ent)
  BY <1>2, FlushIs
<1>6. PutBuf(stage, Invalidated, Top.stage, Top.buf, nb)
  BY <1>1, <1>2, InvalidatedIs
<1>7. Moved(flush, At(p, "write", {}), p, "write", {})
  BY <1>2, <1>4, AtIs
<1> HIDE DEF nb
<1>8. stage' = Invalidated /\ flush' = At(p, "write", {}) /\ want' = want
  BY <1>3, <1>5, <1>6, <1>7, QuietEnd
<1>9. /\ Others(world, world', e) /\ SameLife(world, world') /\ Has(world'.ent, e) = Has(world.ent, e) \cup {c}
  BY <1>2 DEF Committed
<1> HIDE DEF q, p
<1>10. Cmd.kind \in {"Set", "Ensure"}
  BY <1>2, <1>4 DEF HasValue
<1>11. /\ world'.ent[e[1]].alive <=> world.ent[e[1]].alive
       /\ world'.ent[e[1]].gen = world.ent[e[1]].gen
       /\ \A d \in Comps : /\ world'.ent[e[1]].val[d] # None <=> d \in Has(world'.ent, e)
                           /\ world.ent[e[1]].val[d] # None <=> d \in Has(world.ent, e)
  BY <1>4, <1>9, SlotHas
<1>12. ASSUME NEW g, g.pos = p, g.step = "write", NEW sl \in Slots
       PROVE  OwesAt(want, world'.ent, q, g, sl)
  <2>1. CASE sl # e[1]
    <3>1. g.pos = Top.pos
      BY <1>12 DEF p
    <3> QED
      BY <1>2, <1>4, <1>9, <2>1, <3>1, OthersOwed DEF q, p
  <2>2. CASE sl = e[1]
    <3>1. \A d \in Comps : world'.ent[sl].val[d] # None <=> world.ent[sl].val[d] # None \/ d = q[Top.pos].of.comp
      BY <1>4, <1>9, <1>11, <2>2 DEF p
    <3>2. /\ world'.ent[sl].alive <=> world.ent[sl].alive
          /\ world'.ent[sl].gen = world.ent[sl].gen
          /\ Top.step # "moves" /\ g.step # "moves" /\ OwesAt(want, world.ent, q, Top, sl)
          /\ Of(world.ent, sl, q[Top.pos]) /\ q[Top.pos].kind \in {"Set", "Ensure"} /\ Top.pos \in DOMAIN q
          /\ g.pos = Top.pos /\ DOMAIN q \subseteq Nat
      BY <1>2, <1>4, <1>10, <1>11, <1>12, <2>2 DEF p
    <3> HIDE DEF e
    <3> QED
      BY ONLY <3>1, <3>2, OwesEnsured
  <2> QED
    BY <2>1, <2>2
<1>13. Tidy(world'.ent)
  <2>1. e \in Entities /\ Tidy(world.ent) /\ Others(world, world', e) /\ world'.ent[e[1]].alive
    BY <1>4, <1>5, <1>9, <1>11
  <2> HIDE DEF e
  <2> QED
    BY ONLY <2>1, TidyKept
<1>14. ASSUME NEW g, g.pos = p PROVE WritesThere(world'.ent, q, g)
  <2>1. Alive(world'.ent, e)
    BY <1>2, <1>11 DEF Alive
  <2> QED
    BY <1>4, <1>9, <1>10, <1>14, <2>1 DEF WritesThere
<1>15. Pays(world', q, p, "write")
  BY <1>4, <1>12, <1>13, <1>14 DEF Pays, Owes
<1> QED
  BY <1>2, <1>6, <1>7, <1>8, <1>15, SameQueueOrder DEF q, p, nb

LEMMA WriteOrder ==
  ASSUME QueueInv, WriteInv, OrderInv, hooks = HookBudget, WriteCmd
  PROVE  OrderInv'
<1> DEFINE e == Cmd.of.ent
           c == Cmd.of.comp
           q == Buf.queue
           p == Top.pos
<1>1. /\ flush # <<>> /\ Top.step = "write" /\ p <= Len(q) /\ Cmd.of.comp \in Comps
      /\ Wrote(world, world', e, c, Cmd) /\ stage' = stage /\ Moved(flush, flush', p + 1, "batch", {})
  BY WriteCmdIs DEF WriteInv
<1>2. want' = want /\ world \in WorldType
  BY DEF WriteCmd, QueueInv, Sound, SoundBut, Typed
<1>3. /\ Cmd = q[p] /\ Cmd \in Cmds /\ e \in Entities /\ e[1] \in Slots /\ p \in DOMAIN q /\ DOMAIN q \subseteq Nat
      /\ Mine(q, q, e) /\ Unplain(q)
      /\ \A sl \in Slots : OwesAt(want, world.ent, q, Top, sl)
      /\ Alive(world.ent, e) => Of(world.ent, e[1], Cmd) /\ world.ent[e[1]].alive
  BY <1>1, CmdOwed
<1>4. Tidy(world.ent) /\ WritesThere(world.ent, q, Top)
  BY <1>1, FlushIs
<1>5. Cmd.kind \in {"Set", "Ensure"} /\ Alive(world.ent, e) /\ c \in Has(world.ent, e)
  BY <1>1, <1>3, <1>4 DEF WritesThere
<1>6. Others(world, world', e) /\ SameLife(world, world') /\ Has(world'.ent, e) = Has(world.ent, e)
  BY <1>1, <1>5 DEF Wrote, Overwritten
<1> HIDE DEF q, p
<1>7. /\ world'.ent[e[1]].alive <=> world.ent[e[1]].alive
      /\ world'.ent[e[1]].gen = world.ent[e[1]].gen
      /\ \A d \in Comps : /\ world'.ent[e[1]].val[d] # None <=> d \in Has(world'.ent, e)
                          /\ world.ent[e[1]].val[d] # None <=> d \in Has(world.ent, e)
  BY <1>3, <1>6, SlotHas
<1>8. ASSUME NEW g, g.pos = p + 1, g.step = "batch", NEW sl \in Slots
      PROVE  OwesAt(want, world'.ent, q, g, sl)
  <2>1. CASE sl # e[1]
    <3>1. g.pos = Top.pos + 1 /\ g.step # "moves"
      BY <1>8 DEF p
    <3> QED
      BY <1>1, <1>3, <1>6, <2>1, <3>1, OthersOwed DEF q, p
  <2>2. CASE sl = e[1]
    <3>1. \A d \in Comps : world'.ent[sl].val[d] # None <=>
                             Adds(q, Top.pos, d) \/ (world.ent[sl].val[d] # None /\ ~ Removes(q, Top.pos, d))
      BY <1>3, <1>5, <1>6, <1>7, <2>2 DEF Adds, Removes, p
    <3>2. /\ world'.ent[sl].alive <=> world.ent[sl].alive
          /\ world'.ent[sl].gen = world.ent[sl].gen
          /\ Top.step # "moves" /\ g.step # "moves" /\ OwesAt(want, world.ent, q, Top, sl)
          /\ Of(world.ent, sl, q[Top.pos]) /\ q[Top.pos].kind # "Delete" /\ Top.pos \in DOMAIN q
          /\ g.pos = Top.pos + 1 /\ DOMAIN q \subseteq Nat
      BY <1>1, <1>3, <1>5, <1>7, <1>8, <2>2 DEF p
    <3> HIDE DEF e
    <3> QED
      BY ONLY <3>1, <3>2, OwesOwn
  <2> QED
    BY <2>1, <2>2
<1>9. Tidy(world'.ent)
  BY <1>3, <1>4, <1>5, <1>6, <1>7, TidyKept
<1>10. Pays(world', q, p + 1, "batch")
  BY <1>3, <1>8, <1>9 DEF Pays, Owes, WritesThere
<1> QED
  BY <1>1, <1>2, <1>10, SameQueueOrder DEF q, p

-----------------------------------------------------------------------------
(* A flush that starts owes what the buffer means.                         *)

\* A buffer of commands as they were recorded.
LEMMA RawQueue ==
  ASSUME NEW q \in Seq(Cmds), \A k \in DOMAIN q : Raw(q[k])
  PROVE  /\ Unplain(q) /\ \A k \in DOMAIN q : q[k].of \in AllOps
         /\ \A k \in DOMAIN q : \A c :
              /\ Adds(q, k, c) <=> q[k].of.op \in {"add", "set"} /\ q[k].of.comp = c
              /\ Removes(q, k, c) <=> \/ q[k].of.op = "clear"
                                      \/ q[k].of.op = "remove" /\ q[k].of.comp = c
              /\ q[k].kind = "Delete" <=> q[k].of.op = "delete"
<1>1. ASSUME NEW k \in DOMAIN q
      PROVE  q[k].of \in AllOps /\ q[k].of.op \in {"add", "remove", "set", "clear", "delete"}
  <2>1. q[k].of \in AllOps
    BY DEF Raw
  <2>2. q[k].of.op \in Ops \cup HookOps \cup {"set"}
    BY <2>1, OperationIs DEF AllOps
  <2> QED
    BY <2>1, <2>2, ConstantsAssumption
<1>2. Unplain(q)
  BY <1>1 DEF Raw, Unplain
<1>3. \A k \in DOMAIN q : \A c :
        /\ Adds(q, k, c) <=> q[k].of.op \in {"add", "set"} /\ q[k].of.comp = c
        /\ Removes(q, k, c) <=> \/ q[k].of.op = "clear"
                                \/ q[k].of.op = "remove" /\ q[k].of.comp = c
        /\ q[k].kind = "Delete" <=> q[k].of.op = "delete"
  BY DEF Raw, Adds, Removes
<1> QED
  BY <1>1, <1>2, <1>3

LEMMA StartOwes ==
  ASSUME NEW w \in WorldType, Tidy(w.ent), NEW q \in Seq(Cmds), \A k \in DOMAIN q : Raw(q[k]),
         NEW f, f.pos = 1, f.step = "batch"
  PROVE  Owes(Meaning(w.ent, q), w.ent, q, f)
<1> DEFINE ent == w.ent
           m == Meaning(ent, q)
           n == Len(q)
<1>1. Meant(ent, q, n, m)
  BY RawQueue, WorldIs, MeaningIs
<1>2. DOMAIN q = 1..n /\ n \in Nat
  BY LenProperties
<1> HIDE DEF ent, m, n
<1>3. ASSUME NEW sl \in Slots PROVE OwesAt(m, ent, q, f, sl)
  <2>1. Live(ent, q, f, sl) = {k \in 1..n : Of(ent, sl, q[k])}
    BY <1>2 DEF Live
  <2>2. Deletes(ent, q, f, sl) = OpDels(ent, q, n, sl)
    BY <1>2, <2>1, RawQueue DEF Deletes, OpDels
  <2>3. ASSUME NEW c \in Comps
        PROVE  /\ Gets(ent, q, f, sl, c) = OpAdds(ent, q, n, sl, c)
               /\ Loses(ent, q, f, sl, c) = OpRemoves(ent, q, n, sl, c)
    <3>1. \A k \in 1..n : /\ Adds(q, k, c) <=> q[k].of.op \in {"add", "set"} /\ q[k].of.comp = c
                          /\ Removes(q, k, c) <=> \/ q[k].of.op = "clear"
                                                  \/ q[k].of.op = "remove" /\ q[k].of.comp = c
                          /\ ~ Used(q, f, k)
      BY <1>2, RawQueue DEF Used
    <3> QED
      BY <2>1, <3>1 DEF Gets, Loses, OpAdds, OpRemoves
  <2>4. MeantAt(ent, q, n, m, sl)
    BY <1>1 DEF Meant
  <2>5. m[sl].alive \in BOOLEAN
    BY <1>1 DEF Meant, MeantType
  <2> QED
    BY <2>2, <2>3, <2>4, <2>5 DEF MeantAt, OwesAt
<1> QED
  BY <1>3 DEF Owes, m, ent

\* No flush goes on, and one starts if the buffer of stage s has commands.
LEMMA SwapOrder ==
  ASSUME NEW w \in WorldType, Tidy(w.ent), NEW st \in [Stages -> StageType], RawOK(st, <<>>), NEW s \in Stages,
         BecomesNext(Swapped(st, <<>>, w, s))
  PROVE  FlushOK(w, stage', flush', want') /\ RawOK(stage', flush')
<1> DEFINE b == st[s].cmd
           q == st[s].buf[b].queue
           v == [st EXCEPT ![s].cmd = 1 - b]
           f == [stage |-> s, buf |-> b, pos |-> 1, step |-> "batch", added |-> {}]
<1>1. b \in 0..1 /\ st[s].buf[b] \in BufType
  BY StageIs
<1>2. q \in Seq(Cmds)
  BY <1>1, BufIs
<1>3. \A t \in Stages, c \in 0..1 : ~ Flushed(<<>>, t, c)
  BY Empty DEF Flushed
<1>4. \A t \in Stages, c \in 0..1 : \A k \in DOMAIN st[t].buf[c].queue : Raw(st[t].buf[c].queue[k])
  BY <1>3 DEF RawOK
<1>5. CASE q = <<>>
  <2>1. stage' = st /\ flush' = <<>>
    BY <1>5 DEF Swapped, BecomesNext
  <2> QED
    BY <2>1 DEF FlushOK
<1>6. CASE q # <<>>
  <2>1. stage' = v /\ flush' = Append(<<>>, f) /\ want' = Meaning(w.ent, q)
    BY <1>6 DEF Swapped, BecomesNext
  <2>2. Append(<<>>, f) = <<f>> /\ Len(<<f>>) = 1 /\ <<f>>[1] = f /\ <<f>> # <<>>
    OBVIOUS
  <2>3. \A t \in Stages : v[t].buf = st[t].buf
    <3>1. st[s] \in [defer : {st[s].defer}, cmd : {st[s].cmd}, buf : {st[s].buf}]
      BY StageIs
    <3> QED
      BY <3>1
  <2>4. f.pos = 1 /\ f.step = "batch" /\ f.stage = s /\ f.buf = b
    OBVIOUS
  <2> HIDE DEF f, v
  <2>5. flush'[1] = f /\ Len(flush') = 1 /\ BufOf(stage', flush'[1]).queue = q
    BY <2>1, <2>2, <2>3, <2>4 DEF BufOf
  <2>6. \A k \in DOMAIN q : Raw(q[k])
    BY <1>1, <1>4
  <2>7. Unplain(q) /\ Owes(Meaning(w.ent, q), w.ent, q, f) /\ WritesThere(w.ent, q, f)
    <3> HIDE DEF q
    <3> QED
      BY <1>2, <2>4, <2>6, RawQueue, StartOwes DEF WritesThere
  <2>8. RawOK(stage', flush')
    BY <1>4, <2>1, <2>3 DEF RawOK
  <2> HIDE DEF q
  <2> QED
    BY <2>1, <2>5, <2>7, <2>8 DEF FlushOK
<1> QED
  BY <1>5, <1>6

LEMMA FinishOrder ==
  ASSUME QueueInv, OrderInv, hooks = HookBudget, FinishBuffer
  PROVE  OrderInv'
<1> DEFINE nb == [Buf EXCEPT !.queue = <<>>]
           st == [stage EXCEPT ![Top.stage].buf[Top.buf].queue = <<>>]
<1>1. Sound(world, stage, flush)
  BY DEF QueueInv
<1>2. flush # <<>> /\ BecomesNext(Swapped(st, Front(flush), world, Top.stage)) /\ world' = world
  BY DEF FinishBuffer
<1>3. /\ flush \in Seq(FrameType) /\ Top.stage \in Stages /\ Top.buf \in 0..1
      /\ Buf \in BufType /\ Buf = stage[Top.stage].buf[Top.buf]
      /\ stage \in [Stages -> StageType]
  BY <1>1, <1>2, TopIs DEF Sound, SoundBut, Typed
<1>4. Len(flush) = 1 /\ Top = flush[1] /\ Tidy(world.ent) /\ world \in WorldType
  BY <1>2, FlushIs
<1>5. Front(flush) = <<>>
  <2>1. Over(flush, Front(flush))
    BY <1>2, <1>3, FrontIs
  <2>2. Front(flush) \in Seq(FrameType) /\ Len(Front(flush)) = 0
    BY <1>4, <2>1 DEF Over
  <2> QED
    BY <2>2, FramesAre
<1>6. nb \in BufType /\ nb.queue = <<>>
  <2>1. Buf \in [queue : {Buf.queue}, entry : {Buf.entry}] /\ Buf.entry \in [Slots -> Entry]
    BY <1>3, BufIs
  <2>2. nb.queue = <<>> /\ nb.entry = Buf.entry /\ nb \in [queue : {nb.queue}, entry : {nb.entry}]
    BY <2>1
  <2>3. nb.queue \in Seq(Cmds)
    BY <2>2, Empty
  <2> HIDE DEF nb
  <2> QED
    BY <2>1, <2>2, <2>3 DEF BufType
<1>7. PutBuf(stage, st, Top.stage, Top.buf, nb)
  <2>1. st = [stage EXCEPT ![Top.stage].buf[Top.buf] = nb]
    BY <1>3
  <2> HIDE DEF nb, st
  <2> QED
    BY <1>3, <1>6, <2>1, PutBufIs
<1> HIDE DEF nb, st
<1>8. ASSUME NEW s \in Stages, NEW b \in 0..1, NEW k \in DOMAIN st[s].buf[b].queue
      PROVE  Raw(st[s].buf[b].queue[k])
  <2>1. ~ (s = Top.stage /\ b = Top.buf)
    BY <1>6, <1>7, <1>8, Empty DEF PutBuf
  <2>2. ~ Flushed(flush, s, b)
    <3>1. DOMAIN flush = {1}
      BY <1>2, <1>3, <1>4, OneFrame
    <3> QED
      BY <1>4, <2>1, <3>1 DEF Flushed
  <2>3. st[s].buf[b] = stage[s].buf[b]
    <3>1. CASE s # Top.stage
      BY <1>7, <3>1 DEF PutBuf, Except
    <3>2. CASE s = Top.stage
      <4>1. b = 1 - Top.buf
        BY <1>3, <2>1, <3>2
      <4> QED
        BY <1>7, <3>2, <4>1 DEF PutBuf
    <3> QED
      BY <3>1, <3>2
  <2> QED
    BY <1>8, <2>2, <2>3 DEF OrderInv, RawOK
<1>9. RawOK(st, <<>>) /\ st \in [Stages -> StageType]
  BY <1>7, <1>8 DEF RawOK, PutBuf, Except
<1>10. BecomesNext(Swapped(st, <<>>, world, Top.stage))
  BY <1>2, <1>5
<1>11. FlushOK(world, stage', flush', want') /\ RawOK(stage', flush')
  BY <1>3, <1>4, <1>9, <1>10, SwapOrder
<1> QED
  BY <1>2, <1>4, <1>11 DEF OrderInv

-----------------------------------------------------------------------------
(* Between flushes.                                                        *)

LEMMA IdleOrder ==
  ASSUME flush' = <<>>, Tidy(world'.ent), RawOK(stage', flush')
  PROVE  OrderInv'
BY DEF OrderInv, FlushOK

LEMMA RawNested ==
  ASSUME NEW st, NEW fl, RawOK(st, fl), NEW v, Nested(st, v)
  PROVE  RawOK(v, fl)
BY DEF RawOK, Nested

LEMMA NewOrder ==
  ASSUME QueueInv, OrderInv, hooks = HookBudget, NEW s \in Slots, New(s)
  PROVE  OrderInv'
<1>1. Born(world, world', s) /\ ~ world.ent[s].alive
  BY NewIs
<1>2. UNCHANGED <<stage, flush>> /\ flush = <<>>
  BY DEF New, Idle
<1>3. Tidy(world.ent) /\ RawOK(stage, flush)
  BY DEF OrderInv
<1>4. Tidy(world'.ent)
  BY <1>1, <1>3 DEF Tidy, Born
<1> QED
  BY <1>2, <1>3, <1>4, IdleOrder

\* What is written to a living entity keeps the dead ones empty.
LEMMA AliveTidy ==
  ASSUME NEW w \in WorldType, NEW v, NEW e \in Entities, Tidy(w.ent), Alive(w.ent, e), SameLife(w, v),
         Others(w, v, e)
  PROVE  Tidy(v.ent)
BY EntityIs DEF Tidy, Alive, SameLife, Others

LEMMA WrittenTidy ==
  ASSUME NEW w \in WorldType, NEW S, NEW o \in Operations(S), Tidy(w.ent), Alive(w.ent, o.ent)
  PROVE  Tidy(WrittenThrough(w, o).ent)
<1> DEFINE v == WrittenThrough(w, o)
           m == MakeValue(w, o.comp)
<1>1. o.ent \in Entities /\ o.comp \in Comps \cup {None} /\ o.arg \in Values \cup {None}
      /\ (o.comp = None) = (o.op \in {"clear", "delete"}) /\ (o.arg = None) = (o.op # "set")
  BY OperationIs
<1>2. CASE o.op # "set"
  BY <1>2 DEF WrittenThrough
<1>3. CASE o.op = "set"
  <2>1. o.comp \in Comps /\ o.arg \in Values
    BY <1>1, <1>3
  <2>2. m \in WorldType /\ m.ent = w.ent
    BY <2>1, MakeValueIs
  <2> HIDE DEF m
  <2>3. CASE o.comp \in Has(w.ent, o.ent)
    <3>1. v = Overwrite(m, o.ent, o.comp, o.arg, TRUE)
      BY <1>3, <2>3 DEF WrittenThrough, m
    <3> HIDE DEF v
    <3>2. Overwritten(m, v, o.ent, o.comp, TRUE)
      BY <1>1, <2>1, <2>2, <3>1, OverwriteIs
    <3>3. Tidy(m.ent) /\ Alive(m.ent, o.ent)
      BY <2>2
    <3>4. Tidy(v.ent)
      BY <1>1, <2>2, <3>2, <3>3, AliveTidy DEF Overwritten
    <3> QED
      BY <3>4 DEF v
  <2>4. CASE o.comp \notin Has(w.ent, o.ent)
    BY <1>3, <2>2, <2>4 DEF WrittenThrough, m
  <2> QED
    BY <2>3, <2>4
<1> QED
  BY <1>2, <1>3

\* Without plain components an operation leaves one command.
LEMMA RecordedRaw ==
  ASSUME NoPlain, NEW ent, NEW o \in AllOps, NEW cmd, cmd.of = o, cmd.kind = CmdKind(ent, o)
  PROVE  Raw(cmd) /\ CmdKind(ent, o) # "Emplace"
<1>1. /\ o.op \in {"add", "remove", "set", "clear", "delete"}
      /\ o.op = "set" => o.comp \in Comps
  <2>1. o.op \in Ops \cup HookOps \cup {"set"} /\ (o.comp = None) = (o.op \in {"clear", "delete"})
        /\ o.comp \in Comps \cup {None}
    BY OperationIs DEF AllOps
  <2> QED
    BY <2>1, ConstantsAssumption
<1>2. o.op = "set" => Kind[o.comp] \in {"trivial", "replace"}
  BY <1>1, Consts DEF NoPlain
<1>3. o.op = "set" => CmdKind(ent, o) \in {"Add", "AddModified", "Set", "Ensure"}
  BY <1>2 DEF CmdKind, SetKind
<1>4. o.op # "set" => CmdKind(ent, o) = CASE o.op = "add" -> "Add" [] o.op = "remove" -> "Remove"
                                          [] o.op = "clear" -> "Clear" [] o.op = "delete" -> "Delete"
  BY <1>1 DEF CmdKind
<1>5. /\ o.op = "add" => CmdKind(ent, o) = "Add"
      /\ o.op = "remove" => CmdKind(ent, o) = "Remove"
      /\ o.op = "clear" => CmdKind(ent, o) = "Clear"
      /\ o.op = "delete" => CmdKind(ent, o) = "Delete"
  BY DEF CmdKind
<1> QED
  BY <1>1, <1>3, <1>5 DEF Raw

LEMMA DeferOrder ==
  ASSUME QueueInv, OrderInv, hooks = HookBudget, NoPlain,
         NEW s \in Stages, NEW o \in Operations(Ops), Defer(s, o)
  PROVE  OrderInv'
<1> DEFINE kind == CmdKind(world.ent, o)
           cmd == Command(kind, o)
           b == stage[s].cmd
           buf == stage[s].buf[b]
           nb == Batched(buf, cmd)
<1>1. Sound(world, stage, flush) /\ world \in WorldType /\ stage \in [Stages -> StageType]
  BY DEF QueueInv, Sound, SoundBut, Typed
<1>2. /\ flush = <<>> /\ flush' = flush /\ Alive(world.ent, o.ent)
      /\ stage' = Recorded(stage, world.ent, s, o) /\ world' = WrittenThrough(world, o)
  BY DEF Defer, Idle
<1>3. o \in AllOps
  BY OperationSub DEF AllOps
<1>4. Tidy(world.ent) /\ RawOK(stage, flush)
  BY DEF OrderInv
<1>5. Tidy(world'.ent)
  BY <1>1, <1>2, <1>4, WrittenTidy
<1>6. cmd \in Cmds /\ cmd.of = o /\ cmd.next = 0 /\ cmd.of.op # "none" /\ cmd.kind = kind
  BY <1>3, CommandIs
<1> HIDE DEF cmd, kind
<1>7. Raw(cmd) /\ kind # "Emplace"
  BY <1>3, <1>6, RecordedRaw DEF kind
<1>8. b \in 0..1 /\ ~ Flushed(flush, s, b) /\ Recordable(world.ent, buf)
  BY <1>1, FillingIs, StageIs DEF Sound
<1>9. Batch2(buf, cmd, nb)
  <2>1. world.ent[cmd.of.ent[1]].gen = cmd.of.ent[2]
    BY <1>2, <1>6 DEF Alive
  <2> QED
    BY <1>6, <1>8, <2>1, BatchedIs
<1>10. stage' = [stage EXCEPT ![s].buf[b] = nb]
  BY <1>2, <1>7 DEF Recorded, Notified, kind, cmd
<1> HIDE DEF nb
<1>11. PutBuf(stage, stage', s, b, nb)
  BY <1>1, <1>8, <1>9, <1>10, PutBufIs DEF Batch2
<1>12. ASSUME NEW k \in DOMAIN nb.queue PROVE Raw(nb.queue[k])
  <2>1. buf \in BufType /\ nb \in BufType
    BY <1>8, <1>9 DEF Recordable, Batch2
  <2>2. Len(buf.queue) \in Nat /\ DOMAIN buf.queue = 1..Len(buf.queue) /\ DOMAIN nb.queue = 1..Len(nb.queue)
    BY <2>1, BufIs
  <2>3. Len(nb.queue) = Len(buf.queue) + 1
    BY <1>9 DEF Batch2
  <2>4. CASE k = Len(nb.queue)
    <3>1. nb.queue[k].kind = cmd.kind /\ nb.queue[k].of = cmd.of
      BY <1>9, <2>4 DEF Batch2
    <3> QED
      BY <1>7, <3>1 DEF Raw
  <2>5. CASE k # Len(nb.queue)
    <3>1. k \in 1..Len(buf.queue)
      BY <1>12, <2>2, <2>3, <2>5
    <3>2. Alike(buf.queue[k], nb.queue[k])
      BY <1>9, <3>1 DEF Batch2
    <3>3. Raw(buf.queue[k])
      BY <1>4, <1>8, <2>2, <3>1 DEF RawOK
    <3> QED
      BY <3>2, <3>3 DEF Raw, Alike
  <2> QED
    BY <2>4, <2>5
<1>13. ASSUME NEW t \in Stages, NEW d \in 0..1, ~ (t = s /\ d = b)
       PROVE  stage'[t].buf[d] = stage[t].buf[d]
  <2>1. CASE t # s
    BY <1>11, <2>1 DEF PutBuf, Except
  <2>2. CASE t = s
    <3>1. d = 1 - b
      BY <1>8, <1>13, <2>2
    <3> QED
      BY <1>11, <2>2, <3>1 DEF PutBuf
  <2> QED
    BY <2>1, <2>2
<1>14. stage'[s].buf[b] = nb
  BY <1>11 DEF PutBuf
<1> HIDE DEF b
<1>15. RawOK(stage', flush')
  BY <1>2, <1>4, <1>12, <1>13, <1>14 DEF RawOK
<1> QED
  BY <1>2, <1>5, <1>15, IdleOrder

LEMMA RunNowOrder ==
  ASSUME QueueInv, OrderInv, hooks = HookBudget, NEW o \in Operations(Ops), RunNow(o)
  PROVE  OrderInv'
<1> DEFINE e == o.ent
           had == Has(world.ent, e)
<1>1. world \in WorldType
  BY DEF QueueInv, Sound, SoundBut, Typed
<1>2. flush' = <<>> /\ stage' = stage /\ flush' = flush /\ Alive(world.ent, e) /\ world' = Direct(world, o)
  BY DEF RunNow, Idle
<1>3. Tidy(world.ent) /\ RawOK(stage, flush)
  BY DEF OrderInv
<1>4. /\ o.op \in {"add", "remove", "set", "clear", "delete"} /\ e \in Entities
      /\ o.op \in {"add", "remove", "set"} => o.comp \in Comps
      /\ o.op = "set" => o.arg \in Values
  BY OperationIs, ConstantsAssumption
<1>5. had \in SUBSET Comps
  BY HasIs
<1> HIDE DEF e, had
<1>6. ASSUME NEW T \in SUBSET Comps, NEW v, v = Commit(world, e, T)
      PROVE  v \in WorldType /\ Tidy(v.ent) /\ Alive(v.ent, e)
  <2>1. Committed(world, v, e, T)
    BY <1>1, <1>4, <1>6, CommitIs
  <2>2. SameLife(world, v) /\ Others(world, v, e)
    BY <2>1 DEF Committed
  <2> QED
    BY <1>1, <1>2, <1>3, <1>4, <2>2, AliveTidy, EntityIs DEF SameLife, Alive
<1>7. CASE o.op = "delete"
  <2>1. world' = Destroy(world, e)
    BY <1>2, <1>7 DEF Direct, e
  <2>2. Others(world, world', e) /\ Has(world'.ent, e) = {}
    BY <1>1, <1>4, <2>1, DestroyIs
  <2>3. Tidy(world'.ent)
    BY <1>3, <1>4, <2>2, HasIs, EntityIs DEF Tidy, Others
  <2> QED
    BY <1>2, <1>3, <2>3, IdleOrder
<1>8. CASE o.op = "add"
  <2>1. world' = Commit(world, e, had \cup {o.comp}) /\ had \cup {o.comp} \in SUBSET Comps
    BY <1>2, <1>4, <1>5, <1>8 DEF Direct, e, had
  <2> QED
    BY <1>2, <1>3, <1>6, <2>1, IdleOrder
<1>9. CASE o.op = "remove"
  <2>1. world' = Commit(world, e, had \ {o.comp}) /\ had \ {o.comp} \in SUBSET Comps
    BY <1>2, <1>5, <1>9 DEF Direct, e, had
  <2> QED
    BY <1>2, <1>3, <1>6, <2>1, IdleOrder
<1>10. CASE o.op = "clear"
  <2>1. world' = Commit(world, e, {})
    BY <1>2, <1>10 DEF Direct, e
  <2> QED
    BY <1>2, <1>3, <1>6, <2>1, IdleOrder
<1>11. CASE o.op = "set"
  <2> DEFINE m == Commit(world, e, had \cup {o.comp})
             n == MakeValue(m, o.comp)
  <2>1. world' = Overwrite(n, e, o.comp, o.arg, TRUE) /\ had \cup {o.comp} \in SUBSET Comps
    BY <1>2, <1>4, <1>5, <1>11 DEF Direct, e, had
  <2>2. m \in WorldType /\ Tidy(m.ent) /\ Alive(m.ent, e)
    BY <1>6, <2>1
  <2> HIDE DEF m
  <2>3. n \in WorldType /\ n.ent = m.ent
    BY <1>4, <1>11, <2>2, MakeValueIs
  <2> HIDE DEF n
  <2>4. Overwritten(n, world', e, o.comp, TRUE)
    BY <1>4, <1>11, <2>1, <2>3, OverwriteIs
  <2>5. Tidy(world'.ent)
    BY <1>4, <2>2, <2>3, <2>4, AliveTidy DEF Overwritten
  <2> QED
    BY <1>2, <1>3, <2>5, IdleOrder
<1> QED
  BY <1>4, <1>7, <1>8, <1>9, <1>10, <1>11

LEMMA EndOrder ==
  ASSUME QueueInv, OrderInv, hooks = HookBudget, flush = <<>>, world' = world,
         NEW s \in Stages, stage[s].defer > 0, DeferEndOf(s)
  PROVE  OrderInv'
<1> DEFINE n == stage[s].defer - 1
           st == [stage EXCEPT ![s].defer = n]
<1>1. stage \in [Stages -> StageType] /\ world \in WorldType
  BY DEF QueueInv, Sound, SoundBut, Typed
<1>2. n \in -MaxDefer .. MaxDefer
  <2>1. stage[s].defer \in -MaxDefer .. MaxDefer /\ MaxDefer \in Nat
    BY <1>1, StageIs, Consts
  <2> QED
    BY <2>1
<1>3. BecomesNext(IF st[s].defer = 0 THEN Ended(st, flush, world, s)
                  ELSE [stage |-> st, flush |-> flush, want |-> want])
  BY DEF DeferEndOf
<1> HIDE DEF n
<1>4. PutDefer(stage, st, s, n)
  BY <1>1, <1>2, PutDeferIs
<1> HIDE DEF st
<1>5. Nested(stage, st)
  BY <1>1, <1>4, PutDeferNested
<1>6. Tidy(world.ent) /\ RawOK(st, <<>>) /\ st \in [Stages -> StageType]
  BY <1>5, RawNested DEF OrderInv, Nested
<1>7. CASE st[s].defer = 0
  <2>1. ~ \E i \in DOMAIN flush : flush[i].stage = s
    BY Empty
  <2>2. BecomesNext(Swapped(st, <<>>, world, s))
    BY <1>3, <1>7, <2>1 DEF Ended
  <2>3. FlushOK(world, stage', flush', want') /\ RawOK(stage', flush')
    BY <1>1, <1>6, <2>2, SwapOrder
  <2> QED
    BY <1>6, <2>3 DEF OrderInv
<1>8. CASE st[s].defer # 0
  <2>1. stage' = st /\ flush' = <<>>
    BY <1>3, <1>8 DEF BecomesNext
  <2> QED
    BY <1>6, <2>1, IdleOrder
<1> QED
  BY <1>7, <1>8

LEMMA MergeOrder ==
  ASSUME QueueInv, OrderInv, hooks = HookBudget, MergeStage
  PROVE  OrderInv'
<1> DEFINE s == Head(merging)
<1>1. DeferOK
  BY DEF QueueInv
<1>2. flush = <<>> /\ merging # <<>> /\ DeferEndOf(s) /\ world' = world
  BY DEF MergeStage
<1>3. merging \in Seq(Stages) /\ IsInjective(merging) /\ ~ readonly
  BY <1>1, <1>2 DEF DeferOK, Idle
<1>4. s \in Stages /\ s \in ToSet(merging)
  BY <1>2, <1>3, TailIs
<1> HIDE DEF s
<1>5. stage[s].defer = 1
  BY <1>1, <1>2, <1>3, <1>4 DEF DeferOK, Idle
<1>6. stage[s].defer > 0
  BY <1>5
<1> QED
  BY <1>2, <1>4, <1>6, EndOrder

LEMMA InitOrder ==
  ASSUME Init
  PROVE  OrderInv
<1>1. Tidy(world.ent)
  BY DEF Init, NoEntities, Tidy
<1>2. \A s \in Stages, b \in 0..1 : stage[s].buf[b].queue = <<>>
  BY DEF Init, EmptyBuffer
<1>3. RawOK(stage, flush)
  BY <1>2, Empty DEF RawOK
<1> QED
  BY <1>1, <1>3 DEF Init, OrderInv, FlushOK

\* The observers do not get back what they have spent.
LEMMA HooksFall ==
  ASSUME hooks \in 0..HookBudget, [Next]_vars, hooks' = HookBudget
  PROVE  hooks = HookBudget
<1>1. HookBudget \in Nat
  BY Consts
<1>2. ~ (hooks > 0 /\ hooks' = hooks - 1)
  BY <1>1
<1>3. ASSUME NEW st, NEW fl, NEW w, NEW e, NEW events, Observers(st, fl, w, e, events) PROVE hooks' = hooks
  BY <1>2, <1>3 DEF Observers
<1>4. ASSUME CommitBatch PROVE hooks' = hooks
  BY <1>3, <1>4 DEF CommitBatch
<1>5. ASSUME MoveValues PROVE hooks' = hooks
  BY <1>3, <1>5 DEF MoveValues
<1>6. ASSUME ExecuteCmd PROVE hooks' = hooks
  BY <1>3, <1>6 DEF ExecuteCmd
<1>7. ASSUME EnsureCmd PROVE hooks' = hooks
  BY <1>3, <1>7 DEF EnsureCmd
<1>8. ASSUME \/ \E s \in Slots : New(s)
             \/ \E s \in Stages, o \in Operations(Ops) : Defer(s, o)
             \/ \E o \in Operations(Ops) : RunNow(o)
             \/ DeferBegin \/ DeferEnd \/ Suspend \/ Resume
             \/ ReadonlyBegin \/ ReadonlyEnd \/ MergeStage
             \/ DiscardCmd \/ WriteCmd \/ FinishBuffer \/ UNCHANGED vars
      PROVE  hooks' = hooks
  BY <1>8 DEF New, Defer, RunNow, DeferBegin, DeferEnd, Suspend, Resume, ReadonlyBegin, ReadonlyEnd, MergeStage,
              DiscardCmd, WriteCmd, FinishBuffer, vars
<1> QED
  BY <1>4, <1>5, <1>6, <1>7, <1>8 DEF Next

LEMMA OrderStep ==
  ASSUME NoPlain, QueueInv, WriteInv, OrderInv, [Next]_vars
  PROVE  OrderInv'
<1>1. SUFFICES ASSUME hooks' = HookBudget PROVE OrderInv'
  BY DEF OrderInv
<1>2. hooks = HookBudget
  BY <1>1, HooksFall DEF QueueInv
<1>3. ASSUME UNCHANGED <<world, flush>>, Nested(stage, stage'), flush = <<>> PROVE OrderInv'
  BY <1>2, <1>3, RawNested, IdleOrder DEF OrderInv
<1>4. stage \in [Stages -> StageType] /\ DeferOK
  BY DEF QueueInv, Sound, SoundBut, Typed
<1>5. ASSUME NEW s \in Slots, New(s) PROVE OrderInv'
  BY <1>2, <1>5, NewOrder
<1>6. ASSUME NEW s \in Stages, NEW o \in Operations(Ops), Defer(s, o) PROVE OrderInv'
  BY <1>2, <1>6, DeferOrder
<1>7. ASSUME NEW o \in Operations(Ops), RunNow(o) PROVE OrderInv'
  BY <1>2, <1>7, RunNowOrder
<1>8. CASE DeferBegin \/ Suspend \/ Resume
  <2>1. flush = <<>>
    BY <1>8 DEF DeferBegin, Suspend, Resume, Idle
  <2> QED
    BY <1>3, <1>8, <2>1, NestIs
<1>9. CASE DeferEnd
  <2>1. Main \in Stages /\ flush = <<>> /\ world' = world /\ stage[Main].defer > 0 /\ DeferEndOf(Main)
    BY <1>9, Consts DEF DeferEnd, Idle
  <2> QED
    BY <1>2, <2>1, EndOrder
<1>10. CASE ReadonlyBegin
  <2>1. flush = <<>>
    BY <1>10 DEF ReadonlyBegin, Idle
  <2> QED
    BY <1>3, <1>10, <2>1, ReadonlyBeginIs
<1>11. CASE ReadonlyEnd
  <2>1. flush = <<>> /\ UNCHANGED <<world, stage, flush>>
    BY <1>11 DEF ReadonlyEnd, Idle
  <2> QED
    BY <1>3, <1>4, <2>1 DEF Nested
<1>12. CASE MergeStage
  BY <1>2, <1>12, MergeOrder
<1>13. CASE CommitBatch
  BY <1>1, <1>2, <1>13, CommitBatchOrder
<1>14. CASE MoveValues
  BY <1>1, <1>2, <1>14, MoveValuesOrder
<1>15. CASE DiscardCmd
  BY <1>2, <1>15, DiscardOrder
<1>16. CASE ExecuteCmd
  BY <1>1, <1>2, <1>16, ExecuteOrder
<1>17. CASE EnsureCmd
  BY <1>1, <1>2, <1>17, EnsureOrder
<1>18. CASE WriteCmd
  BY <1>2, <1>18, WriteOrder
<1>19. CASE FinishBuffer
  BY <1>2, <1>19, FinishOrder
<1>20. CASE UNCHANGED vars
  <2>1. UNCHANGED <<world, stage, flush, hooks, want>>
    BY <1>20 DEF vars
  <2> QED
    BY <2>1 DEF OrderInv, Tidy, RawOK, FlushOK, Flushed, BufOf
<1> QED
  BY <1>5, <1>6, <1>7, <1>8, <1>9, <1>10, <1>11, <1>12, <1>13, <1>14, <1>15, <1>16, <1>17, <1>18,
     <1>19, <1>20 DEF Next

LEMMA OrderAtEnd ==
  ASSUME QueueInv, OrderInv
  PROVE  StructureInOrder
<1>1. SUFFICES ASSUME JustFlushed, NEW s \in Slots
               PROVE  /\ want[s].alive = world.ent[s].alive
                      /\ \A c \in Comps : want[s].val[c] = None <=> world.ent[s].val[c] = None
  BY DEF StructureInOrder
<1>2. flush # <<>> /\ Top.pos > Len(Buf.queue) /\ hooks = HookBudget
  BY <1>1 DEF JustFlushed
<1>3. /\ Owes(want, world.ent, Buf.queue, Top) /\ Tidy(world.ent) /\ Buf.queue \in Seq(Cmds)
      /\ world \in WorldType
  BY <1>2, FlushIs
<1>4. Top.pos \in Nat
  BY <1>2, TopIs DEF QueueInv
<1>5. Live(world.ent, Buf.queue, Top, s) = {}
  BY <1>2, <1>3, <1>4, LenProperties DEF Live
<1>6. OwesAt(want, world.ent, Buf.queue, Top, s)
  BY <1>3 DEF Owes
<1>7. /\ Deletes(world.ent, Buf.queue, Top, s) = {}
      /\ \A c \in Comps : /\ Gets(world.ent, Buf.queue, Top, s, c) = {}
                         /\ Loses(world.ent, Buf.queue, Top, s, c) = {}
  BY <1>5 DEF Deletes, Gets, Loses
<1>8. want[s].alive = world.ent[s].alive
  BY <1>3, <1>6, <1>7, WorldIs DEF OwesAt
<1>9. ASSUME NEW c \in Comps PROVE want[s].val[c] = None <=> world.ent[s].val[c] = None
  <2>1. CASE want[s].alive
    BY <1>6, <1>7, <2>1 DEF OwesAt, Remains
  <2>2. CASE ~ want[s].alive
    BY <1>3, <1>6, <1>8, <2>2 DEF OwesAt, Tidy
  <2> QED
    BY <2>1, <2>2
<1> QED
  BY <1>8, <1>9

\* If no component is emplaced, a flush that no observer steps into leaves the
\* entities alive or dead, and with the components, as the commands of the
\* buffer would one after the other (flecs_cmd_batch_for_entity).
THEOREM StructureStaysInOrder == NoPlain => (Spec => []StructureInOrder)
<1>1. SUFFICES ASSUME NoPlain PROVE Spec => []StructureInOrder
  OBVIOUS
<1>2. Init => OrderInv
  BY InitOrder
<1>3. QueueInv /\ WriteInv /\ OrderInv /\ [Next]_vars => OrderInv'
  BY <1>1, OrderStep
<1>4. QueueInv /\ OrderInv => StructureInOrder
  BY OrderAtEnd
<1> QED
  BY <1>2, <1>3, <1>4, QueuesStayInOrder, PTL DEF Spec

-----------------------------------------------------------------------------
(* The values that a flush leaves.                                         *)

\* One stage, and nothing is executed while commands wait: what is written to
\* the storage when a command is recorded comes after what waits.
Alone == Stages = {Main} /\ ~ Suspends

\* The commands ahead of f that give component c of the entity of slot sl a value.
Carries(ent, q, f, sl, c) == {k \in Live(ent, q, f, sl) : q[k].kind \in {"Set", "Ensure"} /\ q[k].of.comp = c}

\* The commands ahead of f that are of the entity of slot sl will be batched.
Whole(ent, q, f, sl) ==
  \E h \in Live(ent, q, f, sl) : /\ q[h].next < 0 /\ (h = f.pos => f.step = "batch")
                                 /\ \A k \in Live(ent, q, f, sl) : h <= k

\* Component c of slot sl has the value of x, or the last command ahead of f
\* that is about it has.
LastAt(x, ent, q, f, sl, c) ==
  LET S == Carries(ent, q, f, sl, c)
      L == Loses(ent, q, f, sl, c) IN
  x[sl].val[c] \in Values =>
    /\ S = {} => ent[sl].val[c] = x[sl].val[c]
    /\ S # {} => \E k \in S : q[k].val = x[sl].val[c] /\ \A j \in S \cup L : j <= k
    /\ L # {} => Whole(ent, q, f, sl)
    /\ f.step = "moves" /\ f.pos \in Live(ent, q, f, sl) => ent[sl].val[c] # None

\* A step with a command of e concerns no other entity.
LEMMA LastOther ==
  ASSUME NEW x, NEW ent, NEW q, NEW f, NEW sl, NEW c, LastAt(x, ent, q, f, sl, c), NEW ent2, NEW q2, NEW f2,
         NEW e, DOMAIN q \subseteq Nat, DOMAIN q2 = DOMAIN q, f.pos \in DOMAIN q, q[f.pos].of.ent = e,
         ~ Of(ent, sl, q[f.pos]), f2.pos = f.pos \/ (f2.pos = f.pos + 1 /\ f2.step = "batch"),
         \A k \in DOMAIN q : q2[k].of = q[k].of /\ (q[k].of.ent # e => q2[k] = q[k]),
         ent2[sl] = ent[sl]
  PROVE  LastAt(x, ent2, q2, f2, sl, c)
<1>1. ASSUME NEW k \in DOMAIN q, Of(ent, sl, q[k]) \/ Of(ent2, sl, q2[k])
      PROVE  /\ Of(ent, sl, q[k]) /\ Of(ent2, sl, q2[k]) /\ q[k].of.ent # e /\ q2[k] = q[k]
             /\ k # f.pos
  BY <1>1 DEF Of
<1>2. \A k \in DOMAIN q : k # f.pos => (k >= f.pos <=> k >= f2.pos)
  OBVIOUS
<1> DEFINE M == Live(ent, q, f, sl)
<1>3. Live(ent2, q2, f2, sl) = M
  BY <1>1, <1>2 DEF Live
<1>4. \A k \in M : q2[k] = q[k] /\ k # f.pos
  BY <1>1 DEF Live
<1>5. Carries(ent2, q2, f2, sl, c) = Carries(ent, q, f, sl, c) /\ Loses(ent2, q2, f2, sl, c) = Loses(ent, q, f, sl, c)
  BY <1>3, <1>4 DEF Carries, Loses, Removes
<1>6. f2.pos \in M => f2.step = "batch"
  BY <1>4
<1>7. Whole(ent, q, f, sl) => Whole(ent2, q2, f2, sl)
  BY <1>3, <1>4, <1>6 DEF Whole
<1>8. \A k \in Carries(ent, q, f, sl, c) : q2[k].val = q[k].val
  BY <1>4 DEF Carries
<1> HIDE DEF M
<1> QED
  BY <1>3, <1>5, <1>6, <1>7, <1>8 DEF LastAt

\* At a command of its own that is not batched, no removal of a value that is
\* wanted is ahead.
LEMMA LastAlone ==
  ASSUME NEW x, NEW ent, NEW q, NEW f, NEW sl, NEW c, LastAt(x, ent, q, f, sl, c), x[sl].val[c] \in Values,
         DOMAIN q \subseteq Nat, f.pos \in DOMAIN q, Of(ent, sl, q[f.pos]), f.step = "batch" => ~ (q[f.pos].next < 0)
  PROVE  /\ Loses(ent, q, f, sl, c) = {} /\ f.pos \in Live(ent, q, f, sl)
         /\ \A k \in Live(ent, q, f, sl) : k \in Nat /\ k >= f.pos
<1> DEFINE M == Live(ent, q, f, sl)
<1>1. f.pos \in M /\ \A k \in M : k \in Nat /\ k >= f.pos
  BY DEF Live
<1>2. ~ Whole(ent, q, f, sl)
  <2>1. SUFFICES ASSUME NEW h \in M, q[h].next < 0, h = f.pos => f.step = "batch", h <= f.pos
                 PROVE  FALSE
    BY <1>1 DEF Whole
  <2>2. h = f.pos
    BY <1>1, <2>1
  <2> QED
    BY <2>1, <2>2
<1> QED
  BY <1>1, <1>2 DEF LastAt

\* A command of the entity is passed.
LEMMA LastOwn ==
  ASSUME NEW x, NEW ent, NEW q, NEW f, NEW sl, NEW c, LastAt(x, ent, q, f, sl, c), NEW ent2, NEW f2,
         DOMAIN q \subseteq Nat, f.pos \in DOMAIN q, Of(ent, sl, q[f.pos]), f.step = "batch" => ~ (q[f.pos].next < 0),
         f2.pos = f.pos + 1, f2.step = "batch", ent2[sl].gen = ent[sl].gen,
         IF q[f.pos].kind \in {"Set", "Ensure"} /\ q[f.pos].of.comp = c THEN ent2[sl].val[c] = q[f.pos].val
         ELSE ent[sl].val[c] \in Values /\ ~ Removes(q, f.pos, c) => ent2[sl].val[c] = ent[sl].val[c]
  PROVE  LastAt(x, ent2, q, f2, sl, c)
<1>1. SUFFICES ASSUME x[sl].val[c] \in Values PROVE LastAt(x, ent2, q, f2, sl, c)
  BY DEF LastAt
<1> DEFINE p == f.pos
           M == Live(ent, q, f, sl)
           S == Carries(ent, q, f, sl, c)
           T == Carries(ent2, q, f2, sl, c)
           L == Loses(ent2, q, f2, sl, c)
<1>2. /\ Loses(ent, q, f, sl, c) = {} /\ p \in M /\ \A k \in M : k \in Nat /\ k >= p
  BY <1>1, LastAlone
<1>3. Live(ent2, q, f2, sl) = M \ {p}
  BY DEF Live, Of
<1>4. T = S \ {p} /\ L = {}
  BY <1>2, <1>3 DEF Carries, Loses
<1>5. ~ Removes(q, p, c)
  BY <1>2 DEF Loses
<1>6. p \in S <=> q[p].kind \in {"Set", "Ensure"} /\ q[p].of.comp = c
  BY <1>2 DEF Carries
<1>7. S \subseteq M
  BY DEF Carries
<1>8. CASE S = {}
  <2>1. ent[sl].val[c] = x[sl].val[c]
    BY <1>1, <1>8 DEF LastAt
  <2>2. ent2[sl].val[c] = x[sl].val[c]
    BY <1>1, <1>5, <1>6, <1>8, <2>1
  <2> HIDE DEF S, T, L, M
  <2> QED
    BY <1>4, <1>8, <2>2 DEF LastAt, T, L
<1>9. CASE S # {}
  <2>1. PICK k \in S : q[k].val = x[sl].val[c] /\ \A j \in S : j <= k
    BY <1>1, <1>9 DEF LastAt
  <2>2. CASE T = {}
    <3>1. k = p
      BY <1>4, <2>2
    <3>2. ent2[sl].val[c] = x[sl].val[c]
      BY <1>6, <2>1, <3>1
    <3> HIDE DEF S, T, L, M
    <3> QED
      BY <1>4, <2>2, <3>2 DEF LastAt, T, L
  <2>3. CASE T # {}
    <3>1. PICK j \in T : TRUE
      BY <2>3
    <3>2. j \in S /\ j # p /\ j >= p /\ j <= k /\ j \in Nat /\ k \in Nat /\ p \in Nat
      BY <1>2, <1>4, <1>7, <2>1, <3>1
    <3>3. k # p
      BY <3>2
    <3>4. k \in T
      BY <1>4, <3>3
    <3> HIDE DEF S, T, L, M
    <3>5. \E i \in T : q[i].val = x[sl].val[c] /\ \A m \in T \cup L : m <= i
      BY <1>4, <2>1, <3>4
    <3> QED
      BY <1>4, <2>3, <3>5 DEF LastAt, T, L
  <2> QED
    BY <2>2, <2>3
<1> QED
  BY <1>8, <1>9

\* The component of the command is added, the command still ahead.
LEMMA LastEnsured ==
  ASSUME NEW x, NEW ent, NEW q, NEW f, NEW sl, NEW c, LastAt(x, ent, q, f, sl, c), NEW ent2, NEW f2,
         DOMAIN q \subseteq Nat, f.pos \in DOMAIN q, Of(ent, sl, q[f.pos]), f.step = "batch" => ~ (q[f.pos].next < 0),
         f2.pos = f.pos, f2.step = "write", ent2[sl].gen = ent[sl].gen,
         q[f.pos].kind \in {"Set", "Ensure"},
         q[f.pos].of.comp # c /\ ent[sl].val[c] \in Values => ent2[sl].val[c] = ent[sl].val[c]
  PROVE  LastAt(x, ent2, q, f2, sl, c)
<1>1. SUFFICES ASSUME x[sl].val[c] \in Values PROVE LastAt(x, ent2, q, f2, sl, c)
  BY DEF LastAt
<1> DEFINE M == Live(ent, q, f, sl)
           S == Carries(ent, q, f, sl, c)
<1>2. Loses(ent, q, f, sl, c) = {} /\ f.pos \in M
  BY <1>1, LastAlone
<1>3. Live(ent2, q, f2, sl) = M
  BY DEF Live, Of
<1>4. Carries(ent2, q, f2, sl, c) = S /\ Loses(ent2, q, f2, sl, c) = {}
  BY <1>2, <1>3 DEF Carries, Loses
<1>5. S = {} => ent2[sl].val[c] = x[sl].val[c]
  <2>1. SUFFICES ASSUME S = {} PROVE ent2[sl].val[c] = x[sl].val[c]
    OBVIOUS
  <2>2. q[f.pos].of.comp # c
    BY <1>2, <2>1 DEF Carries
  <2>3. ent[sl].val[c] = x[sl].val[c]
    BY <1>1, <2>1 DEF LastAt
  <2> QED
    BY <1>1, <2>2, <2>3
<1>6. S # {} => \E k \in S : q[k].val = x[sl].val[c] /\ \A j \in S : j <= k
  BY <1>1 DEF LastAt
<1> HIDE DEF S, M
<1> QED
  BY <1>4, <1>5, <1>6 DEF LastAt

\* The values that a move keeps, adds and takes away.
LEMMA CommitVal ==
  ASSUME NEW w \in WorldType, NEW e \in Entities, NEW T \in SUBSET Comps, NEW c \in Comps, NEW R, NEW A,
         NEW v, v = Emit(MoveTo(w, e, T), e, R, A)
  PROVE  v.ent[e[1]].val[c] = IF c \notin T THEN None
                              ELSE IF c \in Has(w.ent, e) THEN w.ent[e[1]].val[c] ELSE Default
<1> DEFINE had == Has(w.ent, e)
           m == MoveTo(w, e, T)
           val == [d \in Comps |-> IF d \notin T THEN None ELSE IF d \in had THEN w.ent[e[1]].val[d] ELSE Default]
           n == w.held + (Droppable(T \ had) - Droppable(had \ T))
<1>1. e[1] \in Slots /\ w.held \in Int /\ had \in SUBSET Comps
  BY EntityIs, WorldIs, HasIs
<1>2. T \ had \in SUBSET Comps /\ had \ T \in SUBSET Comps
  BY <1>1
<1>3. Droppable(T \ had) \in Nat /\ Droppable(had \ T) \in Nat
  BY <1>2, DroppableIs
<1>4. n \in Int
  BY <1>1, <1>3
<1>5. m = WithVal(w, e, val, n)
  BY <1>1, <1>3, WorldIs DEF MoveTo, WithVal
<1>6. val \in [Comps -> Vals]
  BY <1>1, WorldIs DEF Vals
<1>7. m \in WorldType /\ m.ent[e[1]].val = val
  <2> HIDE DEF val, n, m
  <2> QED
    BY <1>4, <1>5, <1>6, WithValIs
<1>8. v.ent = m.ent
  <2> DEFINE B == (m.belief[e[1]] \ R) \cup (A \cap Has(m.ent, e))
  <2> HIDE DEF m
  <2>1. v = [m EXCEPT !.belief[e[1]] = B]
    BY <1>7, WorldIs DEF Emit, m
  <2> HIDE DEF B
  <2> QED
    BY <1>7, <2>1, WorldIs
<1> QED
  BY <1>7, <1>8

LEMMA OverwriteVal ==
  ASSUME NEW w \in WorldType, NEW e \in Entities, NEW c \in Comps, NEW x \in Values, NEW dropped \in BOOLEAN
  PROVE  \A d \in Comps : Overwrite(w, e, c, x, dropped).ent[e[1]].val[d] = IF d = c THEN x ELSE w.ent[e[1]].val[d]
<1> DEFINE val == [w.ent[e[1]].val EXCEPT ![c] = x]
           n == w.held - (IF dropped THEN Droppable({c}) ELSE 0)
           v == Overwrite(w, e, c, x, dropped)
<1>1. e[1] \in Slots /\ w.held \in Int /\ w.ent[e[1]].val \in [Comps -> Vals] /\ Droppable({c}) \in Nat
  BY EntityIs, WorldIs, DroppableIs
<1>2. val \in [Comps -> Vals] /\ \A d \in Comps : val[d] = IF d = c THEN x ELSE w.ent[e[1]].val[d]
  BY <1>1 DEF Vals
<1>3. n \in Int
  BY <1>1
<1>4. v = WithVal(w, e, val, n)
  BY <1>1, WorldIs DEF Overwrite, WithVal
<1> HIDE DEF val, n, v
<1>5. v.ent[e[1]].val = val
  BY <1>2, <1>3, <1>4, WithValIs
<1> QED
  BY <1>2, <1>5 DEF v

\* The component is kept by the batch or added, whatever it is set to.
LEMMA BatchLast ==
  ASSUME NEW x, NEW ent, NEW q, NEW f, NEW sl, NEW c \in Comps, LastAt(x, ent, q, f, sl, c), Running(q, f),
         Of(ent, sl, q[f.pos]), Deletes(ent, q, f, sl) = {},
         NEW g, g.pos = f.pos, g.step = "moves", NEW ent2, ent2[sl].gen = ent[sl].gen,
         OwesAt(x, ent2, AfterFirst(q, Chain(q, f.pos)), g, sl), x[sl].alive,
         ent2[sl].val[c] = None \/ ent[sl].val[c] = None \/ ent2[sl].val[c] = ent[sl].val[c]
  PROVE  LastAt(x, ent2, AfterFirst(q, Chain(q, f.pos)), g, sl, c)
<1> DEFINE ch == Chain(q, f.pos)
           q2 == AfterFirst(q, ch)
           M == Live(ent, q, f, sl)
           S == Carries(ent, q, f, sl, c)
<1>1. SUFFICES ASSUME x[sl].val[c] \in Values PROVE LastAt(x, ent2, q2, g, sl, c)
  BY DEF LastAt
<1>2. q \in Seq(Cmds) /\ f.pos \in DOMAIN q /\ DOMAIN q2 = DOMAIN q
  BY DEF Running, AfterFirst
<1>3. \A k \in DOMAIN q :
        /\ q2[k].of = q[k].of
        /\ q[k].kind \in {"Set", "Ensure"} <=> q2[k].kind \in {"Set", "Ensure"}
        /\ k \in ToSet(ch) => q2[k].kind \notin {"Add", "AddModified", "Remove", "Clear"}
  BY <1>2, FirstKinds
<1>4. \A k \in DOMAIN q : q2[k].val = q[k].val
  <2> SUFFICES ASSUME NEW k \in DOMAIN q PROVE q2[k].val = q[k].val
    OBVIOUS
  <2>1. q[k] \in Cmds
    BY <1>2, ElementOfSeq, LenProperties
  <2>2. [q[k] EXCEPT !.kind = FirstPass(q[k].kind)].val = q[k].val
    BY <2>1, CmdIs
  <2> QED
    BY <2>2 DEF AfterFirst
<1>5. \A k \in M : k \in ToSet(ch)
  BY ChainAll
<1> HIDE DEF q2
<1>6. Live(ent2, q2, g, sl) = M
  BY <1>2, <1>3 DEF Live, Of
<1>7. M \subseteq DOMAIN q /\ \A k \in M : q[k].of.ent = q[f.pos].of.ent
  <2>1. Rest(q, f.pos) = M
    BY RestIs
  <2> QED
    BY <2>1 DEF Rest, Live
<1> HIDE DEF M, ch
<1>8. Loses(ent2, q2, g, sl, c) = {} /\ Gets(ent2, q2, g, sl, c) = {}
  <2>1. ASSUME NEW k \in M PROVE ~ Removes(q2, k, c) /\ (Adds(q2, k, c) => Used(q2, g, k))
    <3>1. q2[k].kind \notin {"Add", "AddModified", "Remove", "Clear"} /\ q2[k].of.ent = q2[g.pos].of.ent
      BY <1>2, <1>3, <1>5, <1>7
    <3> QED
      BY <3>1 DEF Removes, Adds, Used
  <2> QED
    BY <1>6, <2>1 DEF Loses, Gets
<1>9. Carries(ent2, q2, g, sl, c) = S
  <2>1. \A k \in M : q2[k].kind \in {"Set", "Ensure"} /\ q2[k].of.comp = c
                       <=> q[k].kind \in {"Set", "Ensure"} /\ q[k].of.comp = c
    BY <1>3, <1>7
  <2> QED
    BY <1>6, <2>1 DEF Carries, M
<1>10. ent2[sl].val[c] # None
  <2>1. x[sl].val[c] # None
    BY <1>1, Consts
  <2> QED
    BY <1>8, <2>1 DEF OwesAt, Remains, q2, ch
<1>11. S = {} => ent2[sl].val[c] = x[sl].val[c]
  <2>1. S = {} => ent[sl].val[c] = x[sl].val[c]
    BY <1>1 DEF LastAt
  <2> QED
    BY <1>1, <1>10, <2>1, Consts
<1>12. S # {} => \E k \in S : q2[k].val = x[sl].val[c] /\ \A j \in S : j <= k
  <2>1. S # {} => \E k \in S : q[k].val = x[sl].val[c] /\ \A j \in S : j <= k
    BY <1>1 DEF LastAt
  <2>2. S \subseteq DOMAIN q
    BY <1>7 DEF Carries, M
  <2> QED
    BY <1>4, <2>1, <2>2
<1> HIDE DEF S
<1> QED
  BY <1>8, <1>9, <1>10, <1>11, <1>12 DEF LastAt

\* The commands whose values the second pass moves to component c.
MovedInto(q, ch, had, c) ==
  {k \in DOMAIN q : /\ k \in ToSet(ch) /\ q[k].kind \in {"Set", "Ensure"}
                    /\ q[k].of.comp \in had /\ q[k].of.comp = c}

\* What the moves of the values leave of a position.
MovedAcross(x, ent, q, f, sl, c, g, ent2, had, q2) ==
  /\ c \in Comps /\ LastAt(x, ent, q, f, sl, c) /\ Running(q, f)
  /\ Of(ent, sl, q[f.pos]) /\ Deletes(ent, q, f, sl) = {} /\ f.step = "moves" /\ ent[sl].val[c] \in Vals
  /\ g.pos = f.pos /\ g.step = "exec" /\ ent2[sl].gen = ent[sl].gen
  /\ c \in had <=> ent[sl].val[c] # None
  /\ DOMAIN q2 = DOMAIN q
  /\ \A k \in DOMAIN q : /\ q2[k].of = q[k].of
                         /\ q2[k].kind = q[k].kind \/ q2[k].kind \in {"Modified", "Skip"}
                         /\ k \in ToSet(Chain(q, f.pos)) /\ q[k].kind \in {"Set", "Ensure"}
                              => q2[k].kind \in {"Modified", "Skip"}
  /\ LET I == MovedInto(q, Chain(q, f.pos), had, c) IN
     ent2[sl].val[c] = IF I = {} THEN ent[sl].val[c] ELSE q[Max(I)].val

\* The values of the chain are moved to where they belong.
LEMMA MovesLast ==
  ASSUME NEW x, NEW ent, NEW q, NEW f, NEW sl, NEW c, NEW g, NEW ent2, NEW had, NEW q2,
         MovedAcross(x, ent, q, f, sl, c, g, ent2, had, q2)
  PROVE  LastAt(x, ent2, q2, g, sl, c)
<1> DEFINE ch == Chain(q, f.pos)
           I == MovedInto(q, ch, had, c)
           M == Live(ent, q, f, sl)
           S == Carries(ent, q, f, sl, c)
<1> USE DEF MovedAcross
<1>1. SUFFICES ASSUME x[sl].val[c] \in Values PROVE LastAt(x, ent2, q2, g, sl, c)
  BY DEF LastAt
<1>2. q \in Seq(Cmds) /\ f.pos \in DOMAIN q /\ DOMAIN q = 1..Len(q) /\ Len(q) \in Nat
  BY LenProperties DEF Running
<1>3. Loses(ent, q, f, sl, c) = {} /\ f.pos \in M
  <2>1. f.step # "batch" /\ DOMAIN q \subseteq Nat
    BY <1>2
  <2> QED
    BY <1>1, <1>2, <2>1, LastAlone
<1>4. c \in had
  BY <1>1, <1>3 DEF LastAt
<1>5. Live(ent2, q2, g, sl) = M
  BY <1>2 DEF Live, Of
<1>6. (\A k \in M : k \in ToSet(ch)) /\ M \subseteq DOMAIN q
  BY ChainAll DEF Live
<1>7. \A k \in ToSet(ch) : k \in M
  <2>1. Rest(q, f.pos) = M /\ ChainOf(q, f.pos, ch)
    BY RestIs
  <2> HIDE DEF ch, M
  <2>2. ASSUME NEW k \in ToSet(ch) PROVE k \in Rest(q, f.pos)
    <3>1. PICK a \in DOMAIN ch : ch[a] = k
      BY DEF ToSet
    <3> QED
      BY <2>1, <3>1 DEF ChainOf
  <2> QED
    BY <2>1, <2>2
<1>8. I = S
  BY <1>4, <1>6, <1>7 DEF Carries, MovedInto
<1>9. Carries(ent2, q2, g, sl, c) = {}
  <2>1. \A k \in M : q2[k].kind \notin {"Set", "Ensure"}
    BY <1>6
  <2> QED
    BY <1>5, <2>1 DEF Carries
<1>10. Loses(ent2, q2, g, sl, c) = {}
  <2>1. \A k \in M : Removes(q2, k, c) => Removes(q, k, c)
    BY <1>6 DEF Removes
  <2> QED
    BY <1>3, <1>5, <2>1 DEF Loses
<1>11. ent2[sl].val[c] = x[sl].val[c]
  <2>1. ent2[sl].val[c] = IF S = {} THEN ent[sl].val[c] ELSE q[Max(S)].val
    BY <1>8
  <2>2. CASE S = {}
    BY <1>1, <2>1, <2>2 DEF LastAt
  <2>3. CASE S # {}
    <3>1. PICK k \in S : q[k].val = x[sl].val[c] /\ \A j \in S : j <= k
      BY <1>1, <2>3 DEF LastAt
    <3>2. S \in SUBSET (1..Len(q))
      BY <1>2, <1>6 DEF Carries
    <3> HIDE DEF S
    <3>3. Max(S) \in S /\ Max(S) >= k
      BY <1>2, <2>3, <3>2, MaxIs
    <3>4. Max(S) = k
      BY <3>1, <3>2, <3>3
    <3> QED
      BY <2>1, <2>3, <3>1, <3>4
  <2> QED
    BY <2>2, <2>3
<1> QED
  BY <1>9, <1>10, <1>11 DEF LastAt

-----------------------------------------------------------------------------
(* A flush to which no observer adds anything, and its values.             *)

SetOf(cmd, e, c) == cmd.of.op = "set" /\ cmd.of.ent = e /\ cmd.of.comp = c

\* What was set waits in the commands if the component is missing, and is in
\* the storage if it is there.
Through(ent, q) ==
  \A k \in DOMAIN q :
    LET o == q[k].of IN
    /\ Alive(ent, o.ent)
    /\ o.op # "set" => q[k].kind \notin {"Set", "Ensure"}
    /\ o.op = "set" =>
         IF ent[o.ent[1]].val[o.comp] = None
         THEN q[k].kind \in {"Set", "Ensure"} /\ q[k].val = o.arg
         ELSE /\ q[k].kind \notin {"Set", "Ensure"}
              /\ (\A j \in DOMAIN q : SetOf(q[j], o.ent, o.comp) => j <= k)
                   => ent[o.ent[1]].val[o.comp] = o.arg

IdleLast(w, st, fl) == fl = <<>> => \A s \in Stages, b \in 0..1 : Through(w.ent, st[s].buf[b].queue)

\* The buffer that is filled meanwhile stays empty.
FlushLast(w, st, fl, x) ==
  fl # <<>> => /\ st[fl[1].stage].buf[1 - fl[1].buf].queue = <<>>
               /\ \A sl \in Slots, c \in Comps : LastAt(x, w.ent, BufOf(st, fl[1]).queue, fl[1], sl, c)

LastInv ==
  hooks = HookBudget => /\ stage[Main].defer >= 0
                        /\ IdleLast(world, stage, flush) /\ FlushLast(world, stage, flush, want)

\* What a flush must have after its step, at position pos of q.
Keeps(w, q, pos, step) ==
  \A g : g.pos = pos /\ g.step = step => \A sl \in Slots, c \in Comps : LastAt(want, w.ent, q, g, sl, c)

LEMMA LastStays ==
  ASSUME QueueInv, OrderInv, LastInv, hooks = HookBudget, flush # <<>>, want' = want,
         NEW nb, PutBuf(stage, stage', Top.stage, Top.buf, nb),
         NEW pos, NEW step, NEW added, Moved(flush, flush', pos, step, added),
         Keeps(world', nb.queue, pos, step)
  PROVE  LastInv'
<1>1. Sound(world, stage, flush) /\ stage \in [Stages -> StageType]
  BY DEF QueueInv, Sound, SoundBut, Typed
<1>2. Len(flush) = 1 /\ Top = flush[1]
  BY FlushIs
<1>3. /\ DOMAIN flush = {1} /\ DOMAIN flush' = {1} /\ Len(flush') = 1
      /\ flush'[1].stage = Top.stage /\ flush'[1].buf = Top.buf
      /\ flush'[1].pos = pos /\ flush'[1].step = step /\ Top.stage \in Stages /\ Top.buf \in 0..1
  BY <1>1, <1>2, OneFrame
<1>4. BufOf(stage', flush'[1]) = nb
  BY <1>3 DEF BufOf, PutBuf
<1>5. stage'[Top.stage].buf[1 - Top.buf].queue = <<>>
  BY <1>2 DEF PutBuf, LastInv, FlushLast
<1>6. FlushLast(world', stage', flush', want')
  BY <1>3, <1>4, <1>5 DEF FlushLast, Keeps
<1>7. stage'[Main].defer = stage[Main].defer
  <2>1. CASE Top.stage = Main
    BY <2>1 DEF PutBuf
  <2>2. CASE Top.stage # Main
    BY <2>2, Consts DEF PutBuf, Except
  <2> QED
    BY <2>1, <2>2
<1>8. flush' # <<>>
  BY <1>3, Empty
<1> QED
  BY <1>6, <1>7, <1>8 DEF LastInv, IdleLast

\* The commands as they are; the flush goes on with the position pos.
LEMMA SameQueueLast ==
  ASSUME QueueInv, OrderInv, LastInv, hooks = HookBudget, flush # <<>>, Top.pos <= Len(Buf.queue), want' = want,
         PutBuf(stage, stage', Top.stage, Top.buf, Unused(Buf, Cmd)) \/ stage' = stage,
         NEW pos, NEW step, NEW added, Moved(flush, flush', pos, step, added),
         Keeps(world', Buf.queue, pos, step)
  PROVE  LastInv'
<1>1. Sound(world, stage, flush) /\ stage \in [Stages -> StageType]
  BY DEF QueueInv, Sound, SoundBut, Typed
<1>2. Unused(Buf, Cmd).queue = Buf.queue
  BY <1>1, InvalidatedIs
<1>3. PutBuf(stage, stage, Top.stage, Top.buf, Buf)
  BY <1>1, TopIs DEF PutBuf, Except
<1>4. CASE PutBuf(stage, stage', Top.stage, Top.buf, Unused(Buf, Cmd))
  BY <1>2, <1>4, LastStays
<1>5. CASE stage' = stage
  BY <1>3, <1>5, LastStays
<1> QED
  BY <1>4, <1>5

\* What is ahead of a flush, for the entity of slot sl.
LEMMA CmdLast ==
  ASSUME QueueInv, OrderInv, LastInv, hooks = HookBudget, flush # <<>>, NEW sl \in Slots, NEW c \in Comps
  PROVE  LastAt(want, world.ent, Buf.queue, Top, sl, c)
<1>1. Len(flush) = 1 /\ Sound(world, stage, flush)
  BY FlushIs DEF QueueInv
<1>2. Top = flush[1] /\ Buf = BufOf(stage, flush[1])
  BY <1>1, OneFrame, TopIs
<1> QED
  BY <1>2 DEF LastInv, FlushLast

\* A step with a command of one entity leaves the others alone.
LEMMA OthersLast ==
  ASSUME QueueInv, OrderInv, LastInv, hooks = HookBudget, flush # <<>>, Top.pos <= Len(Buf.queue),
         NEW w, NEW q2, DOMAIN q2 = DOMAIN Buf.queue,
         \A k \in DOMAIN Buf.queue : /\ q2[k].of = Buf.queue[k].of
                                     /\ Buf.queue[k].of.ent # Cmd.of.ent => q2[k] = Buf.queue[k],
         NEW g, g.pos = Top.pos \/ (g.pos = Top.pos + 1 /\ g.step = "batch"),
         NEW sl \in Slots, ~ Of(world.ent, sl, Cmd), w.ent[sl] = world.ent[sl], NEW c \in Comps
  PROVE  LastAt(want, w.ent, q2, g, sl, c)
<1>1. DOMAIN Buf.queue \subseteq Nat /\ Top.pos \in DOMAIN Buf.queue /\ Cmd = Buf.queue[Top.pos]
  BY CmdOwed
<1>2. LastAt(want, world.ent, Buf.queue, Top, sl, c)
  BY CmdLast
<1> QED
  BY <1>1, <1>2, LastOther

\* A value that is wanted is one of a living entity that will not be deleted.
LEMMA Wanted ==
  ASSUME NEW x, NEW ent, NEW q, NEW f, NEW sl, OwesAt(x, ent, q, f, sl), NEW c \in Comps, x[sl].val[c] \in Values
  PROVE  x[sl].alive /\ ent[sl].alive /\ Deletes(ent, q, f, sl) = {}
BY Consts DEF OwesAt

\* A command that is looked at on its own and whose entity is alive heads no batch.
LEMMA OneByOne ==
  ASSUME Executing, Alive(world.ent, Cmd.of.ent)
  PROVE  Top.step = "batch" => ~ (Cmd.next < 0)
BY DEF Executing, Batchable

LEMMA DiscardLast ==
  ASSUME QueueInv, OrderInv, LastInv, hooks = HookBudget, DiscardCmd
  PROVE  LastInv'
<1> DEFINE q == Buf.queue
<1>1. /\ Top.pos <= Len(q) /\ flush # <<>> /\ Top.step \in {"batch", "exec"}
      /\ PutBuf(stage, stage', Top.stage, Top.buf, Unused(Buf, Cmd))
      /\ Moved(flush, flush', Top.pos + 1, "batch", {}) /\ world'.ent = world.ent
  BY DiscardCmdIs
<1>2. want' = want /\ (Cmd.kind = "Skip" \/ ~ Alive(world.ent, Cmd.of.ent)) /\ Executing
  BY DEF DiscardCmd
<1>3. /\ Cmd = q[Top.pos] /\ Top.pos \in DOMAIN q /\ DOMAIN q \subseteq Nat
      /\ \A sl \in Slots : OwesAt(want, world.ent, q, Top, sl)
  BY <1>1, CmdOwed
<1>4. ASSUME NEW g, g.pos = Top.pos + 1, g.step = "batch", NEW sl \in Slots, NEW c \in Comps
      PROVE  LastAt(want, world.ent, q, g, sl, c)
  <2>1. CASE ~ Of(world.ent, sl, Cmd)
    BY <1>1, <1>4, <2>1, OthersLast
  <2>2. CASE Of(world.ent, sl, Cmd)
    <3>1. SUFFICES ASSUME want[sl].val[c] \in Values PROVE LastAt(want, world.ent, q, g, sl, c)
      BY DEF LastAt
    <3>2. Alive(world.ent, Cmd.of.ent)
      BY <1>3, <2>2, <3>1, Wanted DEF Of, Alive
    <3>3. Cmd.kind = "Skip" /\ (Top.step = "batch" => ~ (Cmd.next < 0))
      BY <1>2, <3>2, OneByOne
    <3>4. LastAt(want, world.ent, q, Top, sl, c)
      BY <1>1, CmdLast
    <3> HIDE DEF q
    <3> QED
      BY <1>3, <1>4, <2>2, <3>3, <3>4, LastOwn
  <2> QED
    BY <2>1, <2>2
<1>5. Keeps(world', q, Top.pos + 1, "batch")
  BY <1>1, <1>4 DEF Keeps
<1> QED
  BY <1>1, <1>2, <1>5, SameQueueLast

\* A command without a value keeps the values it does not remove.
LEMMA EffectVal ==
  ASSUME world \in WorldType, NEW cmd \in Cmds, cmd.kind \notin HasValue \cup {"Skip", "Delete"},
         NEW c \in Comps, world.ent[cmd.of.ent[1]].val[c] # None,
         ~ (cmd.kind = "Clear" \/ (cmd.kind = "Remove" /\ cmd.of.comp = c))
  PROVE  Effect(cmd).ent[cmd.of.ent[1]].val[c] = world.ent[cmd.of.ent[1]].val[c]
<1> DEFINE e == cmd.of.ent
           had == Has(world.ent, e)
           v == Effect(cmd)
<1>1. /\ e \in Entities /\ had \in SUBSET Comps /\ c \in had
      /\ cmd.kind \in {"Add", "AddModified", "Remove"} => cmd.of.comp \in Comps
      /\ cmd.kind \in {"Add", "AddModified", "Remove", "Modified"}
  BY CmdIs, HasIs DEF Consistent, HasValue
<1>2. ASSUME NEW T \in SUBSET Comps, v = Commit(world, e, T), c \in T
      PROVE  v.ent[e[1]].val[c] = world.ent[e[1]].val[c]
  <2>1. v = Emit(MoveTo(world, e, T), e, had \ T, T \ had)
    BY <1>2 DEF Commit
  <2> HIDE DEF v, e
  <2> QED
    BY <1>1, <1>2, <2>1, CommitVal DEF had
<1>3. CASE cmd.kind \in {"Add", "AddModified"}
  <2>1. v = Commit(world, e, had \cup {cmd.of.comp}) /\ had \cup {cmd.of.comp} \in SUBSET Comps
    BY <1>1, <1>3 DEF Effect
  <2> HIDE DEF v, e, had
  <2> QED
    BY <1>1, <1>2, <2>1 DEF v, e
<1>4. CASE cmd.kind = "Remove"
  <2>1. v = Commit(world, e, had \ {cmd.of.comp}) /\ had \ {cmd.of.comp} \in SUBSET Comps
    BY <1>1, <1>4 DEF Effect
  <2> HIDE DEF v, e, had
  <2> QED
    BY <1>1, <1>2, <1>4, <2>1 DEF v, e
<1>5. CASE cmd.kind = "Modified"
  BY <1>5 DEF Effect
<1> QED
  BY <1>1, <1>3, <1>4, <1>5

LEMMA ExecuteLast ==
  ASSUME QueueInv, OrderInv, LastInv, hooks = HookBudget, hooks' = HookBudget, ExecuteCmd
  PROVE  LastInv'
<1> DEFINE e == Cmd.of.ent
           q == Buf.queue
           p == Top.pos
           nb == Unused(Buf, Cmd)
<1>1. Sound(world, stage, flush) /\ world \in WorldType
  BY DEF QueueInv, Sound, SoundBut, Typed
<1>2. /\ Alive(world.ent, e) /\ Cmd.kind \notin HasValue \cup {"Skip"} /\ p <= Len(q) /\ flush # <<>>
      /\ Top.step \in {"batch", "exec"} /\ world' = Effect(Cmd)
  BY ExecuteCmdIs
<1>3. /\ Observers(Invalidated, At(p + 1, "batch", {}), world', e, SymDiff(Has(world.ent, e), Has(world'.ent, e)))
      /\ Top.step = "batch" => ~ (Cmd.next < 0)
  BY <1>2, OneByOne DEF ExecuteCmd
<1>4. /\ Cmd = q[p] /\ Cmd \in Cmds /\ e \in Entities /\ e[1] \in Slots /\ p \in DOMAIN q /\ DOMAIN q \subseteq Nat
      /\ p + 1 \in Nat \ {0} /\ flush \in Seq(FrameType)
      /\ \A sl \in Slots : OwesAt(want, world.ent, q, Top, sl)
      /\ Of(world.ent, e[1], Cmd)
  BY <1>2, CmdOwed
<1>5. Len(flush) = 1
  BY <1>2, FlushIs
<1>6. PutBuf(stage, Invalidated, Top.stage, Top.buf, nb)
  BY <1>1, <1>2, InvalidatedIs
<1>7. Moved(flush, At(p + 1, "batch", {}), p + 1, "batch", {})
  BY <1>2, <1>4, AtIs
<1> HIDE DEF nb
<1>8. stage' = Invalidated /\ flush' = At(p + 1, "batch", {}) /\ want' = want
  BY <1>3, <1>5, <1>6, <1>7, QuietEnd
<1>9. Others(world, world', e) /\ (Cmd.kind # "Delete" => SameLife(world, world'))
  BY <1>1, <1>2, <1>4, EffectIs
<1>10. ASSUME NEW g, g.pos = p + 1, g.step = "batch", NEW sl \in Slots, NEW c \in Comps
       PROVE  LastAt(want, world'.ent, q, g, sl, c)
  <2>1. CASE sl # e[1]
    <3>1. ~ Of(world.ent, sl, Cmd) /\ world'.ent[sl] = world.ent[sl]
      BY <1>9, <2>1 DEF Of, Others
    <3> QED
      BY <1>2, <1>10, <3>1, OthersLast
  <2>2. CASE sl = e[1]
    <3>1. SUFFICES ASSUME want[sl].val[c] \in Values PROVE LastAt(want, world'.ent, q, g, sl, c)
      BY DEF LastAt
    <3>2. Deletes(world.ent, q, Top, sl) = {} /\ LastAt(want, world.ent, q, Top, sl, c)
      BY <1>2, <1>4, <3>1, Wanted, CmdLast
    <3>3. Cmd.kind # "Delete"
      BY <1>4, <2>2, <3>2 DEF Deletes, Live
    <3>4. world'.ent[sl].gen = world.ent[sl].gen
      BY <1>9, <3>3 DEF SameLife
    <3>5. ASSUME world.ent[sl].val[c] \in Values, ~ Removes(q, p, c)
          PROVE  world'.ent[sl].val[c] = world.ent[sl].val[c]
      <4>1. world.ent[sl].val[c] # None
        BY <3>5, Consts
      <4>2. ~ (Cmd.kind = "Clear" \/ (Cmd.kind = "Remove" /\ Cmd.of.comp = c))
        BY <1>4, <3>5 DEF Removes
      <4> QED
        BY <1>1, <1>2, <1>4, <2>2, <3>3, <4>1, <4>2, EffectVal
    <3>6. Of(world.ent, sl, q[Top.pos]) /\ q[Top.pos].kind \notin {"Set", "Ensure"}
      BY <1>2, <1>4, <2>2 DEF HasValue
    <3> HIDE DEF q, e
    <3> QED
      BY <1>3, <1>4, <1>10, <3>2, <3>4, <3>5, <3>6, LastOwn
  <2> QED
    BY <2>1, <2>2
<1>11. Keeps(world', q, p + 1, "batch")
  BY <1>10 DEF Keeps
<1> QED
  BY <1>2, <1>6, <1>7, <1>8, <1>11, SameQueueLast DEF nb

LEMMA EnsureLast ==
  ASSUME QueueInv, OrderInv, LastInv, hooks = HookBudget, hooks' = HookBudget, EnsureCmd
  PROVE  LastInv'
<1> DEFINE e == Cmd.of.ent
           d == Cmd.of.comp
           q == Buf.queue
           p == Top.pos
           nb == Unused(Buf, Cmd)
           T == Has(world.ent, e) \cup {d}
<1>1. Sound(world, stage, flush) /\ world \in WorldType
  BY DEF QueueInv, Sound, SoundBut, Typed
<1>2. /\ Alive(world.ent, e) /\ Cmd.kind \in HasValue /\ d \in Comps /\ p <= Len(q) /\ flush # <<>>
      /\ Top.step \in {"batch", "exec"} /\ Committed(world, world', e, T)
  BY EnsureCmdIs
<1>3. /\ Observers(Invalidated, At(p, "write", {}), world', e, {d} \ Has(world.ent, e))
      /\ Top.step = "batch" => ~ (Cmd.next < 0)
      /\ world' = Emit(MoveTo(world, e, T), e, Has(world.ent, e) \ T, T \ Has(world.ent, e))
  BY <1>2, OneByOne DEF EnsureCmd, Commit
<1>4. /\ Cmd = q[p] /\ Cmd \in Cmds /\ e \in Entities /\ e[1] \in Slots /\ p \in DOMAIN q /\ DOMAIN q \subseteq Nat
      /\ p \in Nat \ {0} /\ flush \in Seq(FrameType) /\ Cmd.kind # "Emplace"
      /\ Of(world.ent, e[1], Cmd)
  BY <1>2, CmdOwed
<1>5. Len(flush) = 1
  BY <1>2, FlushIs
<1>6. PutBuf(stage, Invalidated, Top.stage, Top.buf, nb)
  BY <1>1, <1>2, InvalidatedIs
<1>7. Moved(flush, At(p, "write", {}), p, "write", {})
  BY <1>2, <1>4, AtIs
<1> HIDE DEF nb
<1>8. stage' = Invalidated /\ flush' = At(p, "write", {}) /\ want' = want
  BY <1>3, <1>5, <1>6, <1>7, QuietEnd
<1>9. Others(world, world', e) /\ SameLife(world, world') /\ T \in SUBSET Comps
  BY <1>2, HasIs DEF Committed
<1> HIDE DEF T
<1>10. ASSUME NEW g, g.pos = p, g.step = "write", NEW sl \in Slots, NEW c \in Comps
       PROVE  LastAt(want, world'.ent, q, g, sl, c)
  <2>1. CASE sl # e[1]
    <3>1. ~ Of(world.ent, sl, Cmd) /\ world'.ent[sl] = world.ent[sl]
      BY <1>9, <2>1 DEF Of, Others
    <3> QED
      BY <1>2, <1>10, <3>1, OthersLast
  <2>2. CASE sl = e[1]
    <3>1. LastAt(want, world.ent, q, Top, sl, c)
      BY <1>2, CmdLast
    <3>2. world'.ent[sl].gen = world.ent[sl].gen
      BY <1>9 DEF SameLife
    <3>3. ASSUME world.ent[sl].val[c] \in Values
          PROVE  world'.ent[sl].val[c] = world.ent[sl].val[c]
      <4>1. c \in Has(world.ent, e)
        BY <2>2, <3>3, Consts, HasIs
      <4>2. c \in T
        BY <4>1 DEF T
      <4> HIDE DEF e
      <4> QED
        BY <1>1, <1>3, <1>4, <1>9, <2>2, <4>1, <4>2, CommitVal
    <3>4. Of(world.ent, sl, q[Top.pos]) /\ q[Top.pos].kind \in {"Set", "Ensure"}
      BY <1>2, <1>4, <2>2 DEF HasValue
    <3> HIDE DEF q, e
    <3> QED
      BY <1>3, <1>4, <1>10, <3>1, <3>2, <3>3, <3>4, LastEnsured
  <2> QED
    BY <2>1, <2>2
<1>11. Keeps(world', q, p, "write")
  BY <1>10 DEF Keeps
<1> QED
  BY <1>2, <1>6, <1>7, <1>8, <1>11, SameQueueLast DEF nb

LEMMA WriteLast ==
  ASSUME QueueInv, WriteInv, OrderInv, LastInv, hooks = HookBudget, WriteCmd
  PROVE  LastInv'
<1> DEFINE e == Cmd.of.ent
           d == Cmd.of.comp
           q == Buf.queue
           p == Top.pos
<1>1. /\ flush # <<>> /\ Top.step = "write" /\ p <= Len(q) /\ d \in Comps
      /\ stage' = stage /\ Moved(flush, flush', p + 1, "batch", {})
  BY WriteCmdIs DEF WriteInv
<1>2. want' = want /\ world \in WorldType
  BY DEF WriteCmd, QueueInv, Sound, SoundBut, Typed
<1>3. /\ Cmd = q[p] /\ Cmd \in Cmds /\ e \in Entities /\ e[1] \in Slots /\ p \in DOMAIN q /\ DOMAIN q \subseteq Nat
      /\ Alive(world.ent, e) => Of(world.ent, e[1], Cmd)
  BY <1>1, CmdOwed
<1>4. WritesThere(world.ent, q, Top)
  BY <1>1, FlushIs
<1>5. Cmd.kind \in {"Set", "Ensure"} /\ Alive(world.ent, e) /\ d \in Has(world.ent, e)
  BY <1>1, <1>3, <1>4 DEF WritesThere
<1>6. world' = Overwrite(world, e, d, Cmd.val, TRUE) /\ Cmd.val \in Values
  BY <1>3, <1>5, CmdIs DEF WriteCmd, Consistent, HasValue
<1>7. Others(world, world', e) /\ SameLife(world, world')
  <2> HIDE DEF e, d
  <2>1. Overwritten(world, world', e, d, TRUE)
    BY <1>1, <1>2, <1>3, <1>6, OverwriteIs
  <2> QED
    BY <2>1 DEF Overwritten
<1>8. \A c \in Comps : world'.ent[e[1]].val[c] = IF c = d THEN Cmd.val ELSE world.ent[e[1]].val[c]
  <2> DEFINE x == Cmd.val
             yes == TRUE
  <2>1. x \in Values /\ yes \in BOOLEAN /\ world' = Overwrite(world, e, d, x, yes)
    BY <1>6
  <2> HIDE DEF e, d, x, yes
  <2>2. \A c \in Comps : Overwrite(world, e, d, x, yes).ent[e[1]].val[c] = IF c = d THEN x ELSE world.ent[e[1]].val[c]
    BY <1>1, <1>2, <1>3, <2>1, OverwriteVal
  <2>3. \A c \in Comps : world'.ent[e[1]].val[c] = IF c = d THEN x ELSE world.ent[e[1]].val[c]
    BY ONLY <2>1, <2>2
  <2> QED
    BY <2>3 DEF x
<1>9. ASSUME NEW g, g.pos = p + 1, g.step = "batch", NEW sl \in Slots, NEW c \in Comps
      PROVE  LastAt(want, world'.ent, q, g, sl, c)
  <2>1. CASE sl # e[1]
    <3>1. ~ Of(world.ent, sl, Cmd) /\ world'.ent[sl] = world.ent[sl]
      BY <1>7, <2>1 DEF Of, Others
    <3> QED
      BY <1>1, <1>9, <3>1, OthersLast
  <2>2. CASE sl = e[1]
    <3>1. LastAt(want, world.ent, q, Top, sl, c)
      BY <1>1, CmdLast
    <3>2. world'.ent[sl].gen = world.ent[sl].gen
      BY <1>7 DEF SameLife
    <3>3. IF q[Top.pos].kind \in {"Set", "Ensure"} /\ q[Top.pos].of.comp = c THEN world'.ent[sl].val[c] = q[Top.pos].val
          ELSE world'.ent[sl].val[c] = world.ent[sl].val[c]
      BY <1>3, <1>5, <1>8, <2>2
    <3>4. Of(world.ent, sl, q[Top.pos])
      BY <1>3, <1>5, <2>2
    <3> HIDE DEF q, e
    <3> QED
      BY <1>1, <1>3, <1>9, <3>1, <3>2, <3>3, <3>4, LastOwn
  <2> QED
    BY <2>1, <2>2
<1>10. Keeps(world', q, p + 1, "batch")
  BY <1>9 DEF Keeps
<1> QED
  BY <1>1, <1>2, <1>10, SameQueueLast
LEMMA CommitBatchLast ==
  ASSUME QueueInv, OrderInv, LastInv, hooks = HookBudget, hooks' = HookBudget, CommitBatch
  PROVE  LastInv'
<1> DEFINE e == Cmd.of.ent
           q == Buf.queue
           ch == Chain(q, Top.pos)
           had == Has(world.ent, e)
           p == Plan(q, ch, had)
           q2 == AfterFirst(q, ch)
           nb == [Buf EXCEPT !.queue = q2]
           st == [stage EXCEPT ![Top.stage].buf[Top.buf].queue = q2]
           removed == IF p.table # had THEN p.removed ELSE {}
<1>1. Sound(world, stage, flush) /\ world \in WorldType
  BY DEF QueueInv, Sound, SoundBut, Typed
<1>2. /\ flush # <<>> /\ Top.step = "batch" /\ Top.pos <= Len(Buf.queue)
      /\ Observers(st, At(Top.pos, "moves", p.added), world', e, removed)
      /\ world' = Emit(MoveTo(world, e, p.table), e, removed, {})
  BY DEF CommitBatch, AfterFirst
<1>3. Alive(world.ent, e) /\ Batched2(e, world', p)
  BY CommitBatchIs
<1>4. /\ Top.pos \in Nat \ {0} /\ e \in Entities /\ e[1] \in Slots /\ q \in Seq(Cmds) /\ flush \in Seq(FrameType)
      /\ Cmd = q[Top.pos] /\ had \in SUBSET Comps
  BY <1>1, <1>2, TopIs, BufIs, HasIs
<1>5. Len(flush) = 1 /\ Running(q, Top) /\ OwesAt(want, world.ent, q, Top, e[1])
  BY <1>2, <1>4, FlushIs DEF Owes
<1>6. Of(world.ent, e[1], q[Top.pos])
  BY <1>3, <1>4 DEF Of, Alive
<1>7. Spent(q, q2) /\ Mine(q, q2, e) /\ \A k \in DOMAIN q : q[k].of.ent # e => q2[k] = q[k]
  <2>1. Mine(q, q2, q[Top.pos].of.ent)
    BY <1>5, <1>6, AfterMine
  <2>2. \A k \in ToSet(ch) : k \in DOMAIN q /\ q[k].of.ent = q[Top.pos].of.ent
    <3>1. ChainOf(q, Top.pos, ch)
      BY <1>5, <1>6, RestIs
    <3> HIDE DEF q, ch
    <3> QED
      BY <3>1, ChainMine
  <2>3. \A k \in DOMAIN q : k \notin ToSet(ch) => q2[k] = q[k]
    BY DEF AfterFirst
  <2> HIDE DEF q2, ch
  <2> QED
    BY <1>4, <2>1, <2>2, <2>3, AfterFirstIs DEF q2
<1>8. p.added \in SUBSET Comps /\ p.table \in SUBSET Comps
  <2> HIDE DEF had, q, ch
  <2> QED
    BY <1>4, PlanIs
<1> HIDE DEF q2
<1>9. PutBuf(stage, st, Top.stage, Top.buf, nb) /\ nb.queue = q2
  BY <1>1, <1>2, <1>7, PutQueue
<1> HIDE DEF nb, st, removed
<1>10. Moved(flush, At(Top.pos, "moves", p.added), Top.pos, "moves", p.added)
  BY <1>2, <1>4, <1>8, AtIs
<1>11. stage' = st /\ flush' = At(Top.pos, "moves", p.added) /\ want' = want
  BY <1>2, <1>5, <1>9, <1>10, QuietEnd
<1>12. /\ Others(world, world', e)
       /\ world'.ent[e[1]].alive <=> world.ent[e[1]].alive
       /\ world'.ent[e[1]].gen = world.ent[e[1]].gen /\ Has(world'.ent, e) = p.table
  BY <1>3, <1>4 DEF Batched2, SameLife
<1>13. \A c \in Comps : world'.ent[e[1]].val[c] = IF c \notin p.table THEN None
                                                 ELSE IF c \in had THEN world.ent[e[1]].val[c] ELSE Default
  <2> HIDE DEF p, e
  <2> QED
    BY <1>1, <1>2, <1>4, <1>8, CommitVal DEF had
<1>14. ASSUME NEW g, g.pos = Top.pos, g.step = "moves", NEW sl \in Slots, NEW c \in Comps
       PROVE  LastAt(want, world'.ent, q2, g, sl, c)
  <2>1. CASE sl # e[1]
    <3>1. ~ Of(world.ent, sl, Cmd) /\ world'.ent[sl] = world.ent[sl]
      BY <1>12, <2>1 DEF Of, Others
    <3> HIDE DEF p
    <3> QED
      BY <1>2, <1>7, <1>14, <3>1, OthersLast DEF Mine
  <2>2. CASE sl = e[1]
    <3>1. SUFFICES ASSUME want[sl].val[c] \in Values PROVE LastAt(want, world'.ent, q2, g, sl, c)
      BY DEF LastAt
    <3>2. \A d \in Comps : /\ d \in had <=> world.ent[sl].val[d] # None
                           /\ world'.ent[sl].val[d] # None <=> d \in Plan(q, Chain(q, Top.pos), had).table
      BY <1>12, <2>2, HasIs
    <3>3. LastAt(want, world.ent, q, Top, sl, c)
      BY <1>2, CmdLast
    <3>4. world'.ent[sl].val[c] = None \/ world.ent[sl].val[c] = None \/ world'.ent[sl].val[c] = world.ent[sl].val[c]
      BY <1>13, <2>2, <3>2
    <3> HIDE DEF had, e, q
    <3>5. /\ Of(world.ent, sl, q[Top.pos]) /\ OwesAt(want, world.ent, q, Top, sl)
          /\ world'.ent[sl].alive <=> world.ent[sl].alive
          /\ world'.ent[sl].gen = world.ent[sl].gen
      BY <1>5, <1>6, <1>12, <2>2
    <3>6. OwesAt(want, world'.ent, AfterFirst(q, Chain(q, Top.pos)), g, sl)
      BY ONLY <1>2, <1>5, <1>14, <3>2, <3>5, BatchOwes
    <3>7. want[sl].alive /\ Deletes(world.ent, q, Top, sl) = {}
      BY <3>1, <3>5, Wanted
    <3>8. LastAt(want, world'.ent, AfterFirst(q, Chain(q, Top.pos)), g, sl, c)
      BY ONLY <1>5, <1>14, <3>3, <3>4, <3>5, <3>6, <3>7, BatchLast
    <3> QED
      BY <3>8 DEF q2
  <2> QED
    BY <2>1, <2>2
<1>15. Keeps(world', q2, Top.pos, "moves")
  BY <1>14 DEF Keeps
<1> HIDE DEF q, p
<1> QED
  BY <1>2, <1>9, <1>10, <1>11, <1>15, LastStays

\* The values that the second pass leaves.
LEMMA SecondVal ==
  ASSUME NEW w \in WorldType, NEW e \in Entities, NEW q, NEW ch, NEW c \in Comps
  PROVE  LET I == MovedInto(q, ch, Has(w.ent, e), c) IN
         SecondPass(w, e, q, ch).w.ent[e[1]].val[c] = IF I = {} THEN w.ent[e[1]].val[c] ELSE q[Max(I)].val
<1> DEFINE sets == {k \in DOMAIN q : k \in ToSet(ch) /\ q[k].kind \in {"Set", "Ensure"}}
           moved == {k \in sets : q[k].of.comp \in Has(w.ent, e)}
           Into(d) == {k \in moved : q[k].of.comp = d}
           val == [d \in Comps |-> IF Into(d) = {} THEN w.ent[e[1]].val[d] ELSE q[Max(Into(d))].val]
           I == MovedInto(q, ch, Has(w.ent, e), c)
<1>1. e[1] \in Slots /\ w \in [ent : {w.ent}, belief : {w.belief}, held : {w.held}] /\ w.ent \in [Slots -> EntType]
  BY EntityIs, WorldIs
<1>2. ASSUME NEW v PROVE [w EXCEPT !.ent[e[1]].val = v].ent[e[1]].val = v
  BY <1>1 DEF EntType
<1>3. SecondPass(w, e, q, ch).w = [w EXCEPT !.ent[e[1]].val = val]
  BY <1>1 DEF SecondPass
<1>4. Into(c) = I
  BY DEF MovedInto
<1>5. val[c] = IF I = {} THEN w.ent[e[1]].val[c] ELSE q[Max(I)].val
  BY <1>4
<1>6. SecondPass(w, e, q, ch).w.ent[e[1]].val = val
  <2> HIDE DEF val
  <2> QED
    BY <1>2, <1>3
<1> HIDE DEF val, I
<1> QED
  BY <1>5, <1>6 DEF I

LEMMA MoveValuesLast ==
  ASSUME QueueInv, OrderInv, LastInv, hooks = HookBudget, hooks' = HookBudget, MoveValues
  PROVE  LastInv'
<1> DEFINE e == Cmd.of.ent
           q == Buf.queue
           ch == Chain(q, Top.pos)
           m == SecondPass(world, e, q, ch)
           nb == [Buf EXCEPT !.queue = m.q]
           st == [stage EXCEPT ![Top.stage].buf[Top.buf].queue = m.q]
<1>1. Sound(world, stage, flush) /\ world \in WorldType
  BY DEF QueueInv, Sound, SoundBut, Typed
<1>2. /\ flush # <<>> /\ Top.step = "moves" /\ world' = Emit(m.w, e, {}, Top.added)
      /\ Observers(st, At(Top.pos, "exec", {}), world', e, Top.added \cap Has(world'.ent, e))
  BY DEF MoveValues
<1>3. Alive(world.ent, e) /\ Told2(e, world', Top.added) /\ Second(world, e, q, m)
  BY MoveValuesIs
<1>4. /\ Top.pos \in Nat \ {0} /\ e \in Entities /\ e[1] \in Slots /\ q \in Seq(Cmds) /\ flush \in Seq(FrameType)
      /\ Cmd = q[Top.pos] /\ Top.pos <= Len(q)
  BY <1>1, <1>2, TopIs, BufIs
<1>5. Len(flush) = 1 /\ Running(q, Top) /\ OwesAt(want, world.ent, q, Top, e[1])
  BY <1>2, <1>4, FlushIs DEF Owes
<1>6. Of(world.ent, e[1], q[Top.pos])
  BY <1>3, <1>4 DEF Of, Alive
<1>7. Spent(q, m.q)
  BY <1>3 DEF Second
<1>8. DOMAIN m.q = DOMAIN q /\ \A k \in DOMAIN q : /\ m.q[k].of = q[k].of
                                                   /\ m.q[k].kind = q[k].kind \/ m.q[k].kind \in {"Modified", "Skip"}
  BY <1>4, <1>7, LenProperties DEF Spent
<1>9. \A k \in DOMAIN q : k \in ToSet(ch) /\ q[k].kind \in {"Set", "Ensure"} => m.q[k].kind \in {"Modified", "Skip"}
  BY <1>4, SecondKinds
<1>10. \A k \in DOMAIN q : q[k].of.ent # e => m.q[k] = q[k]
  <2>1. \A k \in DOMAIN q : k \notin ToSet(ch) => m.q[k] = q[k]
    BY DEF SecondPass
  <2>2. \A k \in ToSet(ch) : k \in DOMAIN q /\ q[k].of.ent = q[Top.pos].of.ent
    <3>1. ChainOf(q, Top.pos, ch)
      BY <1>5, <1>6, RestIs
    <3> HIDE DEF q, m, ch
    <3> QED
      BY <3>1, ChainMine
  <2> HIDE DEF m, ch, q, e
  <2> QED
    BY <1>4, <2>1, <2>2 DEF e
<1>11. ASSUME NEW c \in Comps
       PROVE  LET I == MovedInto(q, ch, Has(world.ent, e), c) IN
              m.w.ent[e[1]].val[c] = IF I = {} THEN world.ent[e[1]].val[c] ELSE q[Max(I)].val
  <2> HIDE DEF q, e, ch
  <2> QED
    BY <1>1, <1>4, SecondVal
<1>12. m.w \in WorldType
  BY <1>3 DEF Second, SameLife
<1> HIDE DEF m
<1>13. world'.ent = m.w.ent
  <2> DEFINE none == {}
  <2>1. none \in SUBSET Comps /\ world' = Emit(m.w, e, none, Top.added)
    BY <1>2
  <2> HIDE DEF none, e
  <2>2. Emitted(m.w, world', e, none, Top.added)
    BY <1>4, <1>12, <2>1, EmitIs
  <2> QED
    BY <2>2 DEF Emitted
<1>14. PutBuf(stage, st, Top.stage, Top.buf, nb) /\ nb.queue = m.q
  BY <1>1, <1>2, <1>7, PutQueue
<1> HIDE DEF nb, st
<1>15. Moved(flush, At(Top.pos, "exec", {}), Top.pos, "exec", {})
  BY <1>2, <1>4, AtIs
<1>16. stage' = st /\ flush' = At(Top.pos, "exec", {}) /\ want' = want
  BY <1>2, <1>5, <1>14, <1>15, QuietEnd
<1>17. Others(world, world', e) /\ world'.ent[e[1]].gen = world.ent[e[1]].gen
  BY <1>3, <1>4 DEF Told2, SameLife
<1>18. ASSUME NEW g, g.pos = Top.pos, g.step = "exec", NEW sl \in Slots, NEW c \in Comps
       PROVE  LastAt(want, world'.ent, m.q, g, sl, c)
  <2>1. CASE sl # e[1]
    <3>1. ~ Of(world.ent, sl, Cmd) /\ world'.ent[sl] = world.ent[sl]
      BY <1>17, <2>1 DEF Of, Others
    <3> QED
      BY <1>2, <1>4, <1>8, <1>10, <1>18, <3>1, OthersLast
  <2>2. CASE sl = e[1]
    <3>1. SUFFICES ASSUME want[sl].val[c] \in Values PROVE LastAt(want, world'.ent, m.q, g, sl, c)
      BY DEF LastAt
    <3>2. LastAt(want, world.ent, q, Top, sl, c)
      BY <1>2, CmdLast
    <3> DEFINE had == Has(world.ent, e)
    <3>3. c \in had <=> world.ent[sl].val[c] # None
      BY <2>2, HasIs
    <3>4. LET I == MovedInto(q, Chain(q, Top.pos), had, c) IN
          world'.ent[sl].val[c] = IF I = {} THEN world.ent[sl].val[c] ELSE q[Max(I)].val
      BY <1>11, <1>13, <2>2
    <3>5. world.ent[sl].val[c] \in Vals
      BY <1>1, WorldIs
    <3> HIDE DEF had, e, q
    <3>6. /\ Of(world.ent, sl, q[Top.pos]) /\ OwesAt(want, world.ent, q, Top, sl)
          /\ world'.ent[sl].gen = world.ent[sl].gen
      BY <1>5, <1>6, <1>17, <2>2
    <3>7. Deletes(world.ent, q, Top, sl) = {}
      BY <3>1, <3>6, Wanted
    <3>8. \A k \in DOMAIN q : /\ m.q[k].of = q[k].of
                              /\ m.q[k].kind = q[k].kind \/ m.q[k].kind \in {"Modified", "Skip"}
                              /\ k \in ToSet(Chain(q, Top.pos)) /\ q[k].kind \in {"Set", "Ensure"}
                                   => m.q[k].kind \in {"Modified", "Skip"}
      BY <1>8, <1>9
    <3> DEFINE q2 == m.q
    <3>9. /\ DOMAIN q2 = DOMAIN q /\ Top.step = "moves" /\ Running(q, Top) /\ c \in Comps
          /\ g.pos = Top.pos /\ g.step = "exec"
          /\ \A k \in DOMAIN q : /\ q2[k].of = q[k].of
                                 /\ q2[k].kind = q[k].kind \/ q2[k].kind \in {"Modified", "Skip"}
                                 /\ k \in ToSet(Chain(q, Top.pos)) /\ q[k].kind \in {"Set", "Ensure"}
                                      => q2[k].kind \in {"Modified", "Skip"}
      BY <1>2, <1>5, <1>8, <1>18, <3>8
    <3> HIDE DEF q2
    <3>10. MovedAcross(want, world.ent, q, Top, sl, c, g, world'.ent, had, q2)
      BY ONLY <3>2, <3>3, <3>4, <3>5, <3>6, <3>7, <3>9 DEF MovedAcross
    <3>11. LastAt(want, world'.ent, q2, g, sl, c)
      BY <3>10, MovesLast
    <3> QED
      BY <3>11 DEF q2
  <2> QED
    BY <2>1, <2>2
<1>19. Keeps(world', m.q, Top.pos, "exec")
  BY <1>18 DEF Keeps
<1> HIDE DEF q
<1> QED
  BY <1>2, <1>14, <1>15, <1>16, <1>19, LastStays

-----------------------------------------------------------------------------
(* The value that a buffer means.                                          *)

OpSets(ent, q, n, sl, c) ==
  {k \in 1..n : Of(ent, sl, q[k]) /\ q[k].of.op = "set" /\ q[k].of.comp = c}

\* A value that m has is the one that was there, or that of the last command
\* that set it and nothing removed it after that.
ValueAt(ent, q, n, m, sl, c) ==
  LET T == OpSets(ent, q, n, sl, c)
      R == OpRemoves(ent, q, n, sl, c) IN
  m[sl].val[c] \in Values =>
    /\ T = {} => R = {} /\ m[sl].val[c] = ent[sl].val[c]
    /\ T # {} => \E k \in T : q[k].of.arg = m[sl].val[c] /\ \A j \in T \cup R : j <= k

LEMMA ValueNone ==
  ASSUME NEW ent, NEW q, NEW n, NEW m, NEW sl, NEW c, m[sl].val[c] \notin Values
  PROVE  ValueAt(ent, q, n, m, sl, c)
BY DEF ValueAt

\* What an operation on an entity that is alive leaves of a value.
OpVal(m, o, r, c) ==
  LET s == o.ent[1] IN
  Alive(m, o.ent) /\ r[s].val[c] \in Values =>
    \/ o.op = "set" /\ o.comp = c /\ r[s].val[c] = o.arg
    \/ /\ r[s].val[c] = m[s].val[c] /\ o.op \notin {"clear", "delete"}
       /\ ~ (o.op \in {"set", "remove"} /\ o.comp = c)

LEMMA InOrderVal ==
  ASSUME NEW m \in MeantType, NEW o \in AllOps, NEW c \in Comps
  PROVE  OpVal(m, o, InOrder(m, o), c)
<1>0. SUFFICES ASSUME Alive(m, o.ent), InOrder(m, o)[o.ent[1]].val[c] \in Values
               PROVE  LET r == InOrder(m, o)
                          s == o.ent[1] IN
                      \/ o.op = "set" /\ o.comp = c /\ r[s].val[c] = o.arg
                      \/ /\ r[s].val[c] = m[s].val[c] /\ o.op \notin {"clear", "delete"}
                         /\ ~ (o.op \in {"set", "remove"} /\ o.comp = c)
  BY DEF OpVal
<1> DEFINE r == InOrder(m, o)
           s == o.ent[1]
<1>1. /\ o.ent \in Entities /\ o.comp \in Comps \cup {None}
      /\ (o.comp = None) = (o.op \in {"clear", "delete"})
      /\ o.op \in {"add", "remove", "set", "clear", "delete"}
      /\ Unfixed \notin Values /\ None \notin Values
  <2>1. /\ o.ent \in Entities /\ o.comp \in Comps \cup {None}
        /\ (o.comp = None) = (o.op \in {"clear", "delete"})
        /\ o.op \in Ops \cup HookOps \cup {"set"}
    BY OperationIs DEF AllOps
  <2> QED
    BY <2>1, ConstantsAssumption
<1>2. s \in Slots /\ m \in [Slots -> [alive : BOOLEAN, gen : 0..MaxGen, val : [Comps -> Vals \cup {Unfixed}]]]
  BY <1>1, EntityIs DEF MeantType
<1>3. m[s].val \in [Comps -> Vals \cup {Unfixed}] /\ DOMAIN m[s] = {"alive", "gen", "val"}
  BY <1>2
<1>4. ASSUME NEW v, o.comp \in Comps, r = [m EXCEPT ![s].val[o.comp] = v]
      PROVE  r[s].val[c] = IF c = o.comp THEN v ELSE m[s].val[c]
  <2> HIDE DEF r, s
  <2> QED
    BY <1>2, <1>3, <1>4
<1>5. CASE o.op = "add"
  <2>1. CASE o.comp \in Has(m, o.ent)
    <3>1. r = m
      BY <1>0, <1>5, <2>1 DEF InOrder, Alive
    <3> QED
      BY <1>5, <3>1
  <2>2. CASE o.comp \notin Has(m, o.ent)
    <3>1. r = [m EXCEPT ![s].val[o.comp] = Unfixed]
      BY <1>0, <1>5, <2>2 DEF InOrder, Alive
    <3>2. o.comp \in Comps
      BY <1>1, <1>5
    <3> QED
      BY <1>0, <1>1, <1>4, <1>5, <3>1, <3>2
  <2> QED
    BY <2>1, <2>2
<1>6. CASE o.op = "set"
  <2>1. r = [m EXCEPT ![s].val[o.comp] = o.arg]
    BY <1>0, <1>6 DEF InOrder, Alive
  <2>2. o.comp \in Comps
    BY <1>1, <1>6
  <2> HIDE DEF r
  <2>3. r[s].val[c] = IF c = o.comp THEN o.arg ELSE m[s].val[c]
    BY <1>4, <2>1, <2>2
  <2> QED
    BY <1>6, <2>3 DEF r
<1>7. CASE o.op = "remove"
  <2>1. r = [m EXCEPT ![s].val[o.comp] = None]
    BY <1>0, <1>7 DEF InOrder, Alive
  <2>2. o.comp \in Comps
    BY <1>1, <1>7
  <2> QED
    BY <1>0, <1>1, <1>4, <1>7, <2>1, <2>2
<1>8. CASE o.op \in {"clear", "delete"}
  <2> DEFINE f == [x \in Comps |-> None]
  <2>1. r = [m EXCEPT ![s].val = f] \/ r = [m EXCEPT ![s].val = f, ![s].alive = FALSE]
    BY <1>0, <1>8 DEF InOrder, Alive
  <2>2. f[c] = None
    OBVIOUS
  <2> HIDE DEF f, r, s
  <2>3. r[s].val = f
    BY <1>2, <2>1
  <2> QED
    BY <1>0, <1>1, <2>2, <2>3 DEF r, s
<1> QED
  BY <1>1, <1>5, <1>6, <1>7, <1>8

\* One command more.
LEMMA MeantVal ==
  ASSUME NEW ent \in [Slots -> EntType], NEW q, NEW n \in Nat \ {0}, NEW m, Meant(ent, q, n - 1, m),
         NEW sl \in Slots, NEW c \in Comps, q[n].of \in AllOps, NEW r, OpDone(m, q[n].of, r),
         OpVal(m, q[n].of, r, c), ValueAt(ent, q, n - 1, m, sl, c)
  PROVE  ValueAt(ent, q, n, r, sl, c)
<1>3. SUFFICES ASSUME r[sl].val[c] \in Values PROVE ValueAt(ent, q, n, r, sl, c)
  BY ValueNone
<1> DEFINE o == q[n].of
           T == OpSets(ent, q, n - 1, sl, c)
           R == OpRemoves(ent, q, n - 1, sl, c)
<1>1. m \in MeantType /\ m[sl].gen = ent[sl].gen 
  BY DEF Meant
<1>2. /\ OpSets(ent, q, n, sl, c) =
           T \cup (IF Of(ent, sl, q[n]) /\ o.op = "set" /\ o.comp = c THEN {n} ELSE {})
      /\ \A k \in T \cup R : k \in Nat /\ k <= n
  <2>1. \A k : k \in 1..n <=> k \in 1..n - 1 \/ k = n
    OBVIOUS
  <2> QED
    BY <2>1 DEF OpSets, OpRemoves
<1>4. CASE ~ Of(ent, sl, q[n])
  <2>1. r[sl] = m[sl]
    BY <1>1, <1>4 DEF OpDone, Of, Alive
  <2>2. OpSets(ent, q, n, sl, c) = T /\ OpRemoves(ent, q, n, sl, c) = R
    BY <1>2, <1>4, OtherOp
  <2> HIDE DEF T, R
  <2> QED
    BY <1>3, <2>1, <2>2 DEF ValueAt, T, R
<1>5. CASE Of(ent, sl, q[n])
  <2>1. Alive(m, o.ent) /\ o.ent[1] = sl
    <3>1. CASE m[sl].alive
      BY <1>1, <1>5, <3>1 DEF Of, Alive
    <3>2. CASE ~ m[sl].alive
      <4>1. r[sl] = m[sl] /\ m[sl].val[c] = None
        BY <1>1, <1>5, <3>2 DEF Of, Alive, OpDone, Meant, MeantAt
      <4> QED
        BY <1>3, <4>1, ConstantsAssumption
    <3> QED
      BY <3>1, <3>2
  <2>2. OpRemoves(ent, q, n, sl, c) = R \cup (IF o.op = "clear" \/ (o.op = "remove" /\ o.comp = c) THEN {n} ELSE {})
    BY <1>5, OwnOp
  <2>3. \/ o.op = "set" /\ o.comp = c /\ r[sl].val[c] = o.arg
        \/ /\ r[sl].val[c] = m[sl].val[c] /\ o.op \notin {"clear", "delete"}
           /\ ~ (o.op \in {"set", "remove"} /\ o.comp = c)
    BY <1>3, <2>1 DEF OpVal
  <2> HIDE DEF T, R
  <2>4. CASE o.op = "set" /\ o.comp = c /\ r[sl].val[c] = o.arg
    <3>1. OpSets(ent, q, n, sl, c) = T \cup {n} /\ OpRemoves(ent, q, n, sl, c) = R
      BY <1>2, <1>5, <2>2, <2>4
    <3> QED
      BY <1>2, <2>4, <3>1 DEF ValueAt
  <2>5. CASE /\ r[sl].val[c] = m[sl].val[c] /\ o.op \notin {"clear", "delete"}
             /\ ~ (o.op \in {"set", "remove"} /\ o.comp = c)
    <3>1. OpSets(ent, q, n, sl, c) = T /\ OpRemoves(ent, q, n, sl, c) = R
      BY <1>2, <1>5, <2>2, <2>5
    <3> QED
      BY <1>3, <2>5, <3>1 DEF ValueAt, T, R
  <2> QED
    BY <2>3, <2>4, <2>5
<1> QED
  BY <1>4, <1>5

LEMMA MeaningVal ==
  ASSUME NEW ent \in [Slots -> EntType], Tidy(ent), NEW q \in Seq(Cmds),
         \A k \in DOMAIN q : q[k].of \in AllOps, NEW sl \in Slots, NEW c \in Comps
  PROVE  ValueAt(ent, q, Len(q), Meaning(ent, q), sl, c)
<1> DEFINE N == Len(q)
<1>1. N \in Nat /\ DOMAIN q = 1..N
  BY LenProperties
<1>2. PICK f : /\ f[0] = ent /\ \A k \in 1..N : f[k] = InOrder(f[k - 1], q[k].of)
               /\ Meaning(ent, q) = f[N]
  BY MeaningUnfolds
<1> HIDE DEF N
<1> DEFINE P(n) == Meant(ent, q, n, f[n]) /\ ValueAt(ent, q, n, f[n], sl, c)
           S == {n \in 0..N : P(n)}
<1>3. 0 \in S
  <2>1. Meant(ent, q, 0, f[0])
    BY <1>2, MeantNone
  <2>2. OpSets(ent, q, 0, sl, c) = {} /\ OpRemoves(ent, q, 0, sl, c) = {}
    BY DEF OpSets, OpRemoves
  <2>3. ValueAt(ent, q, 0, f[0], sl, c)
    BY <1>2, <2>2 DEF ValueAt
  <2> QED
    BY <1>1, <2>1, <2>3
<1>4. ASSUME NEW n \in 1..N, n - 1 \in S PROVE n \in S
  <2>1. /\ Meant(ent, q, n - 1, f[n - 1]) /\ f[n] = InOrder(f[n - 1], q[n].of) /\ q[n].of \in AllOps
        /\ ValueAt(ent, q, n - 1, f[n - 1], sl, c)
    BY <1>1, <1>2, <1>4
  <2>2. OpDone(f[n - 1], q[n].of, f[n])
    BY <2>1, InOrderIs DEF Meant
  <2>3. n \in Nat \ {0} /\ n \in 0..N
    BY <1>1
  <2>4. Meant(ent, q, n, f[n])
    BY <2>1, <2>2, <2>3, MeantStep
  <2>7. OpVal(f[n - 1], q[n].of, f[n], c)
    BY <2>1, InOrderVal DEF Meant
  <2>5. ValueAt(ent, q, n, f[n], sl, c)
    BY <2>1, <2>2, <2>3, <2>7, MeantVal
  <2>6. P(n)
    BY <2>1, <2>4, <2>5
  <2> HIDE DEF P
  <2> QED
    BY <2>3, <2>6
<1>5. N \in S
  <2>1. N \in 0..N
    BY <1>1
  <2> HIDE DEF S
  <2> QED
    BY <1>1, <1>3, <1>4, <2>1, UpTo
<1> QED
  BY <1>2, <1>5 DEF N

\* The first of several commands of an entity heads a batch.
LEMMA SeveralWhole ==
  ASSUME NEW ent, NEW q \in Seq(Cmds), Ordered(q), Unplain(q), NEW f, f.pos = 1, f.step = "batch",
         NEW sl, NEW k \in Live(ent, q, f, sl), NEW j \in Live(ent, q, f, sl), j # k
  PROVE  Whole(ent, q, f, sl)
<1> DEFINE M == Live(ent, q, f, sl)
<1>1. M \subseteq DOMAIN q /\ DOMAIN q \subseteq Nat /\ \A x \in DOMAIN q : x >= 1
  BY LenProperties DEF Live
<1>2. \E h \in M : \A x \in M : h <= x
  BY <1>1, NatMin
<1>3. PICK h \in M : \A x \in M : h <= x
  BY <1>2
<1>4. \E x \in M : x > h
  BY <1>1, <1>3
<1>5. \A x \in DOMAIN q : x \in Links(q) /\ q[x].of.ent \in Entities
  <2>1. \A x \in DOMAIN q : q[x] \in Cmds
    BY ElementOfSeq
  <2> QED
    BY <2>1, CmdIs DEF Links, Unplain
<1>6. First(q, h)
  BY <1>1, <1>3 DEF First, Links, Live, Of
<1>7. ~ Final(q, h)
  <2>1. PICK x \in M : x > h
    BY <1>4
  <2>2. q[x].of.ent[1] = q[h].of.ent[1] /\ q[x].of.ent[2] = q[h].of.ent[2]
    BY <1>3, <2>1 DEF Live, Of
  <2>3. q[x].of.ent = q[h].of.ent
    BY <1>1, <1>3, <1>5, <2>1, <2>2, EntityIs
  <2> QED
    BY <1>1, <1>5, <2>1, <2>3 DEF Final
<1>8. PICK y \in Links(q) : Follows(q, h, y) /\ q[h].next = -y
  BY <1>1, <1>3, <1>5, <1>6, <1>7 DEF Ordered
<1>9. q[h].next < 0
  BY <1>1, <1>8 DEF Links
<1> QED
  BY <1>3, <1>9 DEF Whole

\* A flush starts on commands as they were recorded.
LEMMA StartLast ==
  ASSUME NEW w \in WorldType, Tidy(w.ent), NEW q \in Seq(Cmds), Ordered(q), \A k \in DOMAIN q : Raw(q[k]),
         Through(w.ent, q), NEW f, f.pos = 1, f.step = "batch", NEW sl \in Slots, NEW c \in Comps
  PROVE  LastAt(Meaning(w.ent, q), w.ent, q, f, sl, c)
<1> DEFINE ent == w.ent
           x == Meaning(ent, q)
           n == Len(q)
           T == OpSets(ent, q, n, sl, c)
           R == OpRemoves(ent, q, n, sl, c)
           S == Carries(ent, q, f, sl, c)
           L == Loses(ent, q, f, sl, c)
           M == Live(ent, q, f, sl)
<1>1. SUFFICES ASSUME x[sl].val[c] \in Values PROVE LastAt(x, ent, q, f, sl, c)
  BY DEF LastAt
<1>2. ValueAt(ent, q, n, x, sl, c)
  BY RawQueue, WorldIs, MeaningVal
<1>3. DOMAIN q = 1..n /\ n \in Nat
  BY LenProperties
<1> HIDE DEF ent, x, n
<1>4. M = {k \in 1..n : Of(ent, sl, q[k])} /\ M \subseteq Nat
  BY <1>3 DEF Live
<1>5. /\ T = {k \in M : q[k].of.op = "set" /\ q[k].of.comp = c}
      /\ R = {k \in M : q[k].of.op = "clear" \/ (q[k].of.op = "remove" /\ q[k].of.comp = c)}
  BY <1>4 DEF OpSets, OpRemoves
<1>6. L = R
  <2>1. \A k \in M : Removes(q, k, c) <=> q[k].of.op = "clear" \/ (q[k].of.op = "remove" /\ q[k].of.comp = c)
    BY <1>3, <1>4, RawQueue
  <2> QED
    BY <1>5, <2>1 DEF Loses
<1>7. \A k \in M : /\ Alive(ent, q[k].of.ent) /\ q[k].of.ent[1] = sl
                   /\ q[k].of.op # "set" => q[k].kind \notin {"Set", "Ensure"}
                   /\ q[k].of.op = "set" /\ q[k].of.comp = c =>
                        IF ent[sl].val[c] = None
                        THEN q[k].kind \in {"Set", "Ensure"} /\ q[k].val = q[k].of.arg
                        ELSE /\ q[k].kind \notin {"Set", "Ensure"}
                             /\ (\A j \in DOMAIN q : SetOf(q[j], q[k].of.ent, c) => j <= k) => ent[sl].val[c] = q[k].of.arg
  BY <1>3, <1>4 DEF Through, ent, Of
<1>8. T = {} => R = {} /\ x[sl].val[c] = ent[sl].val[c]
  BY <1>1, <1>2 DEF ValueAt
<1>9. ASSUME T # {} PROVE \E k \in T : q[k].of.arg = x[sl].val[c] /\ \A j \in T \cup R : j <= k
  BY <1>1, <1>2, <1>9 DEF ValueAt
<1>10. ASSUME L # {} PROVE Whole(ent, q, f, sl)
  <2>1. T # {} /\ R # {}
    BY <1>6, <1>8, <1>10
  <2>2. PICK k \in T : TRUE
    BY <2>1
  <2>3. PICK j \in R : TRUE
    BY <2>1
  <2>4. k \in M /\ j \in M /\ j # k
    BY <1>5, <2>2, <2>3
  <2>5. Unplain(q)
    BY RawQueue
  <2> HIDE DEF M
  <2> QED
    BY <2>4, <2>5, SeveralWhole DEF M
<1>11. S = IF ent[sl].val[c] = None THEN T ELSE {}
  <2>1. S = {k \in M : q[k].kind \in {"Set", "Ensure"} /\ q[k].of.comp = c}
    BY DEF Carries
  <2> QED
    BY <1>5, <1>7, <2>1
<1>12. S = {} => ent[sl].val[c] = x[sl].val[c]
  <2>1. CASE T = {}
    BY <1>8, <2>1
  <2>2. CASE T # {} /\ ent[sl].val[c] # None
    <3>1. PICK k \in T : q[k].of.arg = x[sl].val[c] /\ \A j \in T \cup R : j <= k
      BY <1>9, <2>2
    <3>2. ASSUME NEW j \in DOMAIN q, SetOf(q[j], q[k].of.ent, c) PROVE j <= k
      <4>1. j \in T
        BY <1>3, <1>4, <1>5, <3>1, <3>2 DEF SetOf, Of
      <4> QED
        BY <3>1, <4>1
    <3> QED
      BY <1>5, <1>7, <2>2, <3>1, <3>2
  <2> QED
    BY <1>11, <2>1, <2>2
<1>13. ASSUME S # {} PROVE \E k \in S : q[k].val = x[sl].val[c] /\ \A j \in S \cup L : j <= k
  <2>1. S = T /\ ent[sl].val[c] = None /\ T # {}
    BY <1>11, <1>13
  <2>2. \A k \in T : q[k].val = q[k].of.arg
    BY <1>5, <1>7, <2>1
  <2> QED
    BY <1>6, <1>9, <2>1, <2>2
<1> HIDE DEF S, L, T, R, M
<1>14. LastAt(x, ent, q, f, sl, c)
  BY <1>10, <1>12, <1>13 DEF LastAt, S, L
<1> QED
  BY <1>14

\* No flush goes on, and one starts if the buffer of stage s has commands.
LEMMA SwapLast ==
  ASSUME NEW w \in WorldType, Tidy(w.ent), NEW st \in [Stages -> StageType], RawOK(st, <<>>),
         IdleLast(w, st, <<>>), NEW s \in Stages, st[s].buf[1 - st[s].cmd].queue = <<>>,
         \A b \in 0..1 : Ordered(st[s].buf[b].queue), BecomesNext(Swapped(st, <<>>, w, s))
  PROVE  IdleLast(w, stage', flush') /\ FlushLast(w, stage', flush', want')
<1> DEFINE b == st[s].cmd
           q == st[s].buf[b].queue
           v == [st EXCEPT ![s].cmd = 1 - b]
           f == [stage |-> s, buf |-> b, pos |-> 1, step |-> "batch", added |-> {}]
<1>1. b \in 0..1 /\ st[s].buf[b] \in BufType
  BY StageIs
<1>2. q \in Seq(Cmds) /\ Ordered(q)
  BY <1>1, BufIs
<1>3. CASE q = <<>>
  <2>1. stage' = st /\ flush' = <<>>
    BY <1>3 DEF Swapped, BecomesNext
  <2> QED
    BY <2>1 DEF FlushLast
<1>4. CASE q # <<>>
  <2>1. stage' = v /\ flush' = Append(<<>>, f) /\ want' = Meaning(w.ent, q)
    BY <1>4 DEF Swapped, BecomesNext
  <2>2. Append(<<>>, f) = <<f>> /\ <<f>>[1] = f /\ <<f>> # <<>>
    OBVIOUS
  <2>3. \A t \in Stages : v[t].buf = st[t].buf
    <3>1. st[s] \in [defer : {st[s].defer}, cmd : {st[s].cmd}, buf : {st[s].buf}]
      BY StageIs
    <3> QED
      BY <3>1
  <2>4. f.pos = 1 /\ f.step = "batch" /\ f.stage = s /\ f.buf = b
    OBVIOUS
  <2> HIDE DEF f, v
  <2>5. flush' # <<>> /\ flush'[1] = f /\ BufOf(stage', f).queue = q /\ stage'[s].buf[1 - b].queue = <<>>
    BY <2>1, <2>2, <2>3, <2>4 DEF BufOf
  <2>6. (\A k \in DOMAIN q : Raw(q[k])) /\ Through(w.ent, q)
    BY <1>1, Empty DEF RawOK, Flushed, IdleLast
  <2> HIDE DEF q, b
  <2>7. \A sl \in Slots, c \in Comps : LastAt(Meaning(w.ent, q), w.ent, q, f, sl, c)
    BY <1>2, <2>4, <2>6, StartLast
  <2> QED
    BY <2>1, <2>4, <2>5, <2>7 DEF IdleLast, FlushLast
<1> QED
  BY <1>3, <1>4

LEMMA FinishLast ==
  ASSUME Alone, QueueInv, OrderInv, LastInv, hooks = HookBudget, FinishBuffer
  PROVE  LastInv'
<1> DEFINE nb == [Buf EXCEPT !.queue = <<>>]
           st == [stage EXCEPT ![Top.stage].buf[Top.buf].queue = <<>>]
<1>1. Sound(world, stage, flush)
  BY DEF QueueInv
<1>2. flush # <<>> /\ BecomesNext(Swapped(st, Front(flush), world, Top.stage)) /\ world' = world
  BY DEF FinishBuffer
<1>3. /\ flush \in Seq(FrameType) /\ Top.stage \in Stages /\ Top.buf \in 0..1
      /\ Buf \in BufType /\ Buf = stage[Top.stage].buf[Top.buf]
      /\ stage \in [Stages -> StageType]
  BY <1>1, <1>2, TopIs DEF Sound, SoundBut, Typed
<1>4. Len(flush) = 1 /\ Top = flush[1]
  BY <1>2, FlushIs
<1>5. Front(flush) = <<>>
  <2>1. Over(flush, Front(flush))
    BY <1>2, <1>3, FrontIs
  <2>2. Front(flush) \in Seq(FrameType) /\ Len(Front(flush)) = 0
    BY <1>4, <2>1 DEF Over
  <2> QED
    BY <2>2, FramesAre
<1>6. nb \in BufType /\ nb.queue = <<>>
  <2>1. Buf \in [queue : {Buf.queue}, entry : {Buf.entry}] /\ Buf.entry \in [Slots -> Entry]
    BY <1>3, BufIs
  <2>2. nb.queue = <<>> /\ nb.entry = Buf.entry /\ nb \in [queue : {nb.queue}, entry : {nb.entry}]
    BY <2>1
  <2>3. nb.queue \in Seq(Cmds)
    BY <2>2, Empty
  <2> HIDE DEF nb
  <2> QED
    BY <2>1, <2>2, <2>3 DEF BufType
<1>7. PutBuf(stage, st, Top.stage, Top.buf, nb)
  <2>1. st = [stage EXCEPT ![Top.stage].buf[Top.buf] = nb]
    BY <1>3
  <2> HIDE DEF nb, st
  <2> QED
    BY <1>3, <1>6, <2>1, PutBufIs
<1> HIDE DEF nb, st
<1>8. Top.stage = Main /\ \A s \in Stages : s = Main
  BY <1>3 DEF Alone
<1>9. \A b \in 0..1 : st[Main].buf[b].queue = <<>>
  <2>1. stage[Main].buf[1 - Top.buf].queue = <<>>
    BY <1>2, <1>4, <1>8 DEF LastInv, FlushLast
  <2>2. st[Main].buf[Top.buf].queue = <<>> /\ st[Main].buf[1 - Top.buf].queue = <<>>
    BY <1>6, <1>7, <1>8, <2>1 DEF PutBuf
  <2>3. \A b \in 0..1 : b = Top.buf \/ b = 1 - Top.buf
    BY <1>3
  <2> QED
    BY <2>2, <2>3
<1>10. st[Main].cmd \in 0..1 /\ st[Main].defer = stage[Main].defer
  <2>1. st \in [Stages -> StageType]
    BY <1>7 DEF PutBuf, Except
  <2> QED
    BY <1>7, <1>8, <2>1, StageIs, Consts DEF PutBuf
<1>11. stage' = st /\ flush' = <<>>
  <2>1. st[Main].buf[st[Main].cmd].queue = <<>>
    BY <1>9, <1>10
  <2>2. Swapped(st, <<>>, world, Main).stage = st /\ Swapped(st, <<>>, world, Main).flush = <<>>
    BY <2>1 DEF Swapped
  <2> QED
    BY <1>2, <1>5, <1>8, <2>2 DEF BecomesNext
<1>12. IdleLast(world', stage', flush')
  BY <1>8, <1>9, <1>11, Empty DEF IdleLast, Through
<1> QED
  BY <1>10, <1>11, <1>12 DEF LastInv, FlushLast

LEMMA EndLast ==
  ASSUME QueueInv, OrderInv, LastInv, hooks = HookBudget, flush = <<>>, world' = world, Alone,
         NEW s \in Stages, stage[s].defer > 0, DeferEndOf(s)
  PROVE  LastInv'
<1> DEFINE n == stage[s].defer - 1
           st == [stage EXCEPT ![s].defer = n]
<1>1. /\ stage \in [Stages -> StageType] /\ world \in WorldType /\ BuffersOK(stage, flush, {})
      /\ LinksOK(world, stage, flush)
  BY DEF QueueInv, Sound, SoundBut, Typed
<1>2. n \in -MaxDefer .. MaxDefer /\ n >= 0
  <2>1. stage[s].defer \in -MaxDefer .. MaxDefer /\ MaxDefer \in Nat
    BY <1>1, StageIs, Consts
  <2> QED
    BY <2>1
<1>3. BecomesNext(IF st[s].defer = 0 THEN Ended(st, flush, world, s)
                  ELSE [stage |-> st, flush |-> flush, want |-> want])
  BY DEF DeferEndOf
<1> HIDE DEF n
<1>4. PutDefer(stage, st, s, n)
  BY <1>1, <1>2, PutDeferIs
<1> HIDE DEF st
<1>5. Nested(stage, st)
  BY <1>1, <1>4, PutDeferNested
<1>6. /\ Tidy(world.ent) /\ RawOK(st, <<>>) /\ st \in [Stages -> StageType]
      /\ IdleLast(world, st, <<>>)
  BY <1>5, RawNested DEF OrderInv, LastInv, IdleLast, Nested
<1>7. s = Main /\ st[Main].defer >= 0
  BY <1>2, <1>4 DEF Alone, PutDefer
<1>8. CASE st[s].defer = 0
  <2>1. ~ \E i \in DOMAIN flush : flush[i].stage = s
    BY Empty
  <2>2. BecomesNext(Swapped(st, <<>>, world, s))
    BY <1>3, <1>8, <2>1 DEF Ended
  <2>3. st[s].buf[1 - st[s].cmd].queue = <<>>
    <3>1. stage[s].cmd \in 0..1
      BY <1>1, StageIs
    <3>2. 1 - stage[s].cmd \in 0..1 /\ 1 - stage[s].cmd # stage[s].cmd
      BY <3>1
    <3>3. ~ Flushed(flush, s, 1 - stage[s].cmd)
      BY Empty DEF Flushed
    <3>4. stage[s].buf[1 - stage[s].cmd].queue = <<>>
      BY <1>1, <3>2, <3>3 DEF BuffersOK, Filled
    <3> QED
      BY <1>5, <3>4 DEF Nested
  <2>4. \A b \in 0..1 : Ordered(st[s].buf[b].queue)
    BY <1>1, <1>5 DEF LinksOK, Nested
  <2>5. IdleLast(world, stage', flush') /\ FlushLast(world, stage', flush', want')
    BY <1>1, <1>6, <2>2, <2>3, <2>4, SwapLast
  <2>6. stage'[Main].defer = st[Main].defer
    <3>1. stage' = st \/ stage' = [st EXCEPT ![s].cmd = 1 - st[s].cmd]
      BY <2>2 DEF Swapped, BecomesNext
    <3>2. st[s] \in [defer : {st[s].defer}, cmd : {st[s].cmd}, buf : {st[s].buf}]
      BY <1>6, StageIs
    <3> QED
      BY <1>6, <1>7, <3>1, <3>2
  <2> QED
    BY <1>7, <2>5, <2>6 DEF LastInv
<1>9. CASE st[s].defer # 0
  <2>1. stage' = st /\ flush' = <<>>
    BY <1>3, <1>9 DEF BecomesNext
  <2> QED
    BY <1>6, <1>7, <2>1 DEF LastInv, FlushLast
<1> QED
  BY <1>8, <1>9

LEMMA MergeLast ==
  ASSUME QueueInv, OrderInv, LastInv, hooks = HookBudget, Alone, MergeStage
  PROVE  LastInv'
<1> DEFINE s == Head(merging)
<1>1. DeferOK
  BY DEF QueueInv
<1>2. flush = <<>> /\ merging # <<>> /\ DeferEndOf(s) /\ world' = world
  BY DEF MergeStage
<1>3. merging \in Seq(Stages) /\ IsInjective(merging) /\ ~ readonly
  BY <1>1, <1>2 DEF DeferOK, Idle
<1>4. s \in Stages /\ s \in ToSet(merging)
  BY <1>2, <1>3, TailIs
<1> HIDE DEF s
<1>5. stage[s].defer = 1
  BY <1>1, <1>2, <1>3, <1>4 DEF DeferOK, Idle
<1>6. stage[s].defer > 0
  BY <1>5
<1> QED
  BY <1>2, <1>4, <1>6, EndLast

-----------------------------------------------------------------------------
(* Recording, and the values.                                              *)

\* A set of a component that is there is written, and nothing else.
WrittenTo(w, v, o) ==
  \A sl \in Slots :
    /\ v.ent[sl].alive = w.ent[sl].alive /\ v.ent[sl].gen = w.ent[sl].gen
    /\ \A c \in Comps : v.ent[sl].val[c] = IF o.op = "set" /\ sl = o.ent[1] /\ c = o.comp /\ w.ent[sl].val[c] # None
                                           THEN o.arg ELSE w.ent[sl].val[c]

LEMMA WrittenVal ==
  ASSUME NEW w \in WorldType, NEW S, NEW o \in Operations(S)
  PROVE  WrittenTo(w, WrittenThrough(w, o), o)
<1> DEFINE v == WrittenThrough(w, o)
           m == MakeValue(w, o.comp)
<1>1. o.ent \in Entities /\ o.comp \in Comps \cup {None} /\ o.arg \in Values \cup {None}
      /\ (o.comp = None) = (o.op \in {"clear", "delete"}) /\ (o.arg = None) = (o.op # "set")
  BY OperationIs
<1>2. CASE o.op # "set"
  BY <1>2 DEF WrittenThrough, WrittenTo
<1>3. CASE o.op = "set"
  <2>1. o.comp \in Comps /\ o.arg \in Values /\ o.ent[1] \in Slots
    BY <1>1, <1>3, EntityIs
  <2>2. m \in WorldType /\ m.ent = w.ent
    BY <2>1, MakeValueIs
  <2>3. o.comp \in Has(w.ent, o.ent) <=> w.ent[o.ent[1]].val[o.comp] # None
    BY <2>1, HasIs
  <2> HIDE DEF m
  <2>4. CASE o.comp \in Has(w.ent, o.ent)
    <3>1. v = Overwrite(m, o.ent, o.comp, o.arg, TRUE)
      BY <1>3, <2>4 DEF WrittenThrough, m
    <3> HIDE DEF v
    <3>2. Overwritten(m, v, o.ent, o.comp, TRUE)
      BY <1>1, <2>1, <2>2, <3>1, OverwriteIs
    <3>3. \A c \in Comps : v.ent[o.ent[1]].val[c] = IF c = o.comp THEN o.arg ELSE w.ent[o.ent[1]].val[c]
      <4> DEFINE x == o.arg
                 d == o.comp
                 e == o.ent
                 yes == TRUE
      <4>1. x \in Values /\ d \in Comps /\ e \in Entities /\ yes \in BOOLEAN /\ v = Overwrite(m, e, d, x, yes)
        BY <1>1, <2>1, <3>1
      <4> HIDE DEF x, d, e, yes
      <4>2. \A c \in Comps : Overwrite(m, e, d, x, yes).ent[e[1]].val[c] = IF c = d THEN x ELSE m.ent[e[1]].val[c]
        BY <2>2, <4>1, OverwriteVal
      <4> QED
        BY <2>2, <4>1, <4>2 DEF x, d, e
    <3>4. \A sl \in Slots : /\ v.ent[sl].alive = w.ent[sl].alive /\ v.ent[sl].gen = w.ent[sl].gen
                            /\ sl # o.ent[1] => v.ent[sl] = w.ent[sl]
      BY <2>2, <3>2 DEF Overwritten, SameLife, Others
    <3>5. WrittenTo(w, v, o)
      BY <1>3, <2>3, <2>4, <3>3, <3>4 DEF WrittenTo
    <3> QED
      BY <3>5 DEF v
  <2>5. CASE o.comp \notin Has(w.ent, o.ent)
    <3>1. v = m
      BY <1>3, <2>5 DEF WrittenThrough, m
    <3> HIDE DEF v
    <3>2. WrittenTo(w, v, o)
      BY <2>2, <2>3, <2>5, <3>1 DEF WrittenTo
    <3> QED
      BY <3>2 DEF v
  <2> QED
    BY <2>4, <2>5
<1> QED
  BY <1>2, <1>3

\* What is recorded for a set waits in the command if the component is missing.
LEMMA RecordedThrough ==
  ASSUME NoPlain, NEW w \in WorldType, NEW o \in AllOps,
         NEW cmd, cmd = Command(CmdKind(w.ent, o), o)
  PROVE  /\ o.op # "set" => cmd.kind \notin {"Set", "Ensure"}
         /\ o.op = "set" =>
              /\ o.comp \in Comps /\ o.arg \in Values
              /\ IF w.ent[o.ent[1]].val[o.comp] = None THEN cmd.kind \in {"Set", "Ensure"} /\ cmd.val = o.arg
                 ELSE cmd.kind \notin {"Set", "Ensure"}
<1>1. /\ o.op \in {"add", "remove", "set", "clear", "delete"}
      /\ o.op = "set" => o.comp \in Comps /\ o.arg \in Values
  <2>1. /\ o.op \in Ops \cup HookOps \cup {"set"} /\ (o.comp = None) = (o.op \in {"clear", "delete"})
        /\ o.comp \in Comps \cup {None} /\ o.arg \in Values \cup {None} /\ (o.arg = None) = (o.op # "set")
    BY OperationIs DEF AllOps
  <2> QED
    BY <2>1, ConstantsAssumption
<1>2. /\ cmd.kind = CmdKind(w.ent, o)
      /\ (o.op = "set" /\ o.comp \notin Has(w.ent, o.ent)) => cmd.val = o.arg
  BY CommandIs
<1> DEFINE kind == CmdKind(w.ent, o)
<1>3. o.op = "set" => Kind[o.comp] \in {"trivial", "replace"}
  BY <1>1, Consts DEF NoPlain
<1>4. o.op = "set" => IF o.comp \in Has(w.ent, o.ent) THEN kind \in {"Add", "AddModified"}
                      ELSE kind \in {"Set", "Ensure"}
  BY <1>3 DEF CmdKind, SetKind
<1>5. o.op # "set" => kind \in {"Add", "Remove", "Clear", "Delete"}
  BY <1>1 DEF CmdKind
<1>6. o.op = "set" => (o.comp \in Has(w.ent, o.ent) <=> w.ent[o.ent[1]].val[o.comp] # None)
  BY <1>1, HasIs
<1> HIDE DEF kind
<1>7. cmd.kind = kind
  BY <1>2 DEF kind
<1> QED
  BY <1>1, <1>2, <1>4, <1>5, <1>6, <1>7

\* One more command at the end, which is written through when it is recorded.
LEMMA AppendThrough ==
  ASSUME NEW w \in WorldType, NEW v, NEW o \in AllOps, WrittenTo(w, v, o), Alive(w.ent, o.ent),
         NEW q \in Seq(Cmds), Through(w.ent, q), NEW q2, DOMAIN q2 = 1..(Len(q) + 1),
         \A k \in 1..Len(q) : Alike(q[k], q2[k]),
         NEW cmd, q2[Len(q) + 1].kind = cmd.kind, q2[Len(q) + 1].of = o, q2[Len(q) + 1].val = cmd.val,
         o.op # "set" => cmd.kind \notin {"Set", "Ensure"},
         o.op = "set" =>
           /\ o.comp \in Comps /\ o.arg \in Values
           /\ IF w.ent[o.ent[1]].val[o.comp] = None THEN cmd.kind \in {"Set", "Ensure"} /\ cmd.val = o.arg
              ELSE cmd.kind \notin {"Set", "Ensure"}
  PROVE  Through(v.ent, q2)
<1> DEFINE n == Len(q) + 1
<1>1. Len(q) \in Nat /\ DOMAIN q = 1..Len(q) /\ n \in Nat /\ n \in DOMAIN q2
  BY LenProperties
<1>2. o.ent \in Entities /\ o.ent[1] \in Slots
  BY OperationIs, EntityIs DEF AllOps
<1>3. \A e \in Entities : Alive(v.ent, e) <=> Alive(w.ent, e)
  BY EntityIs DEF WrittenTo, Alive
<1>4. ASSUME NEW k \in DOMAIN q2
      PROVE  LET p == q2[k].of IN
             /\ Alive(v.ent, p.ent)
             /\ p.op # "set" => q2[k].kind \notin {"Set", "Ensure"}
             /\ p.op = "set" =>
                  IF v.ent[p.ent[1]].val[p.comp] = None
                  THEN q2[k].kind \in {"Set", "Ensure"} /\ q2[k].val = p.arg
                  ELSE /\ q2[k].kind \notin {"Set", "Ensure"}
                       /\ (\A j \in DOMAIN q2 : SetOf(q2[j], p.ent, p.comp) => j <= k)
                            => v.ent[p.ent[1]].val[p.comp] = p.arg
  <2>1. CASE k = n
    <3>1. q2[k].kind = cmd.kind /\ q2[k].of = o /\ q2[k].val = cmd.val
      BY <2>1
    <3>2. o.op = "set" => v.ent[o.ent[1]].val[o.comp] = IF w.ent[o.ent[1]].val[o.comp] = None THEN None ELSE o.arg
      BY <1>2 DEF WrittenTo
    <3>3. o.op = "set" => o.arg # None
      BY Consts
    <3> QED
      BY <1>2, <1>3, <3>1, <3>2, <3>3
  <2>2. CASE k # n
    <3> DEFINE p == q[k].of
    <3>1. k \in DOMAIN q /\ k < n
      BY <1>1, <1>4, <2>2
    <3>2. q2[k].kind = q[k].kind /\ q2[k].of = p /\ q2[k].val = q[k].val
      BY <1>1, <3>1 DEF Alike
    <3>3. q[k] \in Cmds
      BY <3>1, ElementOfSeq, LenProperties
    <3>4. p.ent \in Entities /\ p.ent[1] \in Slots /\ (p.op = "set" => p.comp \in Comps)
      <4>1. q[k].of \in AllOps \/ q[k].of.op = "none"
        BY <3>3, CmdIs DEF CommandType, AllOps
      <4> QED
        BY <3>3, <4>1, CmdIs, EntityIs, OperationIs DEF AllOps
    <3>5. /\ Alive(w.ent, p.ent)
          /\ p.op # "set" => q[k].kind \notin {"Set", "Ensure"}
          /\ p.op = "set" =>
               IF w.ent[p.ent[1]].val[p.comp] = None
               THEN q[k].kind \in {"Set", "Ensure"} /\ q[k].val = p.arg
               ELSE /\ q[k].kind \notin {"Set", "Ensure"}
                    /\ (\A j \in DOMAIN q : SetOf(q[j], p.ent, p.comp) => j <= k)
                         => w.ent[p.ent[1]].val[p.comp] = p.arg
      BY <3>1 DEF Through
    <3>6. o.ent[1] = p.ent[1] => o.ent = p.ent
      BY <1>2, <3>4, <3>5, EntityIs DEF Alive
    <3>7. (\A j \in DOMAIN q2 : SetOf(q2[j], p.ent, p.comp) => j <= k)
            => /\ \A j \in DOMAIN q : SetOf(q[j], p.ent, p.comp) => j <= k
               /\ ~ SetOf(q2[n], p.ent, p.comp)
      <4>1. \A j \in DOMAIN q : j \in DOMAIN q2 /\ q2[j].of = q[j].of
        BY <1>1 DEF Alike
      <4>2. ~ (n <= k)
        BY <1>1, <3>1
      <4> QED
        BY <1>1, <4>1, <4>2 DEF SetOf
    <3>8. ASSUME p.op = "set"
          PROVE  IF v.ent[p.ent[1]].val[p.comp] = None
                 THEN q[k].kind \in {"Set", "Ensure"} /\ q[k].val = p.arg
                 ELSE /\ q[k].kind \notin {"Set", "Ensure"}
                      /\ (\A j \in DOMAIN q2 : SetOf(q2[j], p.ent, p.comp) => j <= k)
                           => v.ent[p.ent[1]].val[p.comp] = p.arg
      <4> DEFINE same == o.op = "set" /\ p.ent[1] = o.ent[1] /\ p.comp = o.comp
      <4>1. v.ent[p.ent[1]].val[p.comp] =
              IF same /\ w.ent[p.ent[1]].val[p.comp] # None
              THEN o.arg ELSE w.ent[p.ent[1]].val[p.comp]
        BY <3>4, <3>8 DEF WrittenTo
      <4>2. same => SetOf(q2[n], p.ent, p.comp) /\ o.arg # None
        BY <3>6, Consts DEF SetOf
      <4>3. v.ent[p.ent[1]].val[p.comp] = None <=> w.ent[p.ent[1]].val[p.comp] = None
        BY <4>1, <4>2
      <4> HIDE DEF same, p, n
      <4> QED
        BY <3>5, <3>7, <3>8, <4>1, <4>2, <4>3
    <3> HIDE DEF p
    <3>9. Alive(v.ent, p.ent)
      BY <1>3, <3>4, <3>5
    <3> QED
      BY <3>2, <3>5, <3>8, <3>9
  <2> QED
    BY <2>1, <2>2
<1> QED
  BY <1>4 DEF Through

LEMMA IdleLasts ==
  ASSUME flush' = <<>>, stage'[Main].defer >= 0, IdleLast(world', stage', flush')
  PROVE  LastInv'
BY DEF LastInv, FlushLast

LEMMA DeferLast ==
  ASSUME QueueInv, LastInv, hooks = HookBudget, NoPlain, Alone,
         NEW s \in Stages, NEW o \in Operations(Ops), Defer(s, o)
  PROVE  LastInv'
<1> DEFINE kind == CmdKind(world.ent, o)
           cmd == Command(kind, o)
           b == stage[s].cmd
           buf == stage[s].buf[b]
           nb == Batched(buf, cmd)
<1>1. Sound(world, stage, flush) /\ world \in WorldType /\ stage \in [Stages -> StageType]
      /\ BuffersOK(stage, flush, {})
  BY DEF QueueInv, Sound, SoundBut, Typed
<1>2. /\ flush = <<>> /\ flush' = flush /\ Alive(world.ent, o.ent)
      /\ stage' = Recorded(stage, world.ent, s, o) /\ world' = WrittenThrough(world, o)
  BY DEF Defer, Idle
<1>3. o \in AllOps
  BY OperationSub DEF AllOps
<1>4. IdleLast(world, stage, flush) /\ stage[Main].defer >= 0
  BY DEF LastInv
<1>5. cmd \in Cmds /\ cmd.of = o /\ cmd.next = 0 /\ cmd.of.op # "none" /\ cmd.kind = kind
  BY <1>3, CommandIs
<1>6. kind # "Emplace"
  BY <1>3, <1>5, RecordedRaw
<1>7. /\ o.op # "set" => cmd.kind \notin {"Set", "Ensure"}
      /\ o.op = "set" =>
           /\ o.comp \in Comps /\ o.arg \in Values
           /\ IF world.ent[o.ent[1]].val[o.comp] = None THEN cmd.kind \in {"Set", "Ensure"} /\ cmd.val = o.arg
              ELSE cmd.kind \notin {"Set", "Ensure"}
  BY <1>1, <1>3, RecordedThrough
<1> HIDE DEF cmd, kind
<1>8. b \in 0..1 /\ ~ Flushed(flush, s, b) /\ Recordable(world.ent, buf)
  BY <1>1, FillingIs, StageIs DEF Sound
<1>9. Batch2(buf, cmd, nb)
  <2>1. world.ent[cmd.of.ent[1]].gen = cmd.of.ent[2]
    BY <1>2, <1>5 DEF Alive
  <2> QED
    BY <1>5, <1>8, <2>1, BatchedIs
<1>10. stage' = [stage EXCEPT ![s].buf[b] = nb]
  BY <1>2, <1>6 DEF Recorded, Notified, kind, cmd
<1> HIDE DEF nb
<1>11. PutBuf(stage, stage', s, b, nb)
  BY <1>1, <1>8, <1>9, <1>10, PutBufIs DEF Batch2
<1>12. WrittenTo(world, world', o)
  BY <1>1, <1>2, WrittenVal
<1>13. buf.queue \in Seq(Cmds) /\ nb.queue \in Seq(Cmds) /\ Len(nb.queue) = Len(buf.queue) + 1
       /\ DOMAIN nb.queue = 1..(Len(buf.queue) + 1)
  <2>1. buf \in BufType /\ nb \in BufType
    BY <1>8, <1>9 DEF Recordable, Batch2
  <2> QED
    BY <1>9, <2>1, BufIs, LenProperties DEF Batch2
<1>14. Through(world.ent, buf.queue)
  BY <1>2, <1>4, <1>8 DEF IdleLast
<1>15. Through(world'.ent, nb.queue)
  <2> DEFINE q == buf.queue
             q2 == nb.queue
  <2>1. /\ \A k \in 1..Len(q) : Alike(q[k], q2[k])
        /\ q2[Len(q) + 1].kind = cmd.kind /\ q2[Len(q) + 1].of = o /\ q2[Len(q) + 1].val = cmd.val
    BY <1>5, <1>9, <1>13 DEF Batch2
  <2>2. q \in Seq(Cmds) /\ DOMAIN q2 = 1..(Len(q) + 1) /\ Through(world.ent, q)
    BY <1>13, <1>14
  <2> HIDE DEF q, q2, buf
  <2>3. Through(world'.ent, q2)
    BY <1>1, <1>2, <1>3, <1>7, <1>12, <2>1, <2>2, AppendThrough
  <2> QED
    BY <2>3 DEF q2
<1>16. s = Main /\ \A t \in Stages : t = s
  BY DEF Alone
<1>17. stage'[s].buf[b] = nb /\ stage'[s].buf[1 - b].queue = <<>> /\ stage'[Main].defer >= 0
  <2>1. 1 - b \in 0..1 /\ 1 - b # b /\ ~ Flushed(flush, s, 1 - b)
    BY <1>2, <1>8, Empty DEF Flushed
  <2>2. stage[s].buf[1 - b].queue = <<>>
    BY <1>1, <2>1 DEF BuffersOK, Filled
  <2> QED
    BY <1>4, <1>11, <1>16, <2>2 DEF PutBuf
<1>18. \A d \in 0..1 : d = b \/ d = 1 - b
  BY <1>8
<1> HIDE DEF b
<1>19. ASSUME NEW t \in Stages, NEW d \in 0..1
       PROVE  Through(world'.ent, stage'[t].buf[d].queue)
  <2>1. t = s
    BY <1>16
  <2>2. CASE d = b
    BY <1>15, <1>17, <2>1, <2>2
  <2>3. CASE d = 1 - b
    <3>1. stage'[t].buf[d].queue = <<>>
      BY <1>17, <2>1, <2>3
    <3> QED
      BY <3>1, Empty DEF Through
  <2> QED
    BY <1>18, <2>2, <2>3
<1> QED
  BY <1>2, <1>17, <1>19, IdleLasts DEF IdleLast

\* A new entity is none that a command is about.
LEMMA NewLast ==
  ASSUME QueueInv, LastInv, hooks = HookBudget, NEW s \in Slots, New(s)
  PROVE  LastInv'
<1>1. Born(world, world', s) /\ ~ world.ent[s].alive
  BY NewIs
<1>2. UNCHANGED <<stage, flush>> /\ flush = <<>>
  BY DEF New, Idle
<1>3. IdleLast(world, stage, flush) /\ stage[Main].defer >= 0
  BY DEF LastInv
<1>4. stage \in [Stages -> StageType]
  BY DEF QueueInv, Sound, SoundBut, Typed
<1>5. ASSUME NEW t \in Stages, NEW b \in 0..1
      PROVE  Through(world'.ent, stage[t].buf[b].queue)
  <2> DEFINE q == stage[t].buf[b].queue
  <2>1. Through(world.ent, q) /\ q \in Seq(Cmds)
    BY <1>2, <1>3, <1>4, <1>5, StageIs, BufIs DEF IdleLast
  <2> HIDE DEF q
  <2>2. ASSUME NEW k \in DOMAIN q
        PROVE  Alive(world.ent, q[k].of.ent) /\ q[k].of.ent[1] \in Slots \ {s}
    <3>1. Alive(world.ent, q[k].of.ent)
      BY <2>1 DEF Through
    <3>2. q[k] \in Cmds
      BY <2>1, ElementOfSeq, LenProperties
    <3> QED
      BY <1>1, <3>1, <3>2, CmdIs, EntityIs DEF Alive
  <2>3. \A k \in DOMAIN q : world'.ent[q[k].of.ent[1]] = world.ent[q[k].of.ent[1]]
    BY <1>1, <2>2 DEF Born
  <2>4. Through(world'.ent, q)
    BY <2>1, <2>3 DEF Through, Alive
  <2> QED
    BY <2>4 DEF q
<1>6. IdleLast(world', stage', flush')
  BY <1>2, <1>5 DEF IdleLast
<1> QED
  BY <1>2, <1>3, <1>6, IdleLasts

\* What is not deferred finds the buffers empty.
LEMMA RunNowLast ==
  ASSUME QueueInv, LastInv, hooks = HookBudget, Alone, NEW o \in Operations(Ops), RunNow(o)
  PROVE  LastInv'
<1>1. /\ flush = <<>> /\ stage' = stage /\ flush' = flush /\ stage[Main].defer <= 0 /\ stage[Main].defer >= 0
      /\ stage \in [Stages -> StageType] /\ BuffersOK(stage, flush, {})
  BY DEF RunNow, Idle, LastInv, QueueInv, Sound, SoundBut, Typed
<1>2. stage[Main].defer = 0
  <2>1. stage[Main].defer \in -MaxDefer .. MaxDefer /\ MaxDefer \in Nat
    BY <1>1, StageIs, Consts
  <2> QED
    BY <1>1, <2>1
<1>3. ~ InFlush(flush, Main) /\ \A b \in 0..1 : ~ Flushed(flush, Main, b)
  BY <1>1, Empty DEF InFlush, Flushed
<1>4. \A s \in Stages, b \in 0..1 : stage[s].buf[b].queue = <<>>
  BY <1>1, <1>2, <1>3 DEF BuffersOK, Filled, Alone
<1>5. IdleLast(world', stage', flush')
  BY <1>1, <1>4, Empty DEF IdleLast, Through
<1> QED
  BY <1>1, <1>5, IdleLasts

\* Deferring begins or ends without a flush.
LEMMA NestedLast ==
  ASSUME LastInv, hooks = HookBudget, flush = <<>>, UNCHANGED <<world, flush>>, Nested(stage, stage'),
         stage'[Main].defer >= 0
  PROVE  LastInv'
<1>1. IdleLast(world', stage', flush')
  BY DEF LastInv, IdleLast, Nested
<1> QED
  BY <1>1, IdleLasts

LEMMA NestLast ==
  ASSUME QueueInv, LastInv, hooks = HookBudget, Alone, DeferBegin \/ Suspend \/ Resume
  PROVE  LastInv'
<1>1. stage \in [Stages -> StageType] /\ Main \in Stages
  BY Consts DEF QueueInv, Sound, SoundBut, Typed
<1>2. stage[Main].defer >= 0 /\ stage[Main].defer \in -MaxDefer .. MaxDefer /\ MaxDefer \in Nat
  BY <1>1, StageIs, Consts DEF LastInv
<1>3. DeferBegin
  BY <1>2 DEF Suspend, Resume, Alone
<1>4. flush = <<>>
  BY <1>3 DEF DeferBegin, Idle
<1>5. stage'[Main].defer = stage[Main].defer + 1
  <2>1. stage[Main] \in [defer : {stage[Main].defer}, cmd : {stage[Main].cmd}, buf : {stage[Main].buf}]
    BY <1>1, StageIs
  <2> QED
    BY <1>1, <1>3, <2>1 DEF DeferBegin
<1>6. stage'[Main].defer >= 0
  BY <1>2, <1>5
<1> QED
  BY <1>4, <1>6, NestIs, NestedLast

LEMMA ReadonlyLast ==
  ASSUME QueueInv, LastInv, hooks = HookBudget, ReadonlyBegin
  PROVE  LastInv'
<1>1. stage \in [Stages -> StageType] /\ Main \in Stages /\ flush = <<>>
  BY Consts DEF QueueInv, Sound, SoundBut, Typed, ReadonlyBegin, Idle
<1>2. stage'[Main].defer = 1
  <2>1. stage[Main] \in [defer : {stage[Main].defer}, cmd : {stage[Main].cmd}, buf : {stage[Main].buf}]
    BY <1>1, StageIs
  <2> QED
    BY <1>1, <2>1 DEF ReadonlyBegin
<1> QED
  BY <1>1, <1>2, ReadonlyBeginIs, NestedLast

LEMMA InitLast ==
  ASSUME Init
  PROVE  LastInv
<1>1. \A s \in Stages, b \in 0..1 : stage[s].buf[b].queue = <<>>
  BY DEF Init, EmptyBuffer
<1>2. IdleLast(world, stage, flush)
  BY <1>1, Empty DEF IdleLast, Through
<1>3. stage[Main].defer >= 0 /\ flush = <<>>
  BY Consts DEF Init
<1> QED
  BY <1>2, <1>3 DEF LastInv, FlushLast

LEMMA LastStep ==
  ASSUME NoPlain, Alone, QueueInv, WriteInv, OrderInv, LastInv, [Next]_vars
  PROVE  LastInv'
<1>1. SUFFICES ASSUME hooks' = HookBudget PROVE LastInv'
  BY DEF LastInv
<1>2. hooks = HookBudget
  BY <1>1, HooksFall DEF QueueInv
<1>3. ASSUME NEW s \in Slots, New(s) PROVE LastInv'
  BY <1>2, <1>3, NewLast
<1>4. ASSUME NEW s \in Stages, NEW o \in Operations(Ops), Defer(s, o) PROVE LastInv'
  BY <1>2, <1>4, DeferLast
<1>5. ASSUME NEW o \in Operations(Ops), RunNow(o) PROVE LastInv'
  BY <1>2, <1>5, RunNowLast
<1>6. CASE DeferBegin \/ Suspend \/ Resume
  BY <1>2, <1>6, NestLast
<1>7. CASE DeferEnd
  <2>1. Main \in Stages /\ flush = <<>> /\ world' = world /\ stage[Main].defer > 0 /\ DeferEndOf(Main)
    BY <1>7, Consts DEF DeferEnd, Idle
  <2> QED
    BY <1>2, <2>1, EndLast
<1>8. CASE ReadonlyBegin
  BY <1>2, <1>8, ReadonlyLast
<1>9. CASE ReadonlyEnd
  <2>1. flush = <<>> /\ UNCHANGED <<world, stage, flush>>
    BY <1>9 DEF ReadonlyEnd, Idle
  <2>2. Nested(stage, stage')
    BY <2>1 DEF QueueInv, Sound, SoundBut, Typed, Nested
  <2> QED
    BY <1>2, <2>1, <2>2, NestedLast DEF LastInv
<1>10. CASE MergeStage
  BY <1>2, <1>10, MergeLast
<1>11. CASE CommitBatch
  BY <1>1, <1>2, <1>11, CommitBatchLast
<1>12. CASE MoveValues
  BY <1>1, <1>2, <1>12, MoveValuesLast
<1>13. CASE DiscardCmd
  BY <1>2, <1>13, DiscardLast
<1>14. CASE ExecuteCmd
  BY <1>1, <1>2, <1>14, ExecuteLast
<1>15. CASE EnsureCmd
  BY <1>1, <1>2, <1>15, EnsureLast
<1>16. CASE WriteCmd
  BY <1>2, <1>16, WriteLast
<1>17. CASE FinishBuffer
  BY <1>2, <1>17, FinishLast
<1>18. CASE UNCHANGED vars
  <2>1. UNCHANGED <<world, stage, flush, hooks, want>>
    BY <1>18 DEF vars
  <2> QED
    BY <2>1 DEF LastInv, IdleLast, FlushLast, BufOf
<1> QED
  BY <1>3, <1>4, <1>5, <1>6, <1>7, <1>8, <1>9, <1>10, <1>11, <1>12, <1>13, <1>14, <1>15, <1>16, <1>17,
     <1>18 DEF Next

LEMMA LastAtEnd ==
  ASSUME QueueInv, OrderInv, LastInv
  PROVE  LastSetWins
<1>1. SUFFICES ASSUME JustFlushed, NEW s \in Slots, NEW c \in Comps, want[s].val[c] \in Values
               PROVE  world.ent[s].val[c] = want[s].val[c]
  BY DEF LastSetWins
<1>2. flush # <<>> /\ Top.pos > Len(Buf.queue) /\ hooks = HookBudget
  BY <1>1 DEF JustFlushed
<1>3. Buf.queue \in Seq(Cmds)
  BY <1>2, FlushIs
<1>4. Top.pos \in Nat
  BY <1>2, TopIs DEF QueueInv
<1>5. Carries(world.ent, Buf.queue, Top, s, c) = {}
  BY <1>2, <1>3, <1>4, LenProperties DEF Live, Carries
<1>6. LastAt(want, world.ent, Buf.queue, Top, s, c)
  BY <1>2, CmdLast
<1> QED
  BY <1>1, <1>5, <1>6 DEF LastAt

\* If no component is emplaced, and there is one stage, on which nothing is
\* executed while deferring is suspended, a flush that no observer steps into
\* leaves a component with the value that was set last
\* (flecs_cmd_batch_for_entity, ecs_cmd_set).
THEOREM LastSetStays == NoPlain /\ Alone => (Spec => []LastSetWins)
<1>1. SUFFICES ASSUME NoPlain, Alone PROVE Spec => []LastSetWins
  OBVIOUS
<1>2. Init => OrderInv /\ LastInv
  BY InitOrder, InitLast
<1>3. QueueInv /\ WriteInv /\ OrderInv /\ LastInv /\ [Next]_vars => OrderInv' /\ LastInv'
  BY <1>1, OrderStep, LastStep
<1>4. QueueInv /\ OrderInv /\ LastInv => LastSetWins
  BY LastAtEnd
<1> QED
  BY <1>2, <1>3, <1>4, QueuesStayInOrder, PTL DEF Spec
=============================================================================
