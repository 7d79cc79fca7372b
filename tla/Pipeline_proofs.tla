-------------------------- MODULE Pipeline_proofs --------------------------
(***************************************************************************)
(* Proofs of the safety properties of Pipeline.                            *)
(*                                                                         *)
(* The schedule: what AddSystem keeps (Built) is carried through the       *)
(* systems by induction up to SystemCount (AddAllIs, AddRunIs), in step    *)
(* with the order of the pipeline (InOrderIs), and makes the operations    *)
(* fit the systems (ScheduleIs).  The run: TypeInv and ScheduleInv are     *)
(* inductive; with them PlaceInv, where the main thread is, unless a merge *)
(* disables all systems that have run; with that OrderInv, what has run,   *)
(* if ecs_progress alone runs the pipeline.                                *)
(***************************************************************************)
EXTENDS Pipeline, FiniteSetTheorems, SequenceTheorems, TLAPS

-----------------------------------------------------------------------------
(* Induction.                                                              *)

\* A set of natural numbers that is not empty has a least element.
LEMMA NatMin ==
  ASSUME NEW S \in SUBSET Nat, S # {}
  PROVE  \E m \in S : \A n \in S : m <= n
<1> DEFINE F == {0..n : n \in S}
<1>1. IsWellFoundedOn(StrictSubsetOrdering(Nat), FiniteSubsetsOf(Nat))
  BY FS_StrictSubsetOrderingWellFounded
<1>2. F \subseteq FiniteSubsetsOf(Nat)
  <2>1. ASSUME NEW n \in S PROVE 0..n \in SUBSET Nat /\ IsFiniteSet(0..n)
    BY FS_Interval, 0 \in Int, n \in Int
  <2> QED
    BY <2>1 DEF FiniteSubsetsOf
<1>3. F # {}
  OBVIOUS
<1>4. PICK M \in F : \A y \in F : ~ (<<y, M>> \in StrictSubsetOrdering(Nat))
  <2> HIDE DEF F
  <2> QED
    BY <1>1, <1>2, <1>3, WFMin
<1>5. PICK m \in S : M = 0..m
  OBVIOUS
<1>6. ASSUME NEW n \in S, n < m PROVE FALSE
  <2>1. 0..n \in F
    OBVIOUS
  <2>2. <<0..n, 0..m>> \in StrictSubsetOrdering(Nat)
    BY <1>6 DEF StrictSubsetOrdering
  <2> QED
    BY <2>1, <2>2, <1>4, <1>5
<1> QED
  BY <1>6

\* Induction up to N: what holds at 0 and is passed on is in S throughout.
LEMMA UpTo ==
  ASSUME NEW N \in Nat, NEW S, 0 \in S, \A n \in 1..N : n - 1 \in S => n \in S
  PROVE  \A n \in 0..N : n \in S
<1> DEFINE B == {n \in 0..N : n \notin S}
<1>1. SUFFICES ASSUME B # {} PROVE FALSE
  OBVIOUS
<1>2. PICK n \in B : \A k \in B : n <= k
  <2>1. B \in SUBSET Nat
    OBVIOUS
  <2> HIDE DEF B
  <2> QED
    BY <1>1, <2>1, NatMin
<1>3. n \in 0..N /\ n # 0 /\ n \notin S
  OBVIOUS
<1>4. n - 1 \in 0..N /\ n - 1 \notin B
  BY <1>2, <1>3
<1> QED
  BY <1>3, <1>4


-----------------------------------------------------------------------------
(* The order of systems.                                                   *)

OrderStep(S, q, s) == IF s \in S THEN Append(q, s) ELSE q

OrderRun(S, f) == f[0] = <<>> /\ \A s \in 1..SystemCount : f[s] = OrderStep(S, f[s - 1], s)

LEMMA InOrderRuns ==
  ASSUME NEW S
  PROVE  \E f : OrderRun(S, f) /\ InOrder(S) = f[SystemCount]
<1> DEFINE At(g, s) == IF s = 0 THEN <<>> ELSE OrderStep(S, g[s - 1], s)
           Eq(g, n) == g = [s \in 0..n |-> At(g, s)]
           T == {n \in Nat : \E g : Eq(g, n)}
<1>0. SystemCount \in Nat
  BY DescsAssumption
<1>1. 0 \in T
  <2>1. Eq([s \in 0..0 |-> <<>>], 0)
    OBVIOUS
  <2> QED
    BY <2>1
<1>2. ASSUME NEW n \in 1..SystemCount, n - 1 \in T PROVE n \in T
  <2>1. PICK g : Eq(g, n - 1)
    BY <1>2
  <2> DEFINE h == [s \in 0..n |-> At(g, s)]
  <2>2. \A s \in 0..n - 1 : s \in 0..n /\ g[s] = At(g, s)
    BY <2>1
  <2>3. \A s \in 0..n - 1 : h[s] = g[s]
    BY <2>2
  <2>4. \A s \in 1..n : s - 1 \in 0..n - 1
    OBVIOUS
  <2>5. ASSUME NEW s \in 0..n PROVE At(h, s) = At(g, s)
    <3>1. CASE s = 0
      BY <3>1
    <3>2. CASE s # 0
      <4>1. s \in 1..n
        BY <3>2
      <4>2. h[s - 1] = g[s - 1]
        BY <2>3, <2>4, <4>1
      <4> HIDE DEF h
      <4> QED
        BY <4>2
    <3> QED
      BY <3>1, <3>2
  <2>6. Eq(h, n)
    BY <2>5
  <2> HIDE DEF h, Eq
  <2> QED
    BY <2>6
<1>3. \E g : Eq(g, SystemCount)
  <2> HIDE DEF T
  <2>1. SystemCount \in T
    BY <1>0, <1>1, <1>2, UpTo
  <2> QED
    BY <2>1 DEF T
<1> DEFINE f == CHOOSE g : Eq(g, SystemCount)
<1>4. Eq(f, SystemCount)
  BY <1>3
<1>5. InOrder(S) = f[SystemCount]
  BY DEF InOrder, OrderStep
<1>6. OrderRun(S, f)
  <2> HIDE DEF f
  <2> QED
    BY <1>0, <1>4 DEF OrderRun
<1> QED
  BY <1>5, <1>6

\* q has the elements of S, each once, in their order.
Sorted(q, S) ==
  /\ q \in Seq(Systems)
  /\ \A i, j \in DOMAIN q : i < j => q[i] < q[j]
  /\ \A i \in DOMAIN q : q[i] \in S
  /\ \A s \in S : \E i \in DOMAIN q : q[i] = s

LEMMA SortedNone == Sorted(<<>>, {})
  BY DEF Sorted

LEMMA SortedAppend ==
  ASSUME NEW q, NEW S \in SUBSET Systems, Sorted(q, S), NEW s \in Systems, \A t \in S : t < s
  PROVE  Sorted(Append(q, s), S \cup {s})
<1> DEFINE n == Len(q)
           r == Append(q, s)
<1>1. /\ q \in Seq(Systems) /\ n \in Nat /\ DOMAIN q = 1..n
      /\ \A i \in DOMAIN q : q[i] \in S
  BY LenProperties DEF Sorted
<1>2. /\ r \in Seq(Systems) /\ DOMAIN r = 1..n + 1
      /\ \A i \in 1..n : r[i] = q[i]
      /\ r[n + 1] = s
  BY <1>1, AppendProperties, LenProperties
<1> HIDE DEF n, r
<1>3. \A i \in DOMAIN r : i \in DOMAIN q \/ i = n + 1
  BY <1>1, <1>2
<1>4. \A i \in DOMAIN q : i \in DOMAIN r /\ r[i] = q[i]
  BY <1>1, <1>2
<1>5. ASSUME NEW i \in DOMAIN r, NEW j \in DOMAIN r, i < j PROVE r[i] < r[j]
  <2>1. CASE j = n + 1
    <3>1. i \in DOMAIN q
      BY <1>1, <1>3, <1>5, <2>1
    <3> QED
      BY <1>1, <1>2, <1>4, <2>1, <3>1
  <2>2. CASE j \in DOMAIN q
    <3>1. i \in DOMAIN q
      BY <1>1, <1>3, <1>5, <2>2
    <3> QED
      BY <1>4, <1>5, <2>2, <3>1 DEF Sorted
  <2> QED
    BY <1>3, <2>1, <2>2
<1>6. \A i \in DOMAIN r : r[i] \in S \cup {s}
  BY <1>1, <1>2, <1>3, <1>4
<1>7. ASSUME NEW t \in S \cup {s} PROVE \E i \in DOMAIN r : r[i] = t
  <2>1. n + 1 \in DOMAIN r
    BY <1>1, <1>2
  <2>2. CASE t \in S
    BY <1>4, <2>2 DEF Sorted
  <2> QED
    BY <1>2, <2>1, <2>2
<1> QED
  BY <1>2, <1>5, <1>6, <1>7 DEF Sorted, r

LEMMA OrderRunIs ==
  ASSUME NEW S \in SUBSET Systems, NEW f, OrderRun(S, f), NEW n \in 0..SystemCount
  PROVE  Sorted(f[n], S \cap 1..n)
<1>0. SystemCount \in Nat
  BY DescsAssumption
<1> DEFINE T == {k \in 0..SystemCount : Sorted(f[k], S \cap 1..k)}
<1>1. 0 \in T
  <2>1. S \cap 1..0 = {} /\ f[0] = <<>>
    BY DEF OrderRun
  <2> QED
    BY <1>0, <2>1, SortedNone
<1>2. ASSUME NEW k \in 1..SystemCount, k - 1 \in T PROVE k \in T
  <2> DEFINE U == S \cap 1..k - 1
  <2>1. Sorted(f[k - 1], U) /\ f[k] = OrderStep(S, f[k - 1], k)
    BY <1>2 DEF OrderRun
  <2>2. U \in SUBSET Systems /\ k \in Systems /\ \A t \in U : t < k
    BY DEF Systems
  <2>3. S \cap 1..k = IF k \in S THEN U \cup {k} ELSE U
    OBVIOUS
  <2> HIDE DEF U
  <2>4. Sorted(f[k], S \cap 1..k)
    <3>1. CASE k \in S
      BY <2>1, <2>2, <2>3, <3>1, SortedAppend DEF OrderStep
    <3>2. CASE k \notin S
      BY <2>1, <2>3, <3>2 DEF OrderStep
    <3> QED
      BY <3>1, <3>2
  <2> QED
    BY <2>4
<1>3. n \in T
  <2> HIDE DEF T
  <2> QED
    BY <1>0, <1>1, <1>2, UpTo
<1> QED
  BY <1>3

LEMMA InOrderIs ==
  ASSUME NEW S \in SUBSET Systems
  PROVE  Sorted(InOrder(S), S)
<1>1. PICK f : OrderRun(S, f) /\ InOrder(S) = f[SystemCount]
  BY InOrderRuns
<1>2. SystemCount \in 0..SystemCount /\ S \cap 1..SystemCount = S
  <2>1. SystemCount \in Nat
    BY DescsAssumption
  <2>2. \A s \in S : s \in 1..SystemCount
    BY DEF Systems
  <2> QED
    BY <2>1, <2>2
<1>3. Sorted(f[SystemCount], S \cap 1..SystemCount)
  BY <1>1, <1>2, OrderRunIs
<1> QED
  BY <1>1, <1>2, <1>3

-----------------------------------------------------------------------------
(* The systems that are added.                                             *)

AddStep(m, act, st, s) == IF s \in m THEN AddSystem(act, st, s) ELSE st

AddRun(m, act, f) ==
  f[0] = NothingAdded /\ \A s \in 1..SystemCount : f[s] = AddStep(m, act, f[s - 1], s)

LEMMA AddAllIs ==
  ASSUME NEW m, NEW act
  PROVE  \E f : AddRun(m, act, f) /\ AddAll(m, act) = f[SystemCount]
<1> DEFINE At(g, s) == IF s = 0 THEN NothingAdded ELSE AddStep(m, act, g[s - 1], s)
           Eq(g, n) == g = [s \in 0..n |-> At(g, s)]
           S == {n \in Nat : \E g : Eq(g, n)}
<1>0. SystemCount \in Nat
  BY DescsAssumption
<1>1. 0 \in S
  <2>1. Eq([s \in 0..0 |-> NothingAdded], 0)
    OBVIOUS
  <2> QED
    BY <2>1
<1>2. ASSUME NEW n \in 1..SystemCount, n - 1 \in S PROVE n \in S
  <2>1. PICK g : Eq(g, n - 1)
    BY <1>2
  <2> DEFINE h == [s \in 0..n |-> At(g, s)]
  <2>2. \A s \in 0..n - 1 : s \in 0..n /\ g[s] = At(g, s)
    BY <2>1
  <2>3. \A s \in 0..n - 1 : h[s] = g[s]
    BY <2>2
  <2>4. \A s \in 1..n : s - 1 \in 0..n - 1
    OBVIOUS
  <2>5. ASSUME NEW s \in 0..n PROVE At(h, s) = At(g, s)
    <3>1. CASE s = 0
      BY <3>1
    <3>2. CASE s # 0
      <4>1. s \in 1..n
        BY <3>2
      <4>2. h[s - 1] = g[s - 1]
        BY <2>3, <2>4, <4>1
      <4> HIDE DEF h
      <4> QED
        BY <4>2
    <3> QED
      BY <3>1, <3>2
  <2>6. Eq(h, n)
    BY <2>5
  <2> HIDE DEF h, Eq
  <2> QED
    BY <2>6
<1>3. \E g : Eq(g, SystemCount)
  <2> HIDE DEF S
  <2>1. SystemCount \in S
    BY <1>0, <1>1, <1>2, UpTo
  <2> QED
    BY <2>1 DEF S
<1> DEFINE f == CHOOSE g : Eq(g, SystemCount)
<1>4. Eq(f, SystemCount)
  BY <1>3
<1>5. AddAll(m, act) = f[SystemCount]
  BY DEF AddAll, AddStep
<1>6. AddRun(m, act, f)
  <2> HIDE DEF f
  <2> QED BY <1>0, <1>4 DEF AddRun
<1> QED
  BY <1>5, <1>6

-----------------------------------------------------------------------------
(* The write state.                                                        *)

CheckAt(terms, a, st, k) ==
  LET t == terms[IF k <= Len(terms) THEN k ELSE k - Len(terms)] IN
  IF FromThis(t) <=> k <= Len(terms) THEN CheckTerm(a, st, t) ELSE st

Checking(ws, terms, a, f) ==
  /\ f[0] = [ws |-> ws, merge |-> FALSE]
  /\ \A k \in 1..Len(terms) + Len(terms) : f[k] = CheckAt(terms, a, f[k - 1], k)

LEMMA CheckRuns ==
  ASSUME NEW ws, NEW terms, NEW a, Len(terms) \in Nat
  PROVE  \E f : Checking(ws, terms, a, f) /\ CheckTerms(ws, terms, a) = f[Len(terms) + Len(terms)]
<1> DEFINE m == Len(terms) + Len(terms)
           start == [ws |-> ws, merge |-> FALSE]
           At(g, k) == IF k = 0 THEN start ELSE CheckAt(terms, a, g[k - 1], k)
           Eq(g, n) == g = [k \in 0..n |-> At(g, k)]
           S == {n \in Nat : \E g : Eq(g, n)}
<1>0. m \in Nat
  OBVIOUS
<1>1. 0 \in S
  <2>1. Eq([k \in 0..0 |-> start], 0)
    OBVIOUS
  <2> QED
    BY <2>1
<1> HIDE DEF m, start
<1>2. ASSUME NEW n \in 1..m, n - 1 \in S PROVE n \in S
  <2>1. PICK g : Eq(g, n - 1)
    BY <1>2
  <2> DEFINE h == [k \in 0..n |-> At(g, k)]
  <2>2. \A k \in 0..n - 1 : k \in 0..n /\ g[k] = At(g, k)
    BY <2>1
  <2>3. \A k \in 0..n - 1 : h[k] = g[k]
    BY <2>2
  <2>4. \A k \in 1..n : k - 1 \in 0..n - 1
    OBVIOUS
  <2>5. ASSUME NEW k \in 0..n PROVE At(h, k) = At(g, k)
    <3>1. CASE k = 0
      BY <3>1
    <3>2. CASE k # 0
      <4>1. k \in 1..n
        BY <3>2
      <4>2. h[k - 1] = g[k - 1]
        BY <2>3, <2>4, <4>1
      <4> HIDE DEF h
      <4> QED
        BY <4>2
    <3> QED
      BY <3>1, <3>2
  <2>6. Eq(h, n)
    BY <2>5
  <2> HIDE DEF h, Eq
  <2> QED
    BY <1>0, <2>6
<1>3. \E g : Eq(g, m)
  <2> HIDE DEF S
  <2>1. m \in S
    BY <1>0, <1>1, <1>2, UpTo
  <2> QED
    BY <2>1 DEF S
<1> DEFINE f == CHOOSE g : Eq(g, m)
<1>4. Eq(f, m)
  BY <1>3
<1>5. CheckTerms(ws, terms, a) = f[m]
  BY DEF CheckTerms, CheckAt, m, start
<1>6. Checking(ws, terms, a, f)
  <2> HIDE DEF f
  <2>1. \A k \in 0..m : f[k] = At(f, k)
    BY <1>4
  <2>2. 0 \in 0..m /\ \A k \in 1..m : k \in 0..m /\ k # 0
    BY <1>0
  <2> QED
    BY <2>1, <2>2 DEF Checking, m, start
<1> QED
  BY <1>5, <1>6 DEF m

\* A term that the system writes to a stage.
Staging(t) == Annotates(t) /\ Inout(t) \in {"out", "inout"}

\* What is known of a term if no merge was asked for.
Settled(ws, a, st, t) == ~ TermMerges(ws, t) /\ (a /\ Staging(t) => t.id \in st.ws)

\* The write state st after the terms T of a system, from the state ws.
Checked(ws, a, T, st) ==
  /\ ws \subseteq st.ws
  /\ ~ a => st.ws = ws
  /\ st.merge \/ \A t \in T : Settled(ws, a, st, t)

LEMMA CheckOne ==
  ASSUME NEW ws, NEW a \in BOOLEAN, NEW T, NEW st, Checked(ws, a, T, st), NEW t
  PROVE  Checked(ws, a, T \cup {t}, CheckTerm(a, st, t))
<1> DEFINE r == CheckTerm(a, st, t)
<1>1. /\ r.ws = IF a /\ TermWrites(st.ws, t) THEN st.ws \cup {t.id} ELSE st.ws
      /\ r.merge = (st.merge \/ TermMerges(st.ws, t))
  BY DEF CheckTerm
<1> HIDE DEF r
<1>2. ws \subseteq st.ws /\ st.ws \subseteq r.ws /\ (~ a => r.ws = ws)
  BY <1>1 DEF Checked
<1>3. TermMerges(ws, t) => TermMerges(st.ws, t)
  BY <1>2 DEF TermMerges, InWriteState
<1>4. ASSUME ~ r.merge, NEW u \in T \cup {t} PROVE Settled(ws, a, r, u)
  <2>1. ~ st.merge /\ ~ TermMerges(st.ws, t)
    BY <1>1, <1>4
  <2>2. CASE u \in T
    BY <1>2, <2>1, <2>2 DEF Checked, Settled
  <2>3. CASE u = t
    <3>1. ASSUME a, Staging(t) PROVE t.id \in r.ws
      <4>1. t.inout # "filter"
        BY <3>1 DEF Staging, Inout
      <4>2. TermWrites(st.ws, t)
        BY <2>1, <3>1, <4>1 DEF TermWrites, TermMerges, Staging
      <4> QED
        BY <1>1, <3>1, <4>2
    <3> QED
      BY <1>3, <2>1, <2>3, <3>1 DEF Settled
  <2> QED
    BY <2>2, <2>3
<1> QED
  BY <1>2, <1>4 DEF Checked, r

LEMMA CheckTermsIs ==
  ASSUME NEW ws, NEW a \in BOOLEAN, NEW terms \in Seq(Terms)
  PROVE  Checked(ws, a, {terms[k] : k \in DOMAIN terms}, CheckTerms(ws, terms, a))
<1> DEFINE n == Len(terms)
           m == Len(terms) + Len(terms)
           t(k) == terms[IF k <= n THEN k ELSE k - n]
           Passed(k) == {t(j) : j \in {i \in 1..k : FromThis(t(i)) <=> i <= n}}
<1>1. n \in Nat /\ DOMAIN terms = 1..n
  BY LenProperties
<1>2. PICK f : Checking(ws, terms, a, f) /\ CheckTerms(ws, terms, a) = f[m]
  BY <1>1, CheckRuns
<1> DEFINE S == {k \in 0..m : Checked(ws, a, Passed(k), f[k])}
<1>3. 0 \in S
  <2>1. f[0] = [ws |-> ws, merge |-> FALSE]
    BY <1>2 DEF Checking
  <2>2. f[0].ws = ws
    BY <2>1
  <2>3. Passed(0) = {}
    OBVIOUS
  <2> HIDE DEF Passed
  <2> QED
    BY <1>1, <2>2, <2>3 DEF Checked
<1>4. ASSUME NEW k \in 1..m, k - 1 \in S PROVE k \in S
  <2>1. Checked(ws, a, Passed(k - 1), f[k - 1])
    BY <1>4
  <2>2. f[k] = IF FromThis(t(k)) <=> k <= n THEN CheckTerm(a, f[k - 1], t(k)) ELSE f[k - 1]
    BY <1>2 DEF Checking, CheckAt
  <2>3. 1..k = (1..k - 1) \cup {k}
    BY <1>1
  <2>4. Passed(k) = IF FromThis(t(k)) <=> k <= n THEN Passed(k - 1) \cup {t(k)} ELSE Passed(k - 1)
    <3> HIDE DEF t
    <3> QED
      BY <2>3
  <2> HIDE DEF Passed, t
  <2>5. Checked(ws, a, Passed(k), f[k])
    BY <2>1, <2>2, <2>4, CheckOne
  <2> QED
    BY <2>5
<1>5. m \in S
  <2>1. m \in Nat
    BY <1>1
  <2> HIDE DEF S, m
  <2> QED
    BY <1>3, <1>4, <2>1, UpTo
<1>6. ASSUME NEW k \in DOMAIN terms PROVE terms[k] \in Passed(m)
  <2>1. CASE FromThis(terms[k])
    <3>1. k \in 1..m /\ k <= n /\ t(k) = terms[k]
      BY <1>1
    <3> QED
      BY <2>1, <3>1
  <2>2. CASE ~ FromThis(terms[k])
    <3>1. k + n \in 1..m /\ ~ (k + n <= n) /\ t(k + n) = terms[k]
      BY <1>1
    <3> QED
      BY <2>2, <3>1
  <2> QED
    BY <2>1, <2>2
<1> HIDE DEF Passed
<1> QED
  BY <1>2, <1>5, <1>6 DEF Checked

-----------------------------------------------------------------------------
(* Operations.                                                             *)

\* Two wildcards have no id in common, unless they are equal or one of them
\* is EcsWildcard: others are not compared by flecs_pipeline_get_write_state.
WildcardsApart ==
  \A d, e \in Descs : \A j \in DOMAIN d.terms, k \in DOMAIN e.terms :
    LET x == d.terms[j].id
        y == e.terms[k].id
    IN IsWildcard(x) /\ IsWildcard(y) => x \cap y = {} \/ x = y \/ Ids \in {x, y}

OpType == [offset : Nat, count : Nat, mt : BOOLEAN, imm : BOOLEAN]

\* The system at the place i, counted from 1, is of op.
Has(op, i) == op.offset < i /\ i <= op.offset + op.count

\* The first n operations of o partition sys.
Parts(sys, o, n) ==
  /\ n = 0 => sys = <<>>
  /\ n > 0 => o[1].offset = 0 /\ o[n].offset + o[n].count = Len(sys)
  /\ \A k \in 2..n : o[k].offset = o[k - 1].offset + o[k - 1].count
  /\ \A k \in 1..n : o[k].offset + o[k].count <= Len(sys)

Agree(sys, op) ==
  /\ \A i \in DOMAIN sys : Has(op, i) => desc[sys[i]].mt = op.mt /\ desc[sys[i]].imm = op.imm
  /\ op.imm => op.count <= 1

Unread(sys, op) ==
  \A i, j \in DOMAIN sys : Has(op, i) /\ Has(op, j) /\ i < j =>
    \A r \in Reads(sys[j]), w \in Writes(sys[i]) : r \cap w = {}

\* No write of u may activate s.
Harmless(u, s) == \A w \in Writes(u) : ~ MayActivate(w, s)

Quiet(idle, sys, op) ==
  \A s \in idle : \A i, j \in DOMAIN sys :
    Has(op, i) /\ Has(op, j) /\ sys[i] < s /\ s < sys[j] => Harmless(sys[i], s)

\* What an operation owes to its systems and to those of idle, the inactive ones.
Neat(idle, sys, op) ==
  /\ Agree(sys, op)
  /\ WildcardsApart => Unread(sys, op) /\ Quiet(idle, sys, op)

LEMMA SeqIs ==
  ASSUME NEW S, NEW q \in Seq(S)
  PROVE  Len(q) \in Nat /\ DOMAIN q = 1..Len(q) /\ \A i \in DOMAIN q : i \in Nat /\ i <= Len(q) /\ i >= 1 /\ q[i] \in S
  BY LenProperties, ElementOfSeq

LEMMA NeatEmpty ==
  ASSUME NEW idle, NEW sys \in Seq(Systems), NEW op \in OpType, op.count = 0
  PROVE  Neat(idle, sys, op)
<1>1. \A i \in DOMAIN sys : ~ Has(op, i)
  BY SeqIs DEF Has, OpType
<1> QED
  BY <1>1 DEF Neat, Agree, Unread, Quiet

\* An operation is not changed by a system that is added after it.
LEMMA NeatKept ==
  ASSUME NEW idle, NEW sys \in Seq(Systems), NEW op \in OpType, op.offset + op.count <= Len(sys),
         Neat(idle, sys, op), NEW sys1 \in Seq(Systems), Len(sys1) = Len(sys) + 1,
         \A i \in DOMAIN sys : sys1[i] = sys[i]
  PROVE  Neat(idle, sys1, op)
<1>1. \A i \in DOMAIN sys1 : Has(op, i) => i \in DOMAIN sys /\ sys1[i] = sys[i]
  BY SeqIs DEF Has, OpType
<1>2. Agree(sys1, op)
  BY <1>1 DEF Neat, Agree
<1>3. WildcardsApart => Unread(sys1, op)
  BY <1>1 DEF Neat, Unread
<1>4. WildcardsApart => Quiet(idle, sys1, op)
  BY <1>1 DEF Neat, Quiet
<1> QED
  BY <1>2, <1>3, <1>4 DEF Neat

\* Nor by an inactive system that comes after it.
LEMMA NeatIdle ==
  ASSUME NEW idle, NEW sys \in Seq(Systems), NEW op, Neat(idle, sys, op),
         NEW s \in Systems, \A i \in DOMAIN sys : sys[i] < s
  PROVE  Neat(idle \cup {s}, sys, op)
<1>1. WildcardsApart => Quiet(idle \cup {s}, sys, op)
  <2> SUFFICES ASSUME WildcardsApart, NEW i \in DOMAIN sys, NEW j \in DOMAIN sys,
                      s < sys[j]
               PROVE  FALSE
    BY DEF Neat, Quiet
  <2>1. sys[j] \in Systems /\ sys[j] < s
    BY SeqIs
  <2> QED
    BY <2>1 DEF Systems
<1> QED
  BY <1>1 DEF Neat

\* The vector of operations o while it is built for the systems sys: all but
\* the last operation have systems.
Room(idle, sys, o) ==
  /\ o \in Seq(OpType) /\ o # <<>>
  /\ Parts(sys, o, Len(o))
  /\ \A k \in DOMAIN o : k # Len(o) => o[k].count > 0
  /\ \A k \in DOMAIN o : Neat(idle, sys, o[k])

LEMMA RoomIs ==
  ASSUME NEW idle, NEW sys \in Seq(Systems), NEW o, Room(idle, sys, o)
  PROVE  /\ o \in Seq(OpType) /\ Len(o) \in Nat \ {0} /\ DOMAIN o = 1..Len(o) /\ Len(o) \in DOMAIN o
         /\ \A k \in DOMAIN o : o[k] \in OpType /\ o[k].offset \in Nat /\ o[k].count \in Nat
                                /\ o[k].offset + o[k].count <= Len(sys)
         /\ Last(o) = o[Len(o)] /\ Last(o).offset + Last(o).count = Len(sys)
<1>1. o \in Seq(OpType) /\ o # <<>>
  BY DEF Room
<1>2. Len(o) \in Nat /\ DOMAIN o = 1..Len(o) /\ Len(o) # 0 /\ \A k \in DOMAIN o : o[k] \in OpType
  BY <1>1, SeqIs, EmptySeq
<1> QED
  BY <1>1, <1>2 DEF Room, Parts, Last, OpType

LEMMA RoomFirst ==
  ASSUME NEW idle
  PROVE  Room(idle, <<>>, <<NewOp(0)>>)
<1> DEFINE op == NewOp(0)
           o == <<op>>
<1>1. op \in OpType /\ op.offset = 0 /\ op.count = 0
  BY DEF NewOp, OpType
<1>2. o \in Seq(OpType) /\ Len(o) = 1 /\ o[1] = op /\ DOMAIN o = {1} /\ o # <<>>
  BY <1>1
<1>3. <<>> \in Seq(Systems) /\ Len(<<>>) = 0
  OBVIOUS
<1> HIDE DEF o, op
<1>4. Neat(idle, <<>>, op)
  BY <1>1, <1>3, NeatEmpty
<1>5. Parts(<<>>, o, 1)
  BY <1>1, <1>2, <1>3 DEF Parts
<1> QED
  BY <1>2, <1>4, <1>5 DEF Room, o, op

LEMMA RoomNew ==
  ASSUME NEW idle, NEW sys \in Seq(Systems), NEW o, Room(idle, sys, o), Last(o).count > 0
  PROVE  Room(idle, sys, Append(o, NewOp(Len(sys))))
<1> DEFINE op == NewOp(Len(sys))
           o1 == Append(o, op)
           n == Len(o)
<1>1. Len(sys) \in Nat
  BY SeqIs
<1>2. op \in OpType /\ op.offset = Len(sys) /\ op.count = 0
  BY <1>1 DEF NewOp, OpType
<1>3. /\ o \in Seq(OpType) /\ n \in Nat \ {0} /\ DOMAIN o = 1..n /\ Last(o) = o[n]
      /\ o[n].offset + o[n].count = Len(sys)
      /\ \A k \in 1..n : o[k].offset + o[k].count <= Len(sys)
  BY RoomIs
<1> HIDE DEF op
<1>4. /\ o1 \in Seq(OpType) /\ Len(o1) = n + 1 /\ o1[n + 1] = op /\ \A k \in 1..n : o1[k] = o[k]
  BY <1>2, <1>3, AppendProperties
<1>5. DOMAIN o1 = 1..n + 1
  BY <1>4, SeqIs
<1> HIDE DEF o1, n
<1>6. /\ 1 \in 1..n /\ n \in 1..n /\ n + 1 # 0
      /\ \A k \in 1..n + 1 : k \in 1..n \/ k = n + 1
      /\ \A k \in 2..n + 1 : k = n + 1 \/ (k \in 2..n /\ k \in 1..n /\ k - 1 \in 1..n)
      /\ n + 1 - 1 = n
  BY <1>3
<1>7. Parts(sys, o1, n + 1)
  <2>1. Parts(sys, o, n)
    BY DEF Room, n
  <2>2. n + 1 > 0 /\ n > 0 /\ 1 \in 1..n
    BY <1>3
  <2>3. o1[1].offset = 0
    BY <1>4, <1>6, <2>1, <2>2 DEF Parts
  <2>4. o1[n + 1].offset + o1[n + 1].count = Len(sys)
    BY <1>1, <1>2, <1>4
  <2>5. ASSUME NEW k \in 2..n + 1 PROVE o1[k].offset = o1[k - 1].offset + o1[k - 1].count
    <3>1. CASE k = n + 1
      BY <1>2, <1>3, <1>4, <1>6, <3>1
    <3>2. CASE k \in 2..n
      BY <1>4, <1>6, <2>1, <3>2 DEF Parts
    <3> QED
      BY <1>6, <3>1, <3>2
  <2>6. \A k \in 1..n + 1 : o1[k].offset + o1[k].count <= Len(sys)
    BY <1>1, <1>3, <1>4, <1>6, <2>4
  <2> QED
    BY <2>2, <2>3, <2>4, <2>5, <2>6 DEF Parts
<1>8. \A k \in DOMAIN o1 : k # n + 1 => o1[k].count > 0
  BY <1>3, <1>4, <1>5, <1>6 DEF Room, n
<1>9. Neat(idle, sys, op)
  BY <1>2, NeatEmpty
<1>10. \A k \in DOMAIN o1 : Neat(idle, sys, o1[k])
  BY <1>3, <1>4, <1>5, <1>6, <1>9 DEF Room
<1>11. o1 # <<>>
  BY <1>4, <1>3, EmptySeq
<1> QED
  BY <1>4, <1>7, <1>8, <1>10, <1>11 DEF Room, o1, op

LEMMA RoomIdle ==
  ASSUME NEW idle, NEW sys \in Seq(Systems), NEW o, Room(idle, sys, o),
         NEW s \in Systems, \A i \in DOMAIN sys : sys[i] < s
  PROVE  Room(idle \cup {s}, sys, o)
<1>1. \A k \in DOMAIN o : Neat(idle \cup {s}, sys, o[k])
  BY NeatIdle DEF Room
<1> QED
  BY <1>1 DEF Room

\* No system of op may, by what it writes, activate one of idle that comes after it.
Safe(idle, sys, op) ==
  \A i \in DOMAIN sys : Has(op, i) => \A s \in idle : sys[i] < s => Harmless(sys[i], s)

\* The system s may join op.
Joins(idle, sys, op, s) ==
  op.count > 0 =>
    /\ desc[s].mt = op.mt /\ desc[s].imm = op.imm /\ ~ op.imm
    /\ WildcardsApart =>
         /\ \A i \in DOMAIN sys : Has(op, i) =>
              \A r \in Reads(s), w \in Writes(sys[i]) : r \cap w = {}
         /\ Safe(idle, sys, op)

\* op with one more system.
Joined(op, s, op1) ==
  /\ op1 \in OpType /\ op1.offset = op.offset /\ op1.count = op.count + 1
  /\ op1.mt = desc[s].mt /\ op1.imm = desc[s].imm

\* The last operation is replaced by op1.
Replaced(o, o1, op1) ==
  /\ o1 \in Seq(OpType) /\ Len(o1) = Len(o) /\ o1[Len(o)] = op1
  /\ \A k \in 1..Len(o) : k # Len(o) => o1[k] = o[k]

LEMMA JoinedNeat ==
  ASSUME NEW idle \in SUBSET Systems, NEW sys \in Seq(Systems), NEW op \in OpType,
         op.offset + op.count = Len(sys),
         Neat(idle, sys, op), NEW s \in Systems, Joins(idle, sys, op, s), NEW op1, Joined(op, s, op1),
         NEW sys1 \in Seq(Systems), Len(sys1) = Len(sys) + 1, sys1[Len(sys) + 1] = s,
         \A i \in DOMAIN sys : sys1[i] = sys[i] /\ sys[i] < s
  PROVE  Neat(idle, sys1, op1)
<1> DEFINE n == Len(sys)
<1>1. /\ n \in Nat /\ DOMAIN sys = 1..n /\ DOMAIN sys1 = 1..n + 1 /\ s \in Nat
      /\ op.offset \in Nat /\ op.count \in Nat /\ op.offset + op.count = n
      /\ op1.offset = op.offset /\ op1.count = op.count + 1
      /\ op1.mt = desc[s].mt /\ op1.imm = desc[s].imm
      /\ \A i \in DOMAIN sys : sys[i] \in Nat
  <2>1. n \in Nat /\ DOMAIN sys = 1..n /\ \A i \in DOMAIN sys : sys[i] \in Systems
    BY SeqIs
  <2>2. DOMAIN sys1 = 1..n + 1
    BY SeqIs
  <2>3. \A t \in Systems : t \in Nat
    BY DEF Systems
  <2>4. op.offset \in Nat /\ op.count \in Nat /\ op.offset + op.count = n
    BY DEF OpType
  <2>5. /\ op1.offset = op.offset /\ op1.count = op.count + 1
        /\ op1.mt = desc[s].mt /\ op1.imm = desc[s].imm
    BY DEF Joined
  <2> QED
    BY <2>1, <2>2, <2>3, <2>4, <2>5
<1>2. /\ sys1[n + 1] = s
      /\ \A i \in DOMAIN sys1 : i \in DOMAIN sys \/ i = n + 1
      /\ \A i \in DOMAIN sys : i < n + 1 /\ sys1[i] = sys[i] /\ sys1[i] < s
  BY <1>1
<1>3. \A i \in DOMAIN sys : Has(op1, i) => Has(op, i) /\ op.count > 0
  BY <1>1 DEF Has
<1>4. Agree(sys1, op1)
  <2>1. ASSUME NEW i \in DOMAIN sys1, Has(op1, i)
        PROVE  desc[sys1[i]].mt = op1.mt /\ desc[sys1[i]].imm = op1.imm
    <3>1. CASE i = n + 1
      BY <1>1, <1>2, <3>1
    <3>2. CASE i \in DOMAIN sys
      <4>1. Has(op, i) /\ op.count > 0
        BY <1>3, <2>1, <3>2
      <4>2. desc[sys[i]].mt = op.mt /\ desc[sys[i]].imm = op.imm
        BY <3>2, <4>1 DEF Neat, Agree
      <4> QED
        BY <1>1, <1>2, <3>2, <4>1, <4>2 DEF Joins
    <3> QED
      BY <1>2, <3>1, <3>2
  <2>2. op1.imm => op1.count <= 1
    <3>1. CASE op.count > 0
      BY <1>1, <3>1 DEF Joins
    <3>2. CASE ~ (op.count > 0)
      BY <1>1, <3>2
    <3> QED
      BY <3>1, <3>2
  <2> QED
    BY <2>1, <2>2 DEF Agree
<1>5. ASSUME WildcardsApart PROVE Unread(sys1, op1)
  <2> SUFFICES ASSUME NEW i \in DOMAIN sys1, NEW j \in DOMAIN sys1,
                      Has(op1, i), Has(op1, j), i < j,
                      NEW r \in Reads(sys1[j]), NEW w \in Writes(sys1[i])
               PROVE  r \cap w = {}
    BY DEF Unread
  <2>1. i \in DOMAIN sys
    BY <1>1, <1>2
  <2>2. Has(op, i) /\ op.count > 0 /\ w \in Writes(sys[i])
    BY <1>2, <1>3, <2>1
  <2>3. CASE j = n + 1
    BY <1>2, <1>5, <2>1, <2>2, <2>3 DEF Joins
  <2>4. CASE j \in DOMAIN sys
    BY <1>2, <1>3, <1>5, <2>1, <2>2, <2>4 DEF Neat, Unread
  <2> QED
    BY <1>2, <2>3, <2>4
<1>6. ASSUME WildcardsApart PROVE Quiet(idle, sys1, op1)
  <2> SUFFICES ASSUME NEW t \in idle, NEW i \in DOMAIN sys1, NEW j \in DOMAIN sys1,
                      Has(op1, i), Has(op1, j), sys1[i] < t, t < sys1[j]
               PROVE  Harmless(sys1[i], t)
    BY DEF Quiet
  <2>1. CASE i = n + 1
    <3>1. sys1[i] = s /\ sys1[j] \in Nat /\ (sys1[j] = s \/ sys1[j] < s)
      BY <1>1, <1>2, <2>1
    <3>2. t \in Nat
      BY DEF Systems
    <3> QED
      BY <1>1, <3>1, <3>2
  <2>2. CASE i \in DOMAIN sys
    <3>1. Has(op, i) /\ op.count > 0 /\ sys1[i] = sys[i]
      BY <1>2, <1>3, <2>2
    <3>2. CASE j = n + 1
      BY <1>6, <2>2, <3>1 DEF Joins, Safe
    <3>3. CASE j \in DOMAIN sys
      BY <1>2, <1>3, <1>6, <2>2, <3>1, <3>3 DEF Neat, Quiet
    <3> QED
      BY <1>2, <3>2, <3>3
  <2> QED
    BY <1>2, <2>1, <2>2
<1> QED
  BY <1>4, <1>5, <1>6 DEF Neat

LEMMA RoomJoined ==
  ASSUME NEW idle \in SUBSET Systems, NEW sys \in Seq(Systems), NEW o, Room(idle, sys, o),
         NEW s \in Systems, \A i \in DOMAIN sys : sys[i] < s, Joins(idle, sys, Last(o), s),
         NEW op1, Joined(Last(o), s, op1), NEW o1, Replaced(o, o1, op1)
  PROVE  Room(idle, Append(sys, s), o1)
<1> DEFINE n == Len(sys)
           m == Len(o)
           sys1 == Append(sys, s)
<1>1. n \in Nat /\ DOMAIN sys = 1..n
  BY SeqIs
<1>2. /\ sys1 \in Seq(Systems) /\ Len(sys1) = n + 1 /\ sys1[n + 1] = s
      /\ \A i \in DOMAIN sys : sys1[i] = sys[i] /\ sys[i] < s
  BY <1>1, AppendProperties
<1> HIDE DEF sys1
<1>3. /\ o \in Seq(OpType) /\ m \in Nat \ {0} /\ DOMAIN o = 1..m /\ m \in DOMAIN o /\ Last(o) = o[m]
      /\ o[m].offset + o[m].count = n
      /\ \A k \in DOMAIN o : o[k] \in OpType /\ o[k].offset \in Nat /\ o[k].count \in Nat
                             /\ o[k].offset + o[k].count <= n
  BY RoomIs
<1>4. /\ o1 \in Seq(OpType) /\ Len(o1) = m /\ o1[m] = op1
      /\ \A k \in DOMAIN o : k # m => o1[k] = o[k]
  BY <1>3 DEF Replaced
<1>5. DOMAIN o1 = DOMAIN o /\ o1 # <<>>
  BY <1>3, <1>4, SeqIs, EmptySeq
<1>6. /\ op1.offset = o[m].offset /\ op1.count = o[m].count + 1
      /\ op1.offset + op1.count = n + 1
  <2>1. /\ op1.offset = o[m].offset /\ op1.count = o[m].count + 1
        /\ o[m].offset \in Nat /\ o[m].count \in Nat /\ o[m].offset + o[m].count = n
    BY <1>3 DEF Joined
  <2> HIDE DEF m, n
  <2> QED
    BY <2>1
<1> HIDE DEF m
<1>7. Parts(sys1, o1, m)
  <2>1. Parts(sys, o, m)
    BY DEF Room, m
  <2>2. \A k \in 1..m : o1[k].offset = o[k].offset
    BY <1>3, <1>4, <1>6
  <2>3. /\ m > 0 /\ 1 \in 1..m /\ m \in 1..m
        /\ \A k \in 2..m : k \in 1..m /\ k - 1 \in 1..m /\ k - 1 # m
    BY <1>3
  <2>4. o1[1].offset = 0 /\ o1[m].offset + o1[m].count = n + 1
    BY <1>4, <1>6, <2>1, <2>2, <2>3 DEF Parts
  <2>5. ASSUME NEW k \in 2..m PROVE o1[k].offset = o1[k - 1].offset + o1[k - 1].count
    <3>1. o[k].offset = o[k - 1].offset + o[k - 1].count
      BY <2>1 DEF Parts
    <3>2. o1[k - 1] = o[k - 1] /\ o1[k].offset = o[k].offset
      BY <1>3, <1>4, <2>2, <2>3
    <3> QED
      BY <3>1, <3>2
  <2>6. ASSUME NEW k \in 1..m PROVE o1[k].offset + o1[k].count <= n + 1
    <3>1. CASE k = m
      BY <1>1, <1>4, <1>6, <3>1
    <3>2. CASE k # m
      BY <1>1, <1>3, <1>4, <3>2
    <3> QED
      BY <3>1, <3>2
  <2> QED
    BY <1>2, <2>3, <2>4, <2>5, <2>6 DEF Parts
<1>8. \A k \in DOMAIN o1 : k # m => o1[k].count > 0
  BY <1>4, <1>5 DEF Room, m
<1>9. ASSUME NEW k \in DOMAIN o1 PROVE Neat(idle, sys1, o1[k])
  <2>1. Neat(idle, sys, o[k]) /\ o[k] \in OpType /\ o[k].offset + o[k].count <= n
    BY <1>3, <1>5 DEF Room
  <2>2. CASE k = m
    <3>1. o[m] \in OpType /\ o[m].offset + o[m].count = Len(sys)
      BY <1>3
    <3>2. Joins(idle, sys, o[m], s) /\ Joined(o[m], s, op1) /\ Neat(idle, sys, o[m])
      BY <1>3, <2>1, <2>2
    <3>3. Neat(idle, sys1, op1)
      BY <1>2, <3>1, <3>2, JoinedNeat
    <3> QED
      BY <1>4, <2>2, <3>3
  <2>3. CASE k # m
    <3>1. Neat(idle, sys1, o[k])
      BY <1>2, <2>1, NeatKept
    <3> QED
      BY <1>4, <1>5, <2>3, <3>1
  <2> QED
    BY <2>2, <2>3
<1> QED
  BY <1>4, <1>5, <1>7, <1>8, <1>9 DEF Room, sys1

-----------------------------------------------------------------------------
(* One system is added to the schedule.                                    *)

Described == desc \in [Systems -> Descs]

LEMMA TermIs ==
  ASSUME NEW d \in Descs, NEW k \in DOMAIN d.terms
  PROVE  d.terms[k].id \in SUBSET Ids /\ d.terms[k].id # {} /\ d.terms[k].src \in {"self", "up", "fixed", "none"}
<1>1. d.terms \in Seq(Terms)
  BY DescsAssumption
<1> DEFINE t == d.terms[k]
<1>2. t \in Terms
  BY <1>1, SeqIs
<1> HIDE DEF t
<1>3. t.id \in (SUBSET Ids) \ {{}} /\ t.src \in {"self", "up", "fixed", "none"}
  BY <1>2 DEF Terms
<1> QED
  BY <1>3 DEF t

\* A written id that get_write_state does not find has nothing in common with
\* the one that was looked for.
LEMMA Disjoint ==
  ASSUME WildcardsApart, NEW d \in Descs, NEW j \in DOMAIN d.terms,
         NEW e \in Descs, NEW k \in DOMAIN e.terms,
         NEW ws, d.terms[j].id \in ws, ~ InWriteState(ws, e.terms[k].id)
  PROVE  d.terms[j].id \cap e.terms[k].id = {}
<1> DEFINE x == d.terms[j].id
           y == e.terms[k].id
<1>1. x \in SUBSET Ids /\ x # {} /\ y \in SUBSET Ids /\ y # {}
  BY TermIs
<1>2. IsWildcard(x) /\ IsWildcard(y) => x \cap y = {} \/ x = y \/ Ids \in {x, y}
  BY DEF WildcardsApart
<1>3. x \in ws /\ ~ (y \subseteq x) /\ ~ (x \subseteq y /\ (~ IsWildcard(x) \/ y = Ids))
  BY DEF InWriteState
<1> HIDE DEF x, y
<1>4. SUFFICES ASSUME NEW i \in x, i \in y PROVE FALSE
  BY DEF x, y
<1>5. IsWildcard(y)
  BY <1>3, <1>4 DEF IsWildcard
<1>6. IsWildcard(x)
  BY <1>3, <1>4 DEF IsWildcard
<1> QED
  BY <1>1, <1>2, <1>3, <1>4, <1>5, <1>6

\* No term of s asks for a merge of the writes ws.
Clear(ws, s) == \A k \in DOMAIN desc[s].terms : ~ TermMerges(ws, desc[s].terms[k])

LEMMA Unmerged ==
  ASSUME Described, NEW s \in Systems, NEW ws, NEW a \in BOOLEAN,
         ~ CheckTerms(ws, desc[s].terms, a).merge
  PROVE  LET v == CheckTerms(ws, desc[s].terms, a).ws IN
         Clear(ws, s) /\ ws \subseteq v /\ (~ a => v = ws) /\ (a => Writes(s) \subseteq v)
<1> DEFINE r == CheckTerms(ws, desc[s].terms, a)
           T == {desc[s].terms[k] : k \in DOMAIN desc[s].terms}
<1>1. desc[s].terms \in Seq(Terms)
  BY DescsAssumption DEF Described
<1>2. Checked(ws, a, T, r)
  BY <1>1, CheckTermsIs
<1> HIDE DEF r
<1>3. \A k \in DOMAIN desc[s].terms : Settled(ws, a, r, desc[s].terms[k])
  BY <1>2 DEF Checked, r
<1>4. Clear(ws, s)
  BY <1>3 DEF Clear, Settled
<1>5. a => Writes(s) \subseteq r.ws
  BY <1>3 DEF Writes, Settled, Staging
<1> QED
  BY <1>2, <1>4, <1>5 DEF Checked, r

LEMMA ClearReads ==
  ASSUME Described, WildcardsApart, NEW s \in Systems, NEW ws, Clear(ws, s),
         NEW u \in Systems, Writes(u) \subseteq ws,
         NEW r \in Reads(s), NEW w \in Writes(u)
  PROVE  r \cap w = {}
<1>1. desc[s] \in Descs /\ desc[u] \in Descs
  BY DEF Described
<1>2. PICK k \in DOMAIN desc[s].terms :
        LET t == desc[s].terms[k] IN
        r = t.id /\ t.inout # "filter" /\ (FromThis(t) \/ Inout(t) \in {"in", "inout"})
  BY DEF Reads
<1>3. PICK j \in DOMAIN desc[u].terms : w = desc[u].terms[j].id
  BY DEF Writes
<1> DEFINE t == desc[s].terms[k]
<1>4. FromThis(t) \/ Annotates(t)
  BY <1>1, TermIs DEF FromThis, Annotates
<1>5. ~ InWriteState(ws, t.id)
  BY <1>2, <1>4 DEF Clear, TermMerges
<1> QED
  BY <1>1, <1>2, <1>3, <1>5, Disjoint

LEMMA ClearHarmless ==
  ASSUME Described, WildcardsApart, NEW s \in Systems, NEW ws, Clear(ws, s),
         NEW u \in Systems, Writes(u) \subseteq ws
  PROVE  Harmless(u, s)
<1> SUFFICES ASSUME NEW w \in Writes(u), NEW k \in DOMAIN desc[s].terms,
                    FromThis(desc[s].terms[k]), desc[s].terms[k].inout # "filter"
             PROVE  w \cap desc[s].terms[k].id = {}
  BY DEF Harmless, MayActivate
<1>1. desc[s] \in Descs /\ desc[u] \in Descs
  BY DEF Described
<1>2. PICK j \in DOMAIN desc[u].terms : w = desc[u].terms[j].id
  BY DEF Writes
<1>3. ~ InWriteState(ws, desc[s].terms[k].id)
  BY DEF Clear, TermMerges
<1> QED
  BY <1>1, <1>2, <1>3, Disjoint

\* The last operation can be continued with what is known of its systems.
Continues(idle, st) ==
  LET op == Last(st.ops) IN
  /\ op.mt = st.mt /\ op.imm = st.imm
  /\ \A i \in DOMAIN st.systems : Has(op, i) => Writes(st.systems[i]) \subseteq st.ws
  /\ WildcardsApart => Safe(idle, st.systems, op)

\* The state of flecs_pipeline_build between two systems, when it has skipped
\* the inactive systems of idle.
Built(idle, st) ==
  /\ st.systems \in Seq(Systems)
  /\ st.systems # <<>> => ~ st.first
  /\ st.ops = <<>> => st.systems = <<>>
  /\ st.ops # <<>> => Room(idle, st.systems, st.ops)
  /\ st.ops # <<>> /\ Last(st.ops).count > 0 => Continues(idle, st)

LEMMA AddOpIs ==
  ASSUME NEW idle, NEW st, Built(idle, st), NEW merge
  PROVE  LET added == AddOp(st, merge) IN
         /\ Room(idle, st.systems, added)
         /\ Last(added).count > 0 => ~ merge /\ st.ops # <<>> /\ added = st.ops
<1> DEFINE sys == st.systems
           added == AddOp(st, merge)
           op == NewOp(Len(sys))
<1>0. sys \in Seq(Systems) /\ op.count = 0
  BY DEF Built, NewOp
<1>1. CASE st.ops = <<>>
  <2>1. sys = <<>> /\ Len(<<>>) = 0
    BY <1>1 DEF Built
  <2>2. added = <<NewOp(0)>>
    BY <1>1, <2>1 DEF AddOp
  <2>3. Last(added).count = 0
    BY <2>2 DEF Last, NewOp
  <2> QED
    BY <2>1, <2>2, <2>3, RoomFirst
<1>2. CASE st.ops # <<>> /\ merge /\ Last(st.ops).count > 0
  <2>1. added = Append(st.ops, op) /\ Room(idle, sys, st.ops)
    BY <1>2 DEF AddOp, Built
  <2> HIDE DEF op
  <2>2. st.ops \in Seq(OpType)
    BY <2>1 DEF Room
  <2>3. Last(added) = op
    <3> HIDE DEF added
    <3> QED
      BY <2>1, <2>2, AppendProperties, SeqIs DEF Last
  <2>4. Room(idle, sys, added)
    <3> HIDE DEF added
    <3> QED
      BY <1>0, <1>2, <2>1, RoomNew DEF op
  <2> QED
    BY <1>0, <2>3, <2>4
<1>3. CASE st.ops # <<>> /\ ~ (merge /\ Last(st.ops).count > 0)
  BY <1>3 DEF AddOp, Built
<1> QED
  BY <1>1, <1>2, <1>3

LEMMA ReplaceLast ==
  ASSUME NEW o \in Seq(OpType), o # <<>>, NEW op1 \in OpType
  PROVE  Replaced(o, [o EXCEPT ![Len(o)] = op1], op1)
<1>1. Len(o) \in Nat /\ DOMAIN o = 1..Len(o) /\ Len(o) # 0
  BY SeqIs, EmptySeq
<1>2. Len(o) \in 1..Len(o)
  BY <1>1
<1>3. [o EXCEPT ![Len(o)] = op1] \in Seq(OpType) /\ Len([o EXCEPT ![Len(o)] = op1]) = Len(o)
  BY <1>1, <1>2, ExceptSeq
<1> QED
  BY <1>1, <1>2, <1>3 DEF Replaced

\* What adding s needs to know of the state r after it.
AddedTo(act, st, s, added, merge, r) ==
  LET before == IF merge THEN {} ELSE st.ws
      op == Last(added)
      a == s \in act IN
  /\ r.ws = CheckTerms(before, desc[s].terms, a).ws
  /\ r.mt = (IF a THEN desc[s].mt ELSE st.mt) /\ r.imm = (IF a THEN desc[s].imm ELSE st.imm)
  /\ r.first = (st.first /\ ~ a)
  /\ r.systems = IF a THEN Append(st.systems, s) ELSE st.systems
  /\ ~ a => r.ops = added
  /\ a => r.ops = [added EXCEPT ![Len(added)] =
                     [offset |-> op.offset, count |-> op.count + 1,
                      mt |-> IF op.count = 0 THEN desc[s].mt ELSE op.mt,
                      imm |-> IF op.count = 0 THEN desc[s].imm ELSE op.imm]]

LEMMA AddedIs ==
  ASSUME NEW act, NEW st, NEW s
  PROVE  LET merge == NeedsMerge(act, st, s) IN
         AddedTo(act, st, s, AddOp(st, merge), merge, AddSystem(act, st, s))
  BY DEF AddSystem, AddedTo

LEMMA AddSystemIs ==
  ASSUME Described, NEW idle \in SUBSET Systems, NEW st, Built(idle, st), NEW act,
         NEW s \in Systems, \A i \in DOMAIN st.systems : st.systems[i] < s, \A t \in idle : t < s
  PROVE  LET r == AddSystem(act, st, s) IN
         /\ Built(IF s \in act THEN idle ELSE idle \cup {s}, r)
         /\ r.systems = IF s \in act THEN Append(st.systems, s) ELSE st.systems
<1> DEFINE a == s \in act
           sys == st.systems
           merge == NeedsMerge(act, st, s)
           before == IF merge THEN {} ELSE st.ws
           added == AddOp(st, merge)
           op == Last(added)
           r == AddSystem(act, st, s)
           v == CheckTerms(before, desc[s].terms, a).ws
           n == Len(sys)
<1>1. AddedTo(act, st, s, added, merge, r)
  BY AddedIs
<1>2. Room(idle, sys, added) /\ (op.count > 0 => ~ merge /\ st.ops # <<>> /\ added = st.ops)
  BY AddOpIs
<1>3. /\ ~ merge => ~ CheckTerms(st.ws, desc[s].terms, a).merge
      /\ a /\ ~ merge => ~ desc[s].imm /\ ~ Switches(st, s)
  BY DEF NeedsMerge
<1>4. desc[s] \in Descs /\ desc[s].mt \in BOOLEAN /\ desc[s].imm \in BOOLEAN
  BY DescsAssumption DEF Described
<1>5. a \/ ~ merge =>
        Clear(before, s) /\ before \subseteq v /\ (~ a => v = before) /\ (a => Writes(s) \subseteq v)
  <2> SUFFICES ASSUME a \/ ~ merge PROVE ~ CheckTerms(before, desc[s].terms, a).merge
    <3>1. a \in BOOLEAN /\ v = CheckTerms(before, desc[s].terms, a).ws
      OBVIOUS
    <3> HIDE DEF a, before, v
    <3> QED
      BY <3>1, Unmerged
  <2>1. CASE ~ merge
    BY <1>3, <2>1
  <2>2. CASE merge /\ a
    BY <1>4, <2>2, RecheckAssumption
  <2> QED
    BY <2>1, <2>2
<1> HIDE DEF r, v, added, merge
<1>6. r.ws = v
  BY <1>1 DEF AddedTo, v
<1>7. /\ sys \in Seq(Systems) /\ n \in Nat /\ DOMAIN sys = 1..n /\ \A i \in DOMAIN sys : sys[i] \in Systems
  <2>1. sys \in Seq(Systems)
    BY DEF Built
  <2> QED
    BY <2>1, SeqIs
<1>8. /\ added \in Seq(OpType) /\ added # <<>> /\ op \in OpType /\ op.offset \in Nat /\ op.count \in Nat
      /\ op.offset + op.count = n
  <2>1. added # <<>>
    BY <1>2 DEF Room
  <2>2. /\ added \in Seq(OpType) /\ Len(added) \in DOMAIN added /\ op = added[Len(added)]
        /\ \A k \in DOMAIN added : added[k] \in OpType /\ added[k].offset \in Nat /\ added[k].count \in Nat
        /\ op.offset + op.count = n
    BY <1>2, <1>7, RoomIs
  <2> QED
    BY <2>1, <2>2
<1>9. ASSUME op.count > 0
      PROVE  ~ merge /\ before = st.ws /\ Continues(idle, st) /\ op = Last(st.ops) /\ sys # <<>> /\ ~ st.first
  <2>1. ~ merge /\ st.ops # <<>> /\ added = st.ops
    BY <1>2, <1>9
  <2>2. sys # <<>>
    <3>1. n # 0
      BY <1>8, <1>9
    <3> QED
      BY <3>1, <1>7, EmptySeq
  <2> QED
    BY <1>9, <2>1, <2>2 DEF Built
<1>10. CASE a
  <2> DEFINE op1 == [offset |-> op.offset, count |-> op.count + 1,
                     mt |-> IF op.count = 0 THEN desc[s].mt ELSE op.mt,
                     imm |-> IF op.count = 0 THEN desc[s].imm ELSE op.imm]
             sys1 == Append(sys, s)
  <2>1. /\ r.ops = [added EXCEPT ![Len(added)] = op1] /\ r.systems = sys1
        /\ r.mt = desc[s].mt /\ r.imm = desc[s].imm /\ ~ r.first
    BY <1>1, <1>10 DEF AddedTo
  <2>2. op.count > 0 => desc[s].mt = op.mt /\ desc[s].imm = op.imm /\ ~ op.imm
    BY <1>3, <1>9, <1>10 DEF Switches, Continues
  <2>3. op1 \in OpType /\ Joined(op, s, op1)
    <3>1. op.count + 1 \in Nat /\ (op.count = 0 \/ op.count > 0)
      BY <1>8
    <3>2. op1 = [offset |-> op.offset, count |-> op.count + 1, mt |-> desc[s].mt, imm |-> desc[s].imm]
      BY <2>2, <3>1
    <3>3. op1 \in OpType
      BY <1>4, <1>8, <3>1, <3>2 DEF OpType
    <3> QED
      BY <3>2, <3>3 DEF Joined
  <2> HIDE DEF op1, op
  <2>4. Replaced(added, r.ops, op1)
    BY <1>8, <2>1, <2>3, ReplaceLast
  <2>5. Joins(idle, sys, op, s)
    <3> SUFFICES ASSUME op.count > 0, WildcardsApart
                 PROVE  /\ \A i \in DOMAIN sys : Has(op, i) =>
                              \A x \in Reads(s), w \in Writes(sys[i]) : x \cap w = {}
                        /\ Safe(idle, sys, op)
      BY <2>2 DEF Joins
    <3>1. Safe(idle, sys, op) /\ \A i \in DOMAIN sys : Has(op, i) => Writes(sys[i]) \subseteq st.ws
      BY <1>9 DEF Continues
    <3>2. Clear(st.ws, s)
      BY <1>5, <1>9
    <3> QED
      BY <1>7, <3>1, <3>2, ClearReads
  <2>6. Room(idle, sys1, r.ops)
    BY <1>2, <1>7, <2>3, <2>4, <2>5, RoomJoined DEF op
  <2>7. sys1 \in Seq(Systems) /\ Len(sys1) = n + 1 /\ sys1[n + 1] = s
        /\ \A i \in DOMAIN sys : sys1[i] = sys[i]
    BY <1>7, AppendProperties
  <2> HIDE DEF sys1
  <2>8. DOMAIN sys1 = 1..n + 1 /\ \A i \in DOMAIN sys1 : i \in DOMAIN sys \/ i = n + 1
    BY <1>7, <2>7, SeqIs
  <2>9. Last(r.ops) = op1
    BY <2>4 DEF Replaced, Last
  <2>10. \A i \in DOMAIN sys : Has(op1, i) => Has(op, i) /\ op.count > 0
    BY <1>7, <1>8, <2>3 DEF Has, Joined
  <2>11. Continues(idle, r)
    <3>1. ASSUME NEW i \in DOMAIN sys1, Has(op1, i) PROVE Writes(sys1[i]) \subseteq r.ws
      <4>1. CASE i = n + 1
        BY <1>5, <1>6, <1>10, <2>7, <4>1
      <4>2. CASE i \in DOMAIN sys
        BY <1>5, <1>6, <1>9, <1>10, <2>7, <2>10, <3>1, <4>2 DEF Continues
      <4> QED
        BY <2>8, <4>1, <4>2
    <3>2. ASSUME WildcardsApart PROVE Safe(idle, sys1, op1)
      <4> SUFFICES ASSUME NEW i \in DOMAIN sys1, Has(op1, i), NEW t \in idle, sys1[i] < t
                   PROVE  Harmless(sys1[i], t)
        BY DEF Safe
      <4>1. CASE i = n + 1
        <5>1. s < t /\ t < s /\ s \in Nat /\ t \in Nat
          BY <2>7, <4>1 DEF Systems
        <5> QED
          BY <5>1
      <4>2. CASE i \in DOMAIN sys
        BY <1>9, <2>7, <2>10, <3>2, <4>2 DEF Continues, Safe
      <4> QED
        BY <2>8, <4>1, <4>2
    <3> QED
      BY <2>1, <2>3, <2>9, <3>1, <3>2 DEF Continues, Joined
  <2>12. r.ops # <<>>
    BY <2>6 DEF Room
  <2> QED
    BY <1>10, <2>1, <2>6, <2>7, <2>11, <2>12 DEF Built, sys1, r
<1>11. CASE ~ a
  <2>1. /\ r.ops = added /\ r.systems = sys /\ r.mt = st.mt /\ r.imm = st.imm /\ r.first = (st.first /\ ~ a)
    BY <1>1, <1>11 DEF AddedTo
  <2>2. Room(idle \cup {s}, sys, added)
    BY <1>2, <1>7, RoomIdle
  <2>3. ASSUME op.count > 0 PROVE Continues(idle \cup {s}, r)
    <3>1. Continues(idle, st) /\ r.ws = st.ws /\ Clear(st.ws, s) /\ op = Last(st.ops)
      BY <1>5, <1>6, <1>9, <1>11, <2>3
    <3>2. \A i \in DOMAIN sys : Has(op, i) => Writes(sys[i]) \subseteq st.ws
      BY <3>1 DEF Continues
    <3>3. ASSUME WildcardsApart PROVE Safe(idle \cup {s}, sys, op)
      <4>1. Safe(idle, sys, op)
        BY <3>1, <3>3 DEF Continues
      <4>2. ASSUME NEW i \in DOMAIN sys, Has(op, i) PROVE Harmless(sys[i], s)
        BY <1>7, <3>1, <3>2, <3>3, <4>2, ClearHarmless
      <4> QED
        BY <4>1, <4>2 DEF Safe
    <3> QED
      BY <2>1, <3>1, <3>2, <3>3 DEF Continues
  <2>4. added # <<>> /\ (sys # <<>> => ~ r.first)
    BY <1>8, <2>1 DEF Built
  <2> HIDE DEF op
  <2> QED
    BY <1>7, <1>11, <2>1, <2>2, <2>3, <2>4 DEF Built, r, op
<1> QED
  BY <1>10, <1>11

-----------------------------------------------------------------------------
(* The schedule as a whole.                                                *)

\* The first n operations of o are a schedule of sys; the systems of idle are
\* inactive.
Fits(idle, sys, o, n) ==
  /\ Parts(sys, o, n)
  /\ \A k \in 1..n : k > 1 \/ sys # <<>> => o[k].count > 0
  /\ \A k \in 1..n : Neat(idle, sys, o[k])

\* All systems of f[n] were added to the schedule, in the order of the query.
LEMMA AddRunIs ==
  ASSUME Described, NEW m \in SUBSET Systems, NEW act, NEW f, AddRun(m, act, f),
         NEW g, OrderRun(m \cap act, g), NEW n \in 0..SystemCount
  PROVE  f[n].systems = g[n] /\ Built((m \cap 1..n) \ act, f[n])
<1>0. SystemCount \in Nat
  BY DescsAssumption
<1> DEFINE Idle(k) == (m \cap 1..k) \ act
           T == {k \in 0..SystemCount : f[k].systems = g[k] /\ Built(Idle(k), f[k])}
<1>1. 0 \in T
  <2>1. f[0] = NothingAdded /\ g[0] = <<>>
    BY DEF AddRun, OrderRun
  <2>2. Built(Idle(0), NothingAdded)
    BY DEF Built, NothingAdded
  <2>3. NothingAdded.systems = <<>>
    BY DEF NothingAdded
  <2> QED
    BY <1>0, <2>1, <2>2, <2>3
<1>2. ASSUME NEW k \in 1..SystemCount, k - 1 \in T PROVE k \in T
  <2> DEFINE st == f[k - 1]
             idle == Idle(k - 1)
  <2>1. st.systems = g[k - 1] /\ Built(idle, st) /\ k - 1 \in 0..SystemCount /\ k \in 0..SystemCount
    BY <1>0, <1>2
  <2>2. f[k] = AddStep(m, act, st, k) /\ g[k] = OrderStep(m \cap act, g[k - 1], k)
    BY DEF AddRun, OrderRun
  <2>3. \A i \in DOMAIN st.systems : st.systems[i] < k
    <3>1. Sorted(g[k - 1], (m \cap act) \cap 1..k - 1)
      <4>1. m \cap act \in SUBSET Systems
        OBVIOUS
      <4> QED
        BY <2>1, <4>1, OrderRunIs
    <3>2. ASSUME NEW i \in DOMAIN st.systems PROVE st.systems[i] \in 1..k - 1
      BY <2>1, <3>1 DEF Sorted
    <3> QED
      BY <3>2
  <2>4. idle \in SUBSET Systems /\ (\A t \in idle : t < k) /\ k \in Systems
    BY DEF Systems
  <2>5. Idle(k) = IF k \in m /\ k \notin act THEN idle \cup {k} ELSE idle
    OBVIOUS
  <2> HIDE DEF st, idle
  <2>6. CASE k \in m
    <3> DEFINE r == AddSystem(act, st, k)
    <3>1. /\ Built(IF k \in act THEN idle ELSE idle \cup {k}, r)
          /\ r.systems = IF k \in act THEN Append(st.systems, k) ELSE st.systems
      BY <2>1, <2>3, <2>4, AddSystemIs
    <3>2. f[k] = r
      BY <2>2, <2>6 DEF AddStep
    <3> HIDE DEF r
    <3>3. f[k].systems = g[k]
      BY <2>1, <2>2, <2>6, <3>1, <3>2 DEF OrderStep
    <3>4. Built(Idle(k), f[k])
      <4>1. Idle(k) = IF k \in act THEN idle ELSE idle \cup {k}
        BY <2>5, <2>6
      <4> HIDE DEF Idle
      <4> QED
        BY <3>1, <3>2, <4>1
    <3> QED
      BY <2>1, <3>3, <3>4
  <2>7. CASE k \notin m
    <3>1. f[k] = st /\ g[k] = g[k - 1]
      BY <2>2, <2>7 DEF AddStep, OrderStep
    <3>2. Idle(k) = idle
      BY <2>5, <2>7
    <3> QED
      BY <2>1, <3>1, <3>2
  <2> QED
    BY <2>6, <2>7
<1>3. n \in T
  <2> HIDE DEF T
  <2> QED
    BY <1>0, <1>1, <1>2, UpTo
<1> QED
  BY <1>3

LEMMA Untrimmed ==
  ASSUME NEW idle, NEW sys \in Seq(Systems), NEW o, Room(idle, sys, o),
         Len(o) = 1 \/ Last(o).count # 0
  PROVE  Fits(idle, sys, o, Len(o))
<1> DEFINE n == Len(o)
<1>1. /\ n \in Nat \ {0} /\ DOMAIN o = 1..n /\ Last(o) = o[n] /\ o[n].offset + o[n].count = Len(sys)
      /\ \A k \in DOMAIN o : o[k].count \in Nat
  BY RoomIs
<1>2. Parts(sys, o, n) /\ (\A k \in DOMAIN o : k # n => o[k].count > 0) /\ \A k \in DOMAIN o : Neat(idle, sys, o[k])
  BY DEF Room
<1>3. Len(sys) \in Nat /\ (sys # <<>> => Len(sys) # 0)
  BY SeqIs, EmptySeq
<1> HIDE DEF n
<1>4. ASSUME NEW k \in 1..n, k > 1 \/ sys # <<>> PROVE o[k].count > 0
  <2>1. CASE k # n
    BY <1>1, <1>2, <2>1
  <2>2. CASE k = n /\ Last(o).count # 0
    BY <1>1, <2>2
  <2>3. CASE k = n /\ Len(o) = 1
    <3>1. o[1].offset = 0 /\ n = 1
      BY <1>1, <1>2, <2>3 DEF Parts, n
    <3>2. o[k].count = Len(sys) /\ sys # <<>>
      BY <1>1, <1>4, <2>3, <3>1
    <3> QED
      BY <1>3, <3>2
  <2> QED
    BY <2>1, <2>2, <2>3
<1> QED
  BY <1>1, <1>2, <1>4 DEF Fits, n

LEMMA Trimmed ==
  ASSUME NEW idle, NEW sys \in Seq(Systems), NEW o, Room(idle, sys, o),
         Len(o) > 1, Last(o).count = 0
  PROVE  Front(o) \in Seq(OpType) /\ Fits(idle, sys, Front(o), Len(Front(o)))
<1> DEFINE n == Len(o)
           m == n - 1
           o1 == Front(o)
<1>1. /\ o \in Seq(OpType) /\ n \in Nat /\ n > 1 /\ DOMAIN o = 1..n /\ o[n].count = 0
      /\ o[n].offset + o[n].count = Len(sys)
      /\ \A k \in DOMAIN o : o[k].offset \in Nat /\ o[k].offset + o[k].count <= Len(sys)
  BY RoomIs
<1>2. /\ Parts(sys, o, n) /\ (\A k \in DOMAIN o : k # n => o[k].count > 0)
      /\ \A k \in DOMAIN o : Neat(idle, sys, o[k])
  BY DEF Room
<1> HIDE DEF n
<1>3. m \in Nat /\ m >= 1 /\ m < n /\ 1 \in 1..m /\ n \in 2..n /\ n \in DOMAIN o
      /\ \A k \in 1..m : k \in 1..n /\ k # n /\ k \in DOMAIN o
  BY <1>1
<1>4. o1 \in Seq(OpType) /\ Len(o1) = m /\ \A k \in 1..m : o1[k] = o[k]
  <2>1. o1 = SubSeq(o, 1, m)
    BY DEF Front, n
  <2>2. (\A i \in 1..m : o[i] \in OpType) /\ 1 \in Int /\ m \in Int
    BY <1>1, <1>3, SeqIs
  <2> HIDE DEF m
  <2>3. /\ SubSeq(o, 1, m) \in Seq(OpType)
        /\ Len(SubSeq(o, 1, m)) = IF 1 <= m THEN m - 1 + 1 ELSE 0
        /\ \A i \in 1..m - 1 + 1 : SubSeq(o, 1, m)[i] = o[1 + i - 1]
    BY <2>2, SubSeqProperties
  <2>4. m - 1 + 1 = m /\ 1 <= m /\ \A i \in 1..m : 1 + i - 1 = i
    BY <1>3
  <2> QED
    BY <2>1, <2>3, <2>4
<1> HIDE DEF m, o1
<1>5. Parts(sys, o1, m)
  <2>1. o1[1].offset = 0
    BY <1>1, <1>2, <1>3, <1>4 DEF Parts
  <2>2. o1[m].offset + o1[m].count = Len(sys)
    <3>1. o[n].offset = o[n - 1].offset + o[n - 1].count
      BY <1>2, <1>3 DEF Parts
    <3>2. o[n].offset = Len(sys)
      BY <1>1, <1>3
    <3>3. m \in 1..m /\ n - 1 = m
      BY <1>1, <1>3 DEF m
    <3> QED
      BY <1>4, <3>1, <3>2, <3>3
  <2>3. ASSUME NEW k \in 2..m PROVE o1[k].offset = o1[k - 1].offset + o1[k - 1].count
    <3>1. k \in 2..n /\ k \in 1..m /\ k - 1 \in 1..m
      BY <1>1, <1>3
    <3> QED
      BY <1>2, <1>4, <3>1 DEF Parts
  <2>4. \A k \in 1..m : o1[k].offset + o1[k].count <= Len(sys)
    BY <1>1, <1>3, <1>4
  <2>5. m # 0 /\ m > 0
    BY <1>3
  <2> QED
    BY <2>1, <2>2, <2>3, <2>4, <2>5 DEF Parts
<1>6. \A k \in 1..m : o1[k].count > 0 /\ Neat(idle, sys, o1[k])
  BY <1>2, <1>3, <1>4
<1>7. Fits(idle, sys, o1, Len(o1))
  BY <1>4, <1>5, <1>6 DEF Fits
<1> QED
  BY <1>4, <1>7 DEF o1

\* A schedule for the matched systems, of which act are active.
Scheduled(m, act, sch) ==
  /\ sch.systems = InOrder(m \cap act)
  /\ sch.ops \in Seq(OpType)
  /\ Fits(m \ act, sch.systems, sch.ops, Len(sch.ops))

LEMMA ScheduleIs ==
  ASSUME Described, NEW m \in SUBSET Systems, NEW act
  PROVE  Scheduled(m, act, Schedule(m, act))
<1> DEFINE st == AddAll(m, act)
           trailing == Len(st.ops) > 1 /\ Last(st.ops).count = 0
           sch == Schedule(m, act)
<1>1. sch.systems = st.systems /\ sch.ops = IF trailing THEN Front(st.ops) ELSE st.ops
  BY DEF Schedule
<1>2. st.systems = InOrder(m \cap act) /\ Built(m \ act, st)
  <2>1. PICK f : AddRun(m, act, f) /\ st = f[SystemCount]
    BY AddAllIs
  <2>2. PICK g : OrderRun(m \cap act, g) /\ InOrder(m \cap act) = g[SystemCount]
    BY InOrderRuns
  <2>3. SystemCount \in 0..SystemCount
    BY DescsAssumption
  <2>4. m \cap 1..SystemCount = m
    BY DEF Systems
  <2> HIDE DEF st
  <2>5. f[SystemCount].systems = g[SystemCount] /\ Built((m \cap 1..SystemCount) \ act, f[SystemCount])
    BY <2>1, <2>2, <2>3, AddRunIs
  <2> QED
    BY <2>1, <2>2, <2>4, <2>5
<1> HIDE DEF st, sch
<1>3. st.systems \in Seq(Systems)
  BY <1>2 DEF Built
<1>4. CASE st.ops = <<>>
  <2>1. st.systems = <<>> /\ sch.ops = <<>>
    <3>1. ~ (Len(<<>>) > 1)
      OBVIOUS
    <3> QED
      BY <1>1, <1>2, <1>4, <3>1 DEF Built
  <2>2. Fits(m \ act, <<>>, <<>>, 0)
    BY DEF Fits, Parts
  <2>3. sch.ops \in Seq(OpType) /\ Len(sch.ops) = 0
    BY <2>1
  <2> QED
    BY <1>1, <1>2, <2>1, <2>2, <2>3 DEF Scheduled, sch
<1>5. CASE st.ops # <<>>
  <2>1. Room(m \ act, st.systems, st.ops)
    BY <1>2, <1>5 DEF Built
  <2>2. st.ops \in Seq(OpType) /\ Len(st.ops) \in Nat \ {0}
    BY <1>3, <2>1, RoomIs
  <2>3. CASE trailing
    BY <1>1, <1>2, <1>3, <2>1, <2>3, Trimmed DEF Scheduled, sch
  <2>4. CASE ~ trailing
    <3>1. Len(st.ops) = 1 \/ Last(st.ops).count # 0
      <4>1. CASE Len(st.ops) > 1
        BY <2>4, <4>1
      <4>2. CASE ~ (Len(st.ops) > 1)
        <5> DEFINE l == Len(st.ops)
        <5>1. l \in Nat \ {0} /\ ~ (l > 1)
          BY <2>2, <4>2
        <5> HIDE DEF l
        <5>2. l = 1
          BY <5>1
        <5> QED
          BY <5>2 DEF l
      <4> QED
        BY <4>1, <4>2
    <3> QED
      BY <1>1, <1>2, <1>3, <2>1, <2>2, <2>4, <3>1, Untrimmed DEF Scheduled, sch
  <2> QED
    BY <2>3, <2>4
<1> QED
  BY <1>4, <1>5

-----------------------------------------------------------------------------
(* Going on with a new schedule.                                           *)

LEMMA FitsSame ==
  ASSUME NEW idle, NEW sys, NEW o, NEW n \in Nat, Fits(idle, sys, o, n),
         NEW o1, \A k \in 1..n : o1[k] = o[k]
  PROVE  Fits(idle, sys, o1, n)
<1>1. Parts(sys, o, n)
  BY DEF Fits
<1>2. \A k \in 2..n : k \in 1..n /\ k - 1 \in 1..n
  OBVIOUS
<1>3. n > 0 => 1 \in 1..n /\ n \in 1..n
  OBVIOUS
<1>4. Parts(sys, o1, n)
  BY <1>1, <1>2, <1>3 DEF Parts
<1> QED
  BY <1>4 DEF Fits

\* StoreSchedule has put a schedule for the systems m, of which act are active,
\* in place.
Stored(m, act, sch) ==
  /\ systems' = InOrder(m \cap act) /\ systems' \in Seq(Systems)
  /\ ops' \in Seq(OpType) /\ Len(ops) <= Len(ops') /\ opCount' \in 0..Len(ops')
  /\ sch.systems = systems' /\ Len(sch.ops) = opCount' /\ DOMAIN sch.ops = 1..opCount'
  /\ \A k \in 1..opCount' : sch.ops[k] = ops'[k]
  /\ Fits(m \ act, systems', ops', opCount')
  /\ dirty' = (ops' = <<>>)

LEMMA StoreIs ==
  ASSUME Described, ops \in Seq(OpType), NEW m \in SUBSET Systems, NEW act,
         StoreSchedule(Schedule(m, act))
  PROVE  Stored(m, act, Schedule(m, act))
<1> DEFINE sch == Schedule(m, act)
           n == Len(sch.ops)
           l == Len(ops)
           rest == SubSeq(ops, n + 1, l)
<1>1. Scheduled(m, act, sch)
  BY ScheduleIs
<1>2. /\ ops' = sch.ops \o rest /\ opCount' = n /\ systems' = sch.systems /\ dirty' = (ops' = <<>>)
  BY DEF StoreSchedule
<1> HIDE DEF sch
<1>3. sch.ops \in Seq(OpType) /\ n \in Nat /\ l \in Nat /\ DOMAIN sch.ops = 1..n
  BY <1>1, SeqIs DEF Scheduled
<1>4. rest \in Seq(OpType) /\ Len(rest) = IF n + 1 <= l THEN l - (n + 1) + 1 ELSE 0
  <2>1. n + 1 \in Int /\ l \in Int /\ \A i \in n + 1..l : ops[i] \in OpType
    BY <1>3, SeqIs
  <2> HIDE DEF n, l
  <2> QED
    BY <2>1, SubSeqProperties
<1> HIDE DEF rest
<1>5. /\ sch.ops \o rest \in Seq(OpType) /\ Len(sch.ops \o rest) = n + Len(rest)
      /\ \A k \in 1..n : (sch.ops \o rest)[k] = sch.ops[k]
  <2>1. \A k \in 1..n + Len(rest) : (sch.ops \o rest)[k] = IF k <= n THEN sch.ops[k] ELSE rest[k - n]
    BY <1>3, <1>4, ConcatProperties
  <2>2. Len(rest) \in Nat
    BY <1>4, SeqIs
  <2>3. \A k \in 1..n : k \in 1..n + Len(rest) /\ k <= n
    BY <1>3, <2>2
  <2> QED
    BY <1>3, <1>4, <2>1, <2>3, ConcatProperties
<1>6. ops' \in Seq(OpType) /\ (\A k \in 1..n : ops'[k] = sch.ops[k]) /\ l <= Len(ops') /\ n \in 0..Len(ops')
  <2> DEFINE r == Len(rest)
  <2>1. n \in Nat /\ l \in Nat /\ r = IF n + 1 <= l THEN l - (n + 1) + 1 ELSE 0
    BY <1>3, <1>4
  <2>2. Len(ops') = n + r
    BY <1>2, <1>5
  <2> HIDE DEF n, l, r
  <2>3. l <= n + r /\ n \in 0..n + r
    BY <2>1
  <2> QED
    BY <1>2, <1>5, <2>2, <2>3
<1>7. Fits(m \ act, systems', ops', opCount')
  BY <1>1, <1>2, <1>3, <1>6, FitsSame DEF Scheduled
<1>8. systems' = InOrder(m \cap act) /\ systems' \in Seq(Systems)
  <2>1. Sorted(InOrder(m \cap act), m \cap act)
    BY InOrderIs, m \cap act \in SUBSET Systems
  <2> QED
    BY <1>1, <1>2, <2>1 DEF Scheduled, Sorted
<1> QED
  BY <1>2, <1>3, <1>6, <1>7, <1>8 DEF Stored, sch

LEMMA NextTypes ==
  ASSUME ops' \in Seq(OpType), opCount' \in 0..Len(ops'),
         NEW at, at.cur \in 0..Len(ops'), at.pos \in Nat
  PROVE  NextSystem(at).cur \in 0..Len(ops') /\ NextSystem(at).pos \in Nat
<1>1. Len(ops') \in Nat
  BY SeqIs
<1>2. CASE at.cur = 0
  BY <1>1, <1>2 DEF NextSystem
<1>3. CASE at.cur # 0
  <2> DEFINE o == ops'[at.cur]
             c == IF at.pos + 1 < o.offset + o.count THEN at.cur
                  ELSE IF at.cur + 1 > opCount' THEN 0 ELSE at.cur + 1
  <2>1. NextSystem(at).cur = c /\ NextSystem(at).pos = at.pos + 1
    BY <1>3 DEF NextSystem
  <2>2. c = at.cur \/ c = 0 \/ (c = at.cur + 1 /\ ~ (at.cur + 1 > opCount'))
    OBVIOUS
  <2> HIDE DEF c
  <2>3. c \in 0..Len(ops')
    BY <1>1, <2>2
  <2> QED
    BY <2>1, <2>3
<1> QED
  BY <1>2, <1>3

\* The operation with the place i, counted from 0, of the schedule.
LEMMA OpOf ==
  ASSUME NEW idle, NEW sys \in Seq(Systems), NEW o, NEW n \in Nat, Fits(idle, sys, o, n),
         \A k \in 1..n : o[k].offset \in Nat /\ o[k].count \in Nat,
         NEW i \in Nat, i < Len(sys)
  PROVE  \E k \in 1..n : o[k].offset <= i /\ i < o[k].offset + o[k].count
<1> DEFINE S == {k \in 1..n : i < o[k].offset + o[k].count}
<1>1. Parts(sys, o, n) /\ Len(sys) \in Nat
  BY SeqIs DEF Fits
<1>2. n > 0
  <2>1. sys # <<>>
    BY <1>1, EmptySeq
  <2> QED
    BY <1>1, <2>1 DEF Parts
<1>3. n \in S
  BY <1>1, <1>2 DEF Parts
<1>4. PICK k \in S : \A j \in S : k <= j
  <2>1. S \in SUBSET Nat /\ S # {}
    BY <1>3
  <2> HIDE DEF S
  <2> QED
    BY <2>1, NatMin
<1>5. k \in 1..n /\ i < o[k].offset + o[k].count
  OBVIOUS
<1>6. o[k].offset <= i
  <2>1. CASE k = 1
    BY <1>1, <1>2, <2>1 DEF Parts
  <2>2. CASE k # 1
    <3>1. k \in 2..n /\ k - 1 \in 1..n /\ ~ (k <= k - 1)
      BY <1>5, <2>2
    <3>2. ~ (i < o[k - 1].offset + o[k - 1].count)
      BY <1>4, <3>1
    <3>3. o[k].offset = o[k - 1].offset + o[k - 1].count
      BY <1>1, <3>1 DEF Parts
    <3>4. o[k].offset \in Nat
      BY <1>5
    <3> QED
      BY <3>2, <3>3, <3>4
  <2> QED
    BY <2>1, <2>2
<1> QED
  BY <1>5, <1>6

LEMMA ResumeExists ==
  ASSUME NEW sch, sch.systems \in Seq(Systems), NEW j \in DOMAIN sch.systems, sch.systems[j] \in current
  PROVE  ResumeAt(sch) # {}
<1> DEFINE sys == sch.systems
           n == Len(sys)
           S == {n - k : k \in {l \in 1..n : sys[l] \in current}}
<1>1. n \in Nat /\ DOMAIN sys = 1..n
  BY SeqIs
<1> HIDE DEF n, sys
<1>2. PICK d \in S : \A e \in S : d <= e
  <2>1. n - j \in S
    BY <1>1 DEF sys
  <2>2. S \in SUBSET Nat
    BY <1>1
  <2> HIDE DEF S
  <2> QED
    BY <2>1, <2>2, NatMin
<1>3. PICK k \in 1..n : sys[k] \in current /\ d = n - k
  OBVIOUS
<1>4. ASSUME NEW i \in k..n - 1, sys[i + 1] \in current PROVE FALSE
  <2>1. i + 1 \in 1..n /\ n - (i + 1) \in S
    BY <1>1, <1>4
  <2>2. ~ (n - k <= n - (i + 1))
    BY <1>1
  <2> QED
    BY <1>2, <1>3, <2>1, <2>2
<1>5. k - 1 \in 0..n - 1 /\ k - 1 + 1 = k
  BY <1>1
<1>6. k - 1 \in ResumeAt(sch)
  BY <1>3, <1>4, <1>5 DEF ResumeAt, sys, n
<1> QED
  BY <1>6

\* The run goes on after the place i, counted from 0, or ends there.
LandsAfter(i, r) ==
  \/ i + 1 = Len(systems') /\ r.cur = 0 /\ r.pos = 0
  \/ /\ i + 1 < Len(systems') /\ r.pos = i + 1 /\ r.cur \in 1..opCount'
     /\ ops'[r.cur].offset <= i + 1 /\ i + 1 < ops'[r.cur].offset + ops'[r.cur].count

LEMMA StoredOps ==
  ASSUME NEW m, NEW act, NEW sch, Stored(m, act, sch)
  PROVE  /\ opCount' \in Nat /\ Len(systems') \in Nat
         /\ \A k \in 1..opCount' : /\ k \in DOMAIN ops' /\ sch.ops[k] = ops'[k] /\ ops'[k] \in OpType
                                   /\ ops'[k].offset \in Nat /\ ops'[k].count \in Nat
<1>1. /\ systems' \in Seq(Systems) /\ ops' \in Seq(OpType) /\ opCount' \in 0..Len(ops')
      /\ \A k \in 1..opCount' : sch.ops[k] = ops'[k]
  BY DEF Stored
<1>2. Len(ops') \in Nat /\ DOMAIN ops' = 1..Len(ops') /\ Len(systems') \in Nat
      /\ \A k \in DOMAIN ops' : ops'[k] \in OpType
  BY <1>1, SeqIs
<1>3. \A k \in 1..opCount' : k \in DOMAIN ops'
  BY <1>1, <1>2
<1>4. \A x \in OpType : x.offset \in Nat /\ x.count \in Nat
  BY DEF OpType
<1> QED
  BY <1>1, <1>2, <1>3, <1>4

\* The schedule is resumed after the last of its systems that has run.
LEMMA ResumeIs ==
  ASSUME NEW m, NEW act, NEW sch, Stored(m, act, sch), NEW at, ResumeAt(sch) # {}
  PROVE  \E i \in ResumeAt(sch) : LandsAfter(i, NextSystem(Resume(sch, at)))
<1> DEFINE i == CHOOSE i \in ResumeAt(sch) : TRUE
           n == Len(systems')
           op == OpAfter(sch, i)
           at1 == [cur |-> op, pos |-> IF op = 0 THEN 0 ELSE i]
<1>1. i \in ResumeAt(sch) /\ Resume(sch, at) = at1
  BY DEF Resume
<1>2. /\ n \in Nat /\ opCount' \in Nat
      /\ \A k \in 1..opCount' : sch.ops[k] = ops'[k] /\ ops'[k].offset \in Nat /\ ops'[k].count \in Nat
  BY StoredOps
<1> HIDE DEF i
<1>3. i \in 0..n - 1 /\ sch.systems = systems' /\ DOMAIN sch.ops = 1..opCount'
  BY <1>1 DEF ResumeAt, Stored
<1>4. CASE i + 1 = n
  <2>1. op = 0
    BY <1>3, <1>4 DEF OpAfter
  <2>2. NextSystem(at1).cur = 0 /\ NextSystem(at1).pos = 0
    BY <2>1 DEF NextSystem
  <2> QED
    BY <1>1, <1>4, <2>2 DEF LandsAfter
<1>5. CASE i + 1 # n
  <2>1. i + 1 \in Nat /\ i + 1 < n /\ i \in Nat
    BY <1>2, <1>3, <1>5
  <2>2. op = CHOOSE k \in 1..opCount' :
               i + 1 \in sch.ops[k].offset..sch.ops[k].offset + sch.ops[k].count - 1
    BY <1>3, <1>5 DEF OpAfter
  <2>3. \E k \in 1..opCount' : ops'[k].offset <= i + 1 /\ i + 1 < ops'[k].offset + ops'[k].count
    <3>1. Fits(m \ act, systems', ops', opCount') /\ systems' \in Seq(Systems)
      BY DEF Stored
    <3> QED
      BY <1>2, <2>1, <3>1, OpOf
  <2>4. \E k \in 1..opCount' : i + 1 \in sch.ops[k].offset..sch.ops[k].offset + sch.ops[k].count - 1
    <3>1. PICK k \in 1..opCount' : ops'[k].offset <= i + 1 /\ i + 1 < ops'[k].offset + ops'[k].count
      BY <2>3
    <3>2. ops'[k].offset \in Nat /\ ops'[k].count \in Nat /\ sch.ops[k] = ops'[k]
      BY <1>2
    <3>3. i + 1 \in ops'[k].offset..ops'[k].offset + ops'[k].count - 1
      BY <2>1, <3>1, <3>2
    <3> QED
      BY <3>2, <3>3
  <2> HIDE DEF op
  <2>5. op \in 1..opCount' /\ i + 1 \in sch.ops[op].offset..sch.ops[op].offset + sch.ops[op].count - 1
    BY <2>2, <2>4
  <2>6. sch.ops[op] = ops'[op] /\ ops'[op].offset \in Nat /\ ops'[op].count \in Nat
    BY <1>2, <2>5
  <2>7. op # 0 /\ ops'[op].offset <= i + 1 /\ i + 1 < ops'[op].offset + ops'[op].count
    BY <2>1, <2>5, <2>6
  <2>8. NextSystem(at1).cur = op /\ NextSystem(at1).pos = i + 1
    BY <2>7 DEF NextSystem
  <2> QED
    BY <1>1, <2>1, <2>5, <2>7, <2>8 DEF LandsAfter
<1> QED
  BY <1>4, <1>5

-----------------------------------------------------------------------------
(* The invariant.                                                          *)

TypeInv ==
  /\ Described /\ enabled \in SUBSET Systems /\ active \in SUBSET Systems
  /\ dirty \in BOOLEAN /\ ops \in Seq(OpType) /\ opCount \in 0..Len(ops)
  /\ systems \in Seq(Systems) /\ cur \in 0..Len(ops) /\ pos \in Nat /\ next \in Nat
  /\ main \in {"idle", "loop", "ops", "merge"} /\ ran \in Seq(Systems)
  /\ main = "ops" => next < Len(systems)

\* The schedule that is in place fits what is known of the systems; while it
\* is not dirty it is the one of the enabled and active systems.
ScheduleInv ==
  /\ Fits({}, systems, ops, opCount)
  /\ ~ dirty => /\ ops # <<>> /\ systems = InOrder(enabled \cap active)
                /\ Fits(enabled \ active, systems, ops, opCount)

Ran == {ran[k] : k \in DOMAIN ran}

\* The main thread is in the operation cur of a schedule that has systems.
Placed ==
  /\ cur \in 1..opCount /\ ops[cur].offset <= pos /\ pos < ops[cur].offset + ops[cur].count
  /\ main \in {"ops", "merge"} => pos <= next
  /\ main = "ops" => /\ next < ops[cur].offset + ops[cur].count
                     /\ \A w \in staged : \E i \in pos + 1..next : w \in Writes(systems[i])
  /\ main = "merge" => next + 1 = ops[cur].offset + ops[cur].count

PlaceInv ==
  /\ main = "idle" => ran = <<>>
  /\ main \in {"idle", "loop"} => staged = {}
  /\ Ran \subseteq active \cap current
  /\ main \in {"ops", "merge"} => cur # 0
  /\ main # "idle" /\ cur # 0 =>
       /\ ~ dirty
       /\ systems = <<>> => ran = <<>> /\ main # "ops"
       /\ systems # <<>> => Placed

\* How many systems of the schedule the run has come past.
Place == CASE main = "ops" -> next [] main = "merge" -> next + 1 [] OTHER -> pos

\* What the run owes to the systems that it is to run.
OrderInv ==
  /\ progress /\ current = Ran
  /\ main = "idle" => due = {}
  /\ main # "idle" =>
       /\ due \subseteq enabled \cap active
       /\ \A s \in due \ Ran : cur # 0 /\ \A k \in DOMAIN ran : ran[k] < s
       /\ cur # 0 /\ systems # <<>> =>
            /\ \A i \in DOMAIN systems : systems[i] \in Ran => i <= Place
            /\ Place > 0 => systems[Place] \in Ran

-----------------------------------------------------------------------------
(* The schedule is kept by every step.                                     *)

LEMMA FitsForget ==
  ASSUME NEW idle, NEW sys, NEW o, NEW n, Fits(idle, sys, o, n)
  PROVE  Fits({}, sys, o, n)
<1>1. ASSUME NEW op, Neat(idle, sys, op) PROVE Neat({}, sys, op)
  BY <1>1 DEF Neat, Quiet
<1> QED
  BY <1>1 DEF Fits

LEMMA FitsLater ==
  ASSUME desc' = desc, Fits({}, systems', ops', opCount')
  PROVE  Fits({}, systems, ops, opCount)'
  BY DEF Fits, Parts, Neat, Agree, Unread, Quiet, Has, Harmless, MayActivate, Reads, Writes

LEMMA QuietLater ==
  ASSUME desc' = desc, Fits(enabled' \ active', systems', ops', opCount')
  PROVE  Fits(enabled \ active, systems, ops, opCount)'
<1>1. Fits({}, systems, ops, opCount)'
  BY FitsForget, FitsLater
<1>2. ASSUME WildcardsApart, NEW k \in 1..opCount' PROVE Quiet(enabled \ active, systems, ops[k])'
  <2>1. Quiet(enabled' \ active', systems', ops'[k])
    BY <1>2 DEF Fits, Neat
  <2> QED
    BY ONLY desc' = desc, <2>1 DEF Quiet, Has, Harmless, MayActivate, Writes
<1> QED
  BY <1>1, <1>2 DEF Fits, Neat

LEMMA ScheduleLater ==
  ASSUME desc' = desc, Fits({}, systems', ops', opCount'),
         ~ dirty' => /\ ops' # <<>> /\ systems' = InOrder(enabled' \cap active')
                     /\ Fits(enabled' \ active', systems', ops', opCount')
  PROVE  ScheduleInv'
<1>1. Fits({}, systems, ops, opCount)'
  BY FitsLater
<1>2. ASSUME ~ dirty' PROVE Fits(enabled \ active, systems, ops, opCount)'
  BY <1>2, QuietLater
<1> QED
  BY <1>1, <1>2 DEF ScheduleInv

LEMMA StoredLater ==
  ASSUME desc' = desc, NEW sch, Stored(enabled', active', sch)
  PROVE  ScheduleInv'
<1>1. Fits({}, systems', ops', opCount')
  BY FitsForget DEF Stored
<1> QED
  BY <1>1, ScheduleLater DEF Stored

LEMMA UnchangedLater ==
  ASSUME ScheduleInv, desc' = desc, UNCHANGED <<ops, opCount, systems>>,
         dirty' \/ UNCHANGED <<dirty, enabled, active>>
  PROVE  ScheduleInv'
  BY ScheduleLater DEF ScheduleInv

\* The schedule is updated for the systems m, of which a are active, and the
\* run goes on from at.
Updates(m, a, at) ==
  /\ UpdateSchedule(m, a, at) \/ KeepSchedule(m, a, at)
  /\ enabled' = m /\ active' = a /\ desc' = desc

\* What both branches leave.
LEMMA UpdatesIs ==
  ASSUME TypeInv, ScheduleInv, NEW m \in SUBSET Systems, NEW a \in SUBSET Systems, NEW at,
         Updates(m, a, at)
  PROVE  \/ /\ dirty \/ m # enabled \/ a # active
            /\ Stored(m, a, Schedule(m, a)) /\ ScheduleInv'
            /\ MoveTo(NextSystem(Resume(Schedule(m, a), at)))
         \/ /\ ~ dirty /\ m = enabled /\ a = active /\ UNCHANGED <<dirty, ops, opCount, systems>>
            /\ ScheduleInv' /\ MoveTo(NextSystem(at))
<1>1. desc' = desc /\ enabled' = m /\ active' = a
  BY DEF Updates
<1>2. CASE UpdateSchedule(m, a, at)
  <2>1. /\ dirty \/ m # enabled \/ a # active
        /\ StoreSchedule(Schedule(m, a)) /\ MoveTo(NextSystem(Resume(Schedule(m, a), at)))
    BY <1>2 DEF UpdateSchedule
  <2>2. Stored(m, a, Schedule(m, a))
    BY <2>1, StoreIs DEF TypeInv
  <2>3. ScheduleInv'
    BY <1>1, <2>2, StoredLater
  <2> QED
    BY <2>1, <2>2, <2>3
<1>3. CASE KeepSchedule(m, a, at)
  <2>1. /\ ~ dirty /\ m = enabled /\ a = active /\ UNCHANGED <<dirty, ops, opCount, systems>>
        /\ MoveTo(NextSystem(at))
    BY <1>3 DEF KeepSchedule, schedule
  <2>2. ScheduleInv'
    BY <1>1, <2>1, UnchangedLater
  <2> QED
    BY <2>1, <2>2
<1> QED
  BY <1>2, <1>3 DEF Updates

LEMMA UpdatesTypes ==
  ASSUME TypeInv, ScheduleInv, NEW m \in SUBSET Systems, NEW a \in SUBSET Systems, NEW at,
         Updates(m, a, at), at.cur \in 0..Len(ops), at.pos \in Nat
  PROVE  /\ ScheduleInv'
         /\ Described' /\ enabled' \in SUBSET Systems /\ active' \in SUBSET Systems
         /\ dirty' \in BOOLEAN /\ ops' \in Seq(OpType) /\ opCount' \in 0..Len(ops')
         /\ systems' \in Seq(Systems) /\ cur' \in 0..Len(ops') /\ pos' \in Nat
<1> DEFINE sch == Schedule(m, a)
<1>1. Described' /\ enabled' \in SUBSET Systems /\ active' \in SUBSET Systems
  BY DEF Updates, Described, TypeInv
<1>2. CASE Stored(m, a, sch) /\ ScheduleInv' /\ MoveTo(NextSystem(Resume(sch, at)))
  <2>1. /\ ops' \in Seq(OpType) /\ opCount' \in 0..Len(ops') /\ systems' \in Seq(Systems)
        /\ Len(ops) <= Len(ops') /\ dirty' \in BOOLEAN
    BY <1>2 DEF Stored
  <2>2. Len(ops') \in Nat /\ Len(ops) \in Nat
    BY <2>1, SeqIs DEF TypeInv
  <2> HIDE DEF sch
  <2>3. CASE ResumeAt(sch) = {}
    <3>1. Resume(sch, at) = at /\ at.cur \in 0..Len(ops')
      BY <2>1, <2>2, <2>3 DEF Resume
    <3>2. NextSystem(at).cur \in 0..Len(ops') /\ NextSystem(at).pos \in Nat
      BY <2>1, <3>1, NextTypes
    <3> QED
      BY <1>1, <1>2, <2>1, <3>1, <3>2 DEF MoveTo
  <2>4. CASE ResumeAt(sch) # {}
    <3>1. PICK i \in ResumeAt(sch) : LandsAfter(i, NextSystem(Resume(sch, at)))
      BY <1>2, <2>4, ResumeIs
    <3>2. i + 1 \in Nat
      <4>1. sch.systems = systems' /\ Len(systems') \in Nat
        BY <1>2, <2>1, SeqIs DEF Stored
      <4>2. i \in 0..Len(systems') - 1
        BY <4>1 DEF ResumeAt
      <4> QED
        BY <4>1, <4>2
    <3>3. cur' \in 0..Len(ops') /\ pos' \in Nat
      BY <1>2, <2>1, <2>2, <3>1, <3>2 DEF LandsAfter, MoveTo
    <3> QED
      BY <1>1, <1>2, <2>1, <3>3
  <2> QED
    BY <2>3, <2>4
<1>3. CASE UNCHANGED <<dirty, ops, opCount, systems>> /\ ScheduleInv' /\ MoveTo(NextSystem(at))
  <2>1. /\ ops' \in Seq(OpType) /\ opCount' \in 0..Len(ops') /\ systems' \in Seq(Systems)
        /\ dirty' \in BOOLEAN /\ at.cur \in 0..Len(ops')
    BY <1>3 DEF TypeInv
  <2>2. NextSystem(at).cur \in 0..Len(ops') /\ NextSystem(at).pos \in Nat
    BY <2>1, NextTypes
  <2> QED
    BY <1>1, <1>3, <2>1, <2>2 DEF MoveTo
<1> HIDE DEF sch
<1> QED
  BY <1>2, <1>3, UpdatesIs DEF sch

LEMMA PastTheEndUpdates ==
  ASSUME PastTheEnd
  PROVE  /\ Updates(enabled, active, [cur |-> cur, pos |-> pos])
         /\ main = "loop" /\ cur # 0 /\ pos = Len(systems)
         /\ UNCHANGED <<desc, enabled, active, current, main, next, progress, staged, ran, due>>
  BY DEF PastTheEnd, Updates, world

LEMMA MergeUpdates ==
  ASSUME NEW flip, NEW woken, Merge(flip, woken)
  PROVE  /\ Updates(Flipped(enabled, flip), active \cup woken, [cur |-> cur, pos |-> next])
         /\ main = "merge" /\ main' = "loop" /\ staged' = {}
         /\ Anchored /\ flip \cup woken # {} => \E k \in DOMAIN ran : ran[k] \in Flipped(enabled, flip)
         /\ due' = (due \cap enabled') \cup
                   {s \in (enabled' \cap active') \ (enabled \cap active) :
                      \A k \in DOMAIN ran : ran[k] < s}
         /\ UNCHANGED <<desc, current, next, progress, ran>>
  BY DEF Merge, Updates

LEMMA RunStepCases ==
  ASSUME RunStep
  PROVE  \/ PastTheEnd \/ BeginOp \/ RunSystem \/ EndRun
         \/ \E flip \in SUBSET Systems, woken \in SUBSET Systems : Merge(flip, woken)
<1>1. Changeable \subseteq SUBSET Systems
  BY DEF Changeable
<1>2. ASSUME NEW flip \in Changeable, NEW woken \in Changeable, Merge(flip, woken \ active)
      PROVE  \E f \in SUBSET Systems, w \in SUBSET Systems : Merge(f, w)
  <2>1. flip \in SUBSET Systems /\ woken \ active \in SUBSET Systems
    BY <1>1
  <2> QED
    BY <1>2, <2>1
<1> QED
  BY <1>2 DEF RunStep

LEMMA StartRunTypes ==
  ASSUME TypeInv, ScheduleInv, NEW b, StartRun(b)
  PROVE  TypeInv' /\ ScheduleInv'
<1>1. /\ main' = "loop" /\ cur' = (IF ops' = <<>> THEN 0 ELSE 1) /\ pos' = 0
      /\ UNCHANGED <<desc, enabled, active, next, ran>>
  BY DEF StartRun, world
<1>2. /\ ScheduleInv' /\ ops' \in Seq(OpType) /\ opCount' \in 0..Len(ops') /\ systems' \in Seq(Systems)
      /\ dirty' \in BOOLEAN
  <2>1. CASE dirty
    <3>1. Stored(enabled, active, Schedule(enabled, active))
      BY <2>1, StoreIs DEF StartRun, TypeInv
    <3>2. ScheduleInv'
      BY <1>1, <3>1, StoredLater
    <3> QED
      BY <3>1, <3>2 DEF Stored
  <2>2. CASE ~ dirty
    BY <1>1, <2>2, UnchangedLater DEF StartRun, schedule, TypeInv
  <2> QED
    BY <2>1, <2>2
<1>3. cur' \in 0..Len(ops')
  <2>1. Len(ops') \in Nat /\ (ops' # <<>> => Len(ops') # 0)
    BY <1>2, SeqIs, EmptySeq
  <2> QED
    BY <1>1, <2>1
<1> QED
  BY <1>1, <1>2, <1>3 DEF TypeInv, Described

LEMMA BeginOpTypes ==
  ASSUME TypeInv, ScheduleInv, BeginOp
  PROVE  TypeInv' /\ ScheduleInv'
<1>1. UNCHANGED <<desc, enabled, active, dirty, ops, opCount, systems, cur, pos, ran>>
  BY DEF BeginOp, world, schedule
<1>2. ScheduleInv'
  BY <1>1, UnchangedLater
<1>3. /\ next' \in Nat /\ main' \in {"idle", "loop", "ops", "merge"}
      /\ main' = "ops" => next' < Len(systems)
  BY DEF BeginOp, TypeInv
<1> QED
  BY <1>1, <1>2, <1>3 DEF TypeInv, Described

LEMMA RunSystemTypes ==
  ASSUME TypeInv, ScheduleInv, RunSystem
  PROVE  TypeInv' /\ ScheduleInv'
<1>1. UNCHANGED <<desc, enabled, active, dirty, ops, opCount, systems, cur, pos>>
  BY DEF RunSystem, world, schedule
<1>2. ScheduleInv'
  BY <1>1, UnchangedLater
<1>3. next \in Nat /\ next < Len(systems) /\ Len(systems) \in Nat /\ DOMAIN systems = 1..Len(systems)
  BY SeqIs DEF RunSystem, TypeInv
<1>4. ran' \in Seq(Systems)
  <2>1. systems[next + 1] \in Systems
    BY <1>3, SeqIs DEF TypeInv
  <2> QED
    BY <2>1, AppendProperties DEF RunSystem, TypeInv
<1>5. /\ next' \in Nat /\ main' \in {"idle", "loop", "ops", "merge"}
      /\ main' = "ops" => next' < Len(systems)
  <2>1. \/ main' = "merge" /\ next' = next
        \/ next' = next + 1 /\ main' = (IF next' = Len(systems) THEN "merge" ELSE "ops")
    BY DEF RunSystem
  <2>2. CASE main' = "merge" /\ next' = next
    BY <1>3, <2>2
  <2>3. CASE next' = next + 1 /\ main' = (IF next' = Len(systems) THEN "merge" ELSE "ops")
    <3> DEFINE l == Len(systems)
               n == next
    <3>1. n \in Nat /\ l \in Nat /\ n < l
      BY <1>3
    <3> HIDE DEF l, n
    <3>2. n + 1 \in Nat /\ (n + 1 # l => n + 1 < l)
      BY <3>1
    <3> QED
      BY <2>3, <3>2 DEF l, n
  <2> QED
    BY <2>1, <2>2, <2>3
<1> QED
  BY <1>1, <1>2, <1>4, <1>5 DEF TypeInv, Described

LEMMA PastTheEndTypes ==
  ASSUME TypeInv, ScheduleInv, PastTheEnd
  PROVE  TypeInv' /\ ScheduleInv'
<1> DEFINE at == [cur |-> cur, pos |-> pos]
<1>1. Updates(enabled, active, at) /\ main = "loop" /\ UNCHANGED <<main, next, ran>>
  BY PastTheEndUpdates
<1>2. at.cur \in 0..Len(ops) /\ at.pos \in Nat /\ enabled \in SUBSET Systems /\ active \in SUBSET Systems
  BY DEF TypeInv
<1> HIDE DEF at
<1>3. /\ ScheduleInv'
      /\ Described' /\ enabled' \in SUBSET Systems /\ active' \in SUBSET Systems
      /\ dirty' \in BOOLEAN /\ ops' \in Seq(OpType) /\ opCount' \in 0..Len(ops')
      /\ systems' \in Seq(Systems) /\ cur' \in 0..Len(ops') /\ pos' \in Nat
  BY <1>1, <1>2, UpdatesTypes
<1> QED
  BY <1>1, <1>3 DEF TypeInv

LEMMA MergeTypes ==
  ASSUME TypeInv, ScheduleInv, NEW flip \in SUBSET Systems, NEW woken \in SUBSET Systems,
         Merge(flip, woken)
  PROVE  TypeInv' /\ ScheduleInv'
<1> DEFINE at == [cur |-> cur, pos |-> next]
           m == Flipped(enabled, flip)
           a == active \cup woken
<1>1. Updates(m, a, at) /\ main' = "loop" /\ UNCHANGED <<next, ran>>
  BY MergeUpdates
<1>2. at.cur \in 0..Len(ops) /\ at.pos \in Nat /\ m \in SUBSET Systems /\ a \in SUBSET Systems
  BY DEF TypeInv, Flipped
<1> HIDE DEF at, m, a
<1>3. /\ ScheduleInv'
      /\ Described' /\ enabled' \in SUBSET Systems /\ active' \in SUBSET Systems
      /\ dirty' \in BOOLEAN /\ ops' \in Seq(OpType) /\ opCount' \in 0..Len(ops')
      /\ systems' \in Seq(Systems) /\ cur' \in 0..Len(ops') /\ pos' \in Nat
  BY <1>1, <1>2, UpdatesTypes
<1> QED
  BY <1>1, <1>3 DEF TypeInv

LEMMA EndRunTypes ==
  ASSUME TypeInv, ScheduleInv, EndRun
  PROVE  TypeInv' /\ ScheduleInv'
<1>1. /\ UNCHANGED <<desc, enabled, active, dirty, ops, opCount, systems, cur, pos>>
      /\ main' = "idle" /\ next' = 0 /\ ran' = <<>>
  BY DEF EndRun, world, schedule
<1>2. ScheduleInv'
  BY <1>1, UnchangedLater
<1> QED
  BY <1>1, <1>2 DEF TypeInv, Described

LEMMA ChangeTypes ==
  ASSUME TypeInv, ScheduleInv, NEW s \in Systems, Change(s)
  PROVE  TypeInv' /\ ScheduleInv'
<1>1. /\ UNCHANGED <<desc, ops, opCount, systems, cur, pos, main, next, ran>>
      /\ dirty' = TRUE /\ main = "idle"
      /\ enabled' \in {enabled, Flipped(enabled, {s})} /\ active' \in {active, Flipped(active, {s})}
  BY DEF Change
<1>2. ScheduleInv'
  BY <1>1, UnchangedLater
<1>3. enabled' \in SUBSET Systems /\ active' \in SUBSET Systems
  BY <1>1 DEF TypeInv, Flipped
<1> QED
  BY <1>1, <1>2, <1>3 DEF TypeInv, Described

LEMMA InitTypes ==
  ASSUME Init
  PROVE  TypeInv /\ ScheduleInv
<1>1. <<>> \in Seq(OpType) /\ <<>> \in Seq(Systems) /\ Len(<<>>) = 0
  OBVIOUS
<1>2. Fits({}, <<>>, <<>>, 0)
  BY DEF Fits, Parts
<1> QED
  BY <1>1, <1>2 DEF Init, TypeInv, ScheduleInv, Described

LEMMA StepTypes ==
  ASSUME TypeInv, ScheduleInv, [Next]_vars
  PROVE  TypeInv' /\ ScheduleInv'
<1>1. CASE RunStep
  BY <1>1, RunStepCases, PastTheEndTypes, BeginOpTypes, RunSystemTypes, EndRunTypes, MergeTypes
<1>2. ASSUME NEW b \in Calls, StartRun(b) PROVE TypeInv' /\ ScheduleInv'
  BY <1>2, StartRunTypes
<1>3. ASSUME NEW s \in Systems, Change(s) PROVE TypeInv' /\ ScheduleInv'
  BY <1>3, ChangeTypes
<1>4. CASE UNCHANGED vars
  <2>1. UNCHANGED <<desc, enabled, active, dirty, ops, opCount, systems, cur, pos, main, next, ran>>
    BY <1>4 DEF vars, world, schedule
  <2>2. ScheduleInv'
    BY <2>1, UnchangedLater
  <2> QED
    BY <2>1, <2>2 DEF TypeInv, Described
<1> QED
  BY <1>1, <1>2, <1>3, <1>4 DEF Next

LEMMA Typing == Spec => [](TypeInv /\ ScheduleInv)
<1>1. Init => TypeInv /\ ScheduleInv
  BY InitTypes
<1>2. TypeInv /\ ScheduleInv /\ [Next]_vars => TypeInv' /\ ScheduleInv'
  BY StepTypes
<1> QED
  BY <1>1, <1>2, PTL DEF Spec

\* The operations of the schedule are a partition of the enabled and active
\* systems in the order of the pipeline, and the systems of an operation agree
\* on the flags by which it is run.
THEOREM OpsUniformHolds == Spec => []OpsUniform
<1>1. TypeInv /\ ScheduleInv => OpsUniform
  <2> SUFFICES ASSUME TypeInv, ScheduleInv PROVE OpsUniform
    OBVIOUS
  <2>1. /\ Fits({}, systems, ops, opCount) /\ Parts(systems, ops, opCount)
        /\ ~ dirty => systems = InOrder(enabled \cap active)
    BY DEF ScheduleInv, Fits
  <2>2. /\ opCount \in Nat /\ ops \in Seq(OpType) /\ systems \in Seq(Systems)
        /\ \A k \in 1..opCount : k \in DOMAIN ops
        /\ Len(systems) \in Nat /\ DOMAIN systems = 1..Len(systems)
    <3>1. ops \in Seq(OpType) /\ systems \in Seq(Systems) /\ opCount \in 0..Len(ops)
      BY DEF TypeInv
    <3> QED
      BY <3>1, SeqIs
  <2>3. ASSUME NEW k \in 1..opCount
        PROVE  /\ ops[k].offset \in Nat /\ ops[k].count \in Nat
               /\ ops[k].offset + ops[k].count <= Len(systems)
    <3>1. ops[k] \in OpType
      BY <2>2, SeqIs
    <3> QED
      BY <2>1, <3>1 DEF OpType, Parts
  <2>4. ASSUME NEW k \in 1..opCount
        PROVE  /\ k > 1 => ops[k].offset = ops[k - 1].offset + ops[k - 1].count /\ ops[k].count > 0
               /\ \A i \in ops[k].offset + 1..ops[k].offset + ops[k].count :
                    desc[systems[i]].mt = ops[k].mt /\ desc[systems[i]].imm = ops[k].imm
               /\ ops[k].imm => ops[k].count <= 1
    <3>1. k > 1 => k \in 2..opCount
      BY <2>2
    <3>2. \A i \in ops[k].offset + 1..ops[k].offset + ops[k].count : i \in DOMAIN systems /\ Has(ops[k], i)
      BY <2>2, <2>3 DEF Has
    <3>3. Agree(systems, ops[k])
      BY <2>1 DEF Fits, Neat
    <3> QED
      BY <2>1, <3>1, <3>2, <3>3 DEF Fits, Parts, Agree
  <2> QED
    BY <2>1, <2>4 DEF OpsUniform, Parts
<1> QED
  BY <1>1, Typing, PTL

-----------------------------------------------------------------------------
(* The place of the main thread.                                           *)

\* The operations of sys, without what is known of their systems.
Divided(sys, o, n) ==
  /\ sys \in Seq(Systems) /\ o \in Seq(OpType) /\ n \in 0..Len(o)
  /\ Parts(sys, o, n)
  /\ \A k \in 1..n : k > 1 \/ sys # <<>> => o[k].count > 0

LEMMA DividedNow ==
  ASSUME TypeInv, ScheduleInv
  PROVE  Divided(systems, ops, opCount)
  BY DEF TypeInv, ScheduleInv, Fits, Divided

LEMMA DividedNext ==
  ASSUME TypeInv', ScheduleInv'
  PROVE  Divided(systems', ops', opCount')
  BY DEF TypeInv, ScheduleInv, Fits, Divided

LEMMA DividedIs ==
  ASSUME NEW sys, NEW o, NEW n, Divided(sys, o, n)
  PROVE  /\ Len(sys) \in Nat /\ DOMAIN sys = 1..Len(sys) /\ n \in Nat
         /\ \A i \in DOMAIN sys : sys[i] \in Systems
         /\ sys # <<>> => Len(sys) # 0 /\ 1 \in 1..n /\ o[1].offset = 0
         /\ \A k \in 1..n :
              /\ o[k].offset \in Nat /\ o[k].count \in Nat /\ o[k].offset + o[k].count <= Len(sys)
              /\ sys # <<>> => o[k].count > 0
              /\ k = n => o[k].offset + o[k].count = Len(sys)
              /\ k # n => k + 1 \in 1..n /\ o[k + 1].offset = o[k].offset + o[k].count
<1>1. /\ Len(sys) \in Nat /\ DOMAIN sys = 1..Len(sys) /\ (\A i \in DOMAIN sys : sys[i] \in Systems)
      /\ Len(o) \in Nat /\ \A k \in 1..Len(o) : o[k] \in OpType
  BY SeqIs DEF Divided
<1>2. n \in Nat /\ \A k \in 1..n : k \in 1..Len(o)
  BY <1>1 DEF Divided
<1>3. sys # <<>> => Len(sys) # 0 /\ n > 0 /\ 1 \in 1..n
  BY <1>2, EmptySeq DEF Divided, Parts
<1>4. ASSUME NEW k \in 1..n
      PROVE  /\ o[k].offset \in Nat /\ o[k].count \in Nat /\ o[k].offset + o[k].count <= Len(sys)
             /\ sys # <<>> => o[k].count > 0
             /\ k = n => o[k].offset + o[k].count = Len(sys)
             /\ k # n => k + 1 \in 1..n /\ o[k + 1].offset = o[k].offset + o[k].count
  <2>1. o[k].offset \in Nat /\ o[k].count \in Nat
    BY <1>1, <1>2 DEF OpType
  <2>2. Parts(sys, o, n) /\ n > 0
    BY <1>2 DEF Divided
  <2>3. o[k].offset + o[k].count <= Len(sys) /\ (k = n => o[k].offset + o[k].count = Len(sys))
    BY <2>2 DEF Parts
  <2>4. ASSUME k # n PROVE k + 1 \in 1..n /\ o[k + 1].offset = o[k].offset + o[k].count
    <3>1. k + 1 \in 2..n /\ k + 1 \in 1..n /\ k + 1 - 1 = k
      BY <1>2, <2>4
    <3> QED
      BY <2>2, <3>1 DEF Parts
  <2> QED
    BY <2>1, <2>3, <2>4 DEF Divided
<1> QED
  BY <1>1, <1>2, <1>3, <1>4 DEF Divided, Parts

LEMMA RanIs ==
  ASSUME TypeInv
  PROVE  Ran \in SUBSET Systems /\ (ran = <<>> => Ran = {})
<1>1. \A k \in DOMAIN ran : ran[k] \in Systems
  BY SeqIs DEF TypeInv
<1> QED
  BY <1>1 DEF Ran

LEMMA AppendRan ==
  ASSUME TypeInv, NEW s, ran' = Append(ran, s)
  PROVE  Ran' = Ran \cup {s} /\ ran' # <<>> /\ Last(ran') = s
<1> DEFINE n == Len(ran)
<1>1. ran \in Seq(Systems) /\ n \in Nat /\ DOMAIN ran = 1..n
  BY SeqIs DEF TypeInv
<1>2. ran \in Seq(Systems \cup {s}) /\ s \in Systems \cup {s}
  BY <1>1
<1>3. /\ ran' \in Seq(Systems \cup {s}) /\ Len(ran') = n + 1 /\ ran'[n + 1] = s
      /\ \A k \in 1..n : ran'[k] = ran[k]
  BY <1>1, <1>2, AppendProperties
<1>4. DOMAIN ran' = 1..n + 1
  BY <1>3, SeqIs
<1> HIDE DEF n
<1>5. /\ \A k \in DOMAIN ran' : k \in DOMAIN ran \/ k = n + 1
      /\ \A k \in DOMAIN ran : k \in DOMAIN ran' /\ ran'[k] = ran[k]
      /\ n + 1 \in DOMAIN ran' /\ n + 1 # 0
  BY <1>1, <1>3, <1>4
<1>6. Ran' = Ran \cup {s}
  BY <1>3, <1>5 DEF Ran
<1>7. ran' # <<>>
  BY <1>3, <1>5, EmptySeq
<1> QED
  BY <1>3, <1>6, <1>7 DEF Last

\* The systems of a schedule that is not dirty.
LEMMA InSchedule ==
  ASSUME TypeInv, ScheduleInv, ~ dirty
  PROVE  Sorted(systems, enabled \cap active)
<1>1. enabled \cap active \in SUBSET Systems
  BY DEF TypeInv
<1> QED
  BY <1>1, InOrderIs DEF ScheduleInv

LEMMA InScheduleNext ==
  ASSUME TypeInv', ScheduleInv', ~ dirty'
  PROVE  Sorted(systems', enabled' \cap active')
<1>1. enabled' \cap active' \in SUBSET Systems
  BY DEF TypeInv
<1> QED
  BY <1>1, InOrderIs DEF ScheduleInv

LEMMA NothingScheduled ==
  ASSUME NEW S, Sorted(<<>>, S)
  PROVE  S = {}
  BY DEF Sorted

LEMMA StartRunPlace ==
  ASSUME TypeInv, ScheduleInv, PlaceInv, NEW b, StartRun(b), TypeInv', ScheduleInv'
  PROVE  PlaceInv'
<1>1. /\ main = "idle" /\ main' = "loop" /\ cur' = (IF ops' = <<>> THEN 0 ELSE 1) /\ pos' = 0
      /\ UNCHANGED <<active, current, staged, ran>>
  BY DEF StartRun, world
<1>2. ran' = <<>> /\ staged' = {} /\ Ran' = {}
  BY <1>1 DEF PlaceInv, Ran
<1>3. ASSUME cur' # 0 PROVE ~ dirty' /\ (systems' # <<>> => Placed')
  <2>1. ops' # <<>> /\ cur' = 1
    BY <1>1, <1>3
  <2>2. ~ dirty'
    BY <2>1 DEF StartRun, StoreSchedule, schedule
  <2>3. ASSUME systems' # <<>> PROVE Placed'
    <3>1. 1 \in 1..opCount' /\ ops'[1].offset = 0 /\ ops'[1].count \in Nat /\ ops'[1].count > 0
      BY <2>3, DividedNext, DividedIs
    <3>2. 0 < ops'[1].offset + ops'[1].count /\ ops'[1].offset <= 0
      BY <3>1
    <3> QED
      BY <1>1, <2>1, <3>1, <3>2 DEF Placed
  <2> QED
    BY <2>2, <2>3
<1> QED
  BY <1>1, <1>2, <1>3 DEF PlaceInv

LEMMA PastTheEndPlace ==
  ASSUME TypeInv, ScheduleInv, PlaceInv, PastTheEnd
  PROVE  /\ ~ dirty /\ systems = <<>> /\ main = "loop" /\ PlaceInv' /\ enabled \cap active = {}
         /\ UNCHANGED <<desc, enabled, active, dirty, ops, opCount, systems, current, main, next,
                        progress, staged, ran, due>>
<1> DEFINE at == [cur |-> cur, pos |-> pos]
<1>1. /\ Updates(enabled, active, at)
      /\ main = "loop" /\ cur # 0 /\ pos = Len(systems)
      /\ UNCHANGED <<desc, enabled, active, current, main, next, progress, staged, ran, due>>
  BY PastTheEndUpdates
<1>2. ~ dirty
  BY <1>1 DEF PlaceInv
<1>3. systems = <<>>
  <2> SUFFICES ASSUME systems # <<>> PROVE FALSE
    OBVIOUS
  <2>1. cur \in 1..opCount /\ pos < ops[cur].offset + ops[cur].count
    BY <1>1 DEF PlaceInv, Placed
  <2>2. /\ ops[cur].offset \in Nat /\ ops[cur].count \in Nat
        /\ ops[cur].offset + ops[cur].count <= Len(systems) /\ Len(systems) \in Nat
    BY <2>1, DividedNow, DividedIs
  <2> QED
    BY <1>1, <2>1, <2>2
<1>4. enabled \in SUBSET Systems /\ active \in SUBSET Systems
  BY DEF TypeInv
<1> HIDE DEF at
<1>5. UNCHANGED <<dirty, ops, opCount, systems>>
  BY <1>1, <1>2, <1>4, UpdatesIs
<1>6. ran = <<>> /\ staged = {}
  BY <1>1, <1>3 DEF PlaceInv
<1>7. PlaceInv'
  BY <1>1, <1>2, <1>3, <1>5, <1>6 DEF PlaceInv, Ran
<1>8. enabled \cap active = {}
  BY <1>2, <1>3, InSchedule, NothingScheduled
<1> QED
  BY <1>1, <1>2, <1>3, <1>5, <1>7, <1>8

LEMMA BeginOpPlace ==
  ASSUME TypeInv, ScheduleInv, PlaceInv, BeginOp
  PROVE  PlaceInv' /\ (systems # <<>> => main' = "ops" /\ pos \in Nat /\ pos < Len(systems))
<1>1. /\ main = "loop" /\ cur # 0 /\ pos # Len(systems) /\ next' = pos
      /\ main' = (IF pos < Len(systems) THEN "ops" ELSE "merge")
      /\ UNCHANGED <<active, dirty, ops, opCount, systems, cur, pos, current, staged, ran>>
      /\ UNCHANGED desc
  BY DEF BeginOp, world, schedule
<1>2. ~ dirty /\ staged = {} /\ pos \in Nat /\ Len(systems) \in Nat
  BY <1>1, DividedNow, DividedIs DEF PlaceInv, TypeInv
<1>3. CASE systems = <<>>
  <2>1. main' = "merge" /\ ran = <<>>
    <3>1. Len(systems) = 0
      BY <1>3
    <3>2. ~ (pos < Len(systems))
      BY <1>2, <3>1
    <3> QED
      BY <1>1, <1>3, <3>2 DEF PlaceInv
  <2> QED
    BY <1>1, <1>2, <1>3, <2>1 DEF PlaceInv, Ran
<1>4. CASE systems # <<>>
  <2>1. cur \in 1..opCount /\ ops[cur].offset <= pos /\ pos < ops[cur].offset + ops[cur].count
    BY <1>1, <1>4 DEF PlaceInv, Placed
  <2>2. /\ ops[cur].offset \in Nat /\ ops[cur].count \in Nat
        /\ ops[cur].offset + ops[cur].count <= Len(systems)
    BY <2>1, DividedNow, DividedIs
  <2>3. pos < Len(systems) /\ main' = "ops"
    BY <1>1, <1>2, <2>1, <2>2
  <2>4. Placed'
    BY <1>1, <1>2, <2>1, <2>3 DEF Placed
  <2> QED
    BY <1>1, <1>2, <1>4, <2>3, <2>4 DEF PlaceInv, Ran
<1> QED
  BY <1>3, <1>4

LEMMA RunSystemPlace ==
  ASSUME TypeInv, ScheduleInv, PlaceInv, RunSystem
  PROVE  /\ PlaceInv'
         /\ ~ dirty /\ systems # <<>> /\ next + 1 \in DOMAIN systems /\ main = "ops" /\ cur # 0
         /\ systems[next + 1] \in enabled \cap active
         /\ ran' = Append(ran, systems[next + 1]) /\ current' = current \cup {systems[next + 1]}
         /\ Ran' = Ran \cup {systems[next + 1]} /\ Place' = Place + 1 /\ Place = next
<1> DEFINE s == systems[next + 1]
<1>1. /\ main = "ops" /\ current' = current \cup {s} /\ staged' = staged \cup Writes(s)
      /\ ran' = Append(ran, s)
      /\ UNCHANGED <<desc, enabled, active, dirty, ops, opCount, systems, cur, pos>>
  BY DEF RunSystem, world, schedule
<1>2. ~ dirty /\ systems # <<>> /\ Placed /\ cur # 0 /\ next \in Nat /\ pos \in Nat
  BY <1>1 DEF PlaceInv, TypeInv
<1>3. /\ cur \in 1..opCount /\ ops[cur].offset <= pos /\ pos < ops[cur].offset + ops[cur].count /\ pos <= next
      /\ next < ops[cur].offset + ops[cur].count
      /\ \A w \in staged : \E i \in pos + 1..next : w \in Writes(systems[i])
  BY <1>1, <1>2 DEF Placed
<1>4. /\ ops[cur].offset \in Nat /\ ops[cur].count \in Nat /\ ops[cur].offset + ops[cur].count <= Len(systems)
      /\ Len(systems) \in Nat /\ DOMAIN systems = 1..Len(systems)
  BY <1>3, DividedNow, DividedIs
<1>5. next + 1 \in DOMAIN systems
  BY <1>2, <1>3, <1>4
<1>6. s \in enabled \cap active
  BY <1>2, <1>5, InSchedule DEF Sorted
<1> HIDE DEF s
<1>7. Ran' = Ran \cup {s}
  BY <1>1, AppendRan
<1>8. Ran' \subseteq active' \cap current'
  BY <1>1, <1>6, <1>7 DEF PlaceInv
<1>9. \/ main' = "merge" /\ next' = next /\ next + 1 = ops[cur].offset + ops[cur].count
      \/ main' = "ops" /\ next' = next + 1 /\ next + 1 < ops[cur].offset + ops[cur].count
  <2> DEFINE o == ops[cur].offset
             c == ops[cur].count
             l == Len(systems)
  <2>1. o \in Nat /\ c \in Nat /\ l \in Nat /\ o + c <= l /\ next \in Nat /\ next < o + c
    BY <1>2, <1>3, <1>4
  <2>2. IF next + 1 - o = c THEN main' = "merge" /\ next' = next
        ELSE next' = next + 1 /\ main' = IF next' = l THEN "merge" ELSE main
    BY DEF RunSystem
  <2> HIDE DEF o, c, l
  <2>3. next + 1 - o = c <=> next + 1 = o + c
    BY <2>1
  <2>4. next + 1 # o + c => next + 1 < o + c /\ next + 1 # l
    BY <2>1
  <2> QED
    BY <1>1, <2>2, <2>3, <2>4 DEF o, c
<1>10. Placed'
  <2>1. pos <= next' /\ next' \in Nat
    BY <1>2, <1>3, <1>9
  <2>2. ASSUME main' = "ops", NEW w \in staged' PROVE \E i \in pos + 1..next' : w \in Writes(systems[i])
    <3>1. next' = next + 1
      BY <1>9, <2>2
    <3>2. CASE w \in staged
      <4>1. PICK i \in pos + 1..next : w \in Writes(systems[i])
        BY <1>3, <3>2
      <4>2. i \in pos + 1..next'
        BY <1>2, <3>1, <4>1
      <4> QED
        BY <4>1, <4>2
    <3>3. CASE w \in Writes(s)
      <4>1. next + 1 \in pos + 1..next'
        BY <1>2, <1>3, <3>1
      <4> QED
        BY <3>3, <4>1 DEF s
    <3> QED
      BY <1>1, <2>2, <3>2, <3>3
  <2>3. \A i : Writes(systems[i])' = Writes(systems[i])
    BY <1>1 DEF Writes
  <2>4. main' = "ops" => \A w \in staged' : \E i \in pos + 1..next' : w \in Writes(systems[i])'
    BY <2>2, <2>3
  <2> QED
    BY <1>1, <1>3, <1>9, <2>1, <2>4 DEF Placed
<1>11. ran' # <<>>
  BY <1>1, AppendRan
<1>12. Place = next /\ Place' = Place + 1
  BY <1>1, <1>2, <1>9 DEF Place
<1>13. PlaceInv'
  BY <1>1, <1>2, <1>8, <1>9, <1>10, <1>11 DEF PlaceInv
<1> QED
  BY <1>1, <1>2, <1>5, <1>6, <1>7, <1>12, <1>13 DEF s

\* A merge after which the run goes on with the same schedule,
Kept ==
  /\ ~ dirty /\ UNCHANGED <<dirty, ops, opCount, systems, enabled, active>>
  /\ MoveTo(NextSystem([cur |-> cur, pos |-> next]))

\* or with a new one, after the last of its systems that has run.
Rebuilt ==
  /\ ~ dirty'
  /\ \E i \in 0..Len(systems') - 1 :
       /\ systems'[i + 1] \in current
       /\ \A j \in i + 1..Len(systems') - 1 : systems'[j + 1] \notin current
       /\ LandsAfter(i, [cur |-> cur', pos |-> pos'])

LEMMA MergeCases ==
  ASSUME Anchored, TypeInv, ScheduleInv, PlaceInv,
         NEW flip \in SUBSET Systems, NEW woken \in SUBSET Systems, Merge(flip, woken)
  PROVE  Kept \/ Rebuilt
<1> DEFINE m == Flipped(enabled, flip)
           a == active \cup woken
           at == [cur |-> cur, pos |-> next]
           sch == Schedule(m, a)
           r == NextSystem(Resume(sch, at))
<1>1. /\ Updates(m, a, at) /\ main = "merge" /\ enabled' = m /\ active' = a
      /\ flip \cup woken # {} => \E k \in DOMAIN ran : ran[k] \in m
  BY MergeUpdates DEF Updates
<1>2. ~ dirty
  BY <1>1 DEF PlaceInv
<1>3. m \in SUBSET Systems /\ a \in SUBSET Systems
  BY DEF TypeInv, Flipped
<1>4. flip \cup woken = {} => m = enabled /\ a = active
  BY DEF Flipped
<1> HIDE DEF m, a, at
<1>5. \/ m # enabled
      \/ a # active
      \/ /\ m = enabled /\ a = active /\ UNCHANGED <<dirty, ops, opCount, systems>>
         /\ MoveTo(NextSystem(at))
  BY <1>1, <1>2, <1>3, UpdatesIs
<1>6. CASE /\ m = enabled /\ a = active /\ UNCHANGED <<dirty, ops, opCount, systems>>
           /\ MoveTo(NextSystem(at))
  BY <1>1, <1>2, <1>6 DEF Kept, at
<1>7. CASE m # enabled \/ a # active
  <2>1. Stored(m, a, sch) /\ MoveTo(r)
    BY <1>1, <1>3, <1>7, UpdatesIs
  <2> HIDE DEF sch
  <2>2. PICK k \in DOMAIN ran : ran[k] \in m
    BY <1>1, <1>4, <1>7
  <2>3. ran[k] \in current /\ ran[k] \in a
    BY <2>2 DEF PlaceInv, Ran, a
  <2>4. /\ sch.systems = systems' /\ systems' \in Seq(Systems) /\ Sorted(systems', m \cap a)
        /\ dirty' = (ops' = <<>>)
    <3>1. m \cap a \in SUBSET Systems
      BY <1>3
    <3> QED
      BY <2>1, <3>1, InOrderIs DEF Stored
  <2>5. PICK j \in DOMAIN systems' : systems'[j] = ran[k]
    BY <2>2, <2>3, <2>4 DEF Sorted
  <2>6. ResumeAt(sch) # {}
    BY <2>3, <2>4, <2>5, ResumeExists
  <2> HIDE DEF r
  <2>7. PICK i \in ResumeAt(sch) : LandsAfter(i, r)
    BY <2>1, <2>6, ResumeIs DEF r
  <2>8. /\ i \in 0..Len(systems') - 1 /\ systems'[i + 1] \in current
        /\ \A l \in i + 1..Len(systems') - 1 : systems'[l + 1] \notin current
    BY <2>4, <2>7 DEF ResumeAt
  <2>9. LandsAfter(i, [cur |-> cur', pos |-> pos'])
    BY <2>1, <2>7 DEF LandsAfter, MoveTo
  <2>10. ~ dirty'
    <3>1. Divided(systems', ops', opCount')
      BY <2>1 DEF Stored, Fits, Divided
    <3>2. Len(systems') # 0 /\ systems' # <<>>
      BY <2>4, <2>5, SeqIs
    <3>3. 1 \in 1..opCount' /\ opCount' \in 0..Len(ops')
      BY <3>1, <3>2, DividedIs DEF Divided
    <3>4. ops' # <<>>
      BY <3>3
    <3> QED
      BY <2>4, <3>4
  <2> QED
    BY <2>8, <2>9, <2>10 DEF Rebuilt
<1> QED
  BY <1>5, <1>6, <1>7

\* Where the run goes on with the same schedule.
LEMMA KeptNext ==
  ASSUME TypeInv, ScheduleInv, PlaceInv, main = "merge", systems # <<>>, Kept
  PROVE  \/ cur' = 0 /\ next + 1 = Len(systems)
         \/ /\ cur' \in 1..opCount /\ pos' = next + 1
            /\ ops[cur'].offset = pos' /\ pos' < ops[cur'].offset + ops[cur'].count
<1> DEFINE at == [cur |-> cur, pos |-> next]
           o == ops[cur]
<1>1. cur \in 1..opCount /\ cur # 0 /\ next + 1 = o.offset + o.count /\ next \in Nat
  BY DEF PlaceInv, Placed, TypeInv
<1>2. /\ opCount \in Nat /\ o.offset \in Nat /\ o.count \in Nat /\ Len(systems) \in Nat
      /\ cur = opCount => next + 1 = Len(systems)
      /\ cur # opCount =>
           cur + 1 \in 1..opCount /\ ops[cur + 1].offset = next + 1
           /\ ops[cur + 1].count > 0 /\ ops[cur + 1].count \in Nat
  BY <1>1, DividedNow, DividedIs
<1>3. /\ pos' = next + 1
      /\ cur' = IF next + 1 < o.offset + o.count THEN cur
                ELSE IF cur + 1 > opCount THEN 0 ELSE cur + 1
  BY <1>1 DEF Kept, MoveTo, NextSystem
<1>4. ~ (next + 1 < o.offset + o.count)
  BY <1>1, <1>2
<1> HIDE DEF o
<1>5. CASE cur = opCount
  BY <1>1, <1>2, <1>3, <1>4, <1>5
<1>6. CASE cur # opCount
  <2>1. ~ (cur + 1 > opCount)
    BY <1>1, <1>2, <1>6
  <2>2. cur' = cur + 1
    BY <1>3, <1>4, <2>1
  <2>3. next + 1 < next + 1 + ops[cur + 1].count
    BY <1>1, <1>2, <1>6
  <2> QED
    BY <1>2, <1>3, <1>6, <2>2, <2>3
<1> QED
  BY <1>5, <1>6

LEMMA MergePlace ==
  ASSUME Anchored, TypeInv, ScheduleInv, PlaceInv,
         NEW flip \in SUBSET Systems, NEW woken \in SUBSET Systems, Merge(flip, woken),
         TypeInv', ScheduleInv'
  PROVE  PlaceInv'
<1>1. /\ main = "merge" /\ main' = "loop" /\ staged' = {} /\ UNCHANGED <<current, ran>>
      /\ active' = active \cup woken
  BY MergeUpdates DEF Updates
<1>2. Ran' \subseteq active' \cap current'
  BY <1>1 DEF PlaceInv, Ran
<1>3. ASSUME Kept PROVE PlaceInv'
  <2>1. ~ dirty' /\ UNCHANGED <<ops, opCount, systems>>
    BY <1>3 DEF Kept
  <2>2. systems = <<>> => ran = <<>>
    BY <1>1, <2>1 DEF PlaceInv, Kept
  <2>3. ASSUME systems' # <<>>, cur' # 0 PROVE Placed'
    <3>1. /\ cur' \in 1..opCount /\ pos' = next + 1
          /\ ops[cur'].offset = pos' /\ pos' < ops[cur'].offset + ops[cur'].count
      BY <1>1, <1>3, <2>1, <2>3, KeptNext
    <3>2. pos' <= pos'
      BY DEF TypeInv
    <3> QED
      BY <1>1, <2>1, <3>1, <3>2 DEF Placed
  <2> QED
    BY <1>1, <1>2, <2>1, <2>2, <2>3 DEF PlaceInv
<1>4. ASSUME Rebuilt PROVE PlaceInv'
  <2>1. ~ dirty'
    BY <1>4 DEF Rebuilt
  <2>2. PICK i \in 0..Len(systems') - 1 : LandsAfter(i, [cur |-> cur', pos |-> pos'])
    BY <1>4 DEF Rebuilt
  <2>3. systems' # <<>>
    <3>1. systems' \in Seq(Systems)
      BY DEF TypeInv
    <3>2. Len(systems') \in Nat
      BY <3>1, SeqIs
    <3>3. Len(systems') # 0
      BY <2>2, <3>2
    <3> QED
      BY <3>3
  <2>4. ASSUME cur' # 0 PROVE Placed'
    BY <1>1, <2>2, <2>4 DEF LandsAfter, Placed
  <2> QED
    BY <1>1, <1>2, <2>1, <2>3, <2>4 DEF PlaceInv
<1> QED
  BY <1>3, <1>4, MergeCases

LEMMA EndRunPlace ==
  ASSUME PlaceInv, EndRun
  PROVE  PlaceInv'
  BY DEF EndRun, PlaceInv, Ran

LEMMA ChangePlace ==
  ASSUME PlaceInv, NEW s, Change(s)
  PROVE  PlaceInv'
  BY DEF Change, PlaceInv, Ran

LEMMA InitPlace ==
  ASSUME Init
  PROVE  PlaceInv
  BY DEF Init, PlaceInv, Ran

LEMMA StepPlace ==
  ASSUME Anchored, TypeInv, ScheduleInv, PlaceInv, [Next]_vars, TypeInv', ScheduleInv'
  PROVE  PlaceInv'
<1>1. CASE RunStep
  <2>1. CASE PastTheEnd
    BY <2>1, PastTheEndPlace
  <2>2. CASE BeginOp
    BY <2>2, BeginOpPlace
  <2>3. CASE RunSystem
    BY <2>3, RunSystemPlace
  <2>4. CASE EndRun
    BY <2>4, EndRunPlace
  <2>5. ASSUME NEW flip \in SUBSET Systems, NEW woken \in SUBSET Systems, Merge(flip, woken) PROVE PlaceInv'
    BY <2>5, MergePlace
  <2> QED
    BY <1>1, <2>1, <2>2, <2>3, <2>4, <2>5, RunStepCases
<1>2. ASSUME NEW b \in Calls, StartRun(b) PROVE PlaceInv'
  BY <1>2, StartRunPlace
<1>3. ASSUME NEW s \in Systems, Change(s) PROVE PlaceInv'
  BY <1>3, ChangePlace
<1>4. CASE UNCHANGED vars
  <2>1. UNCHANGED <<desc, enabled, active, dirty, ops, opCount, systems, cur, pos, current, main, next,
                    progress, staged, ran, due>>
    BY <1>4 DEF vars, world, schedule
  <2>2. \A i : Writes(systems[i])' = Writes(systems[i])
    BY <2>1 DEF Writes
  <2>3. Placed => Placed'
    BY <2>1, <2>2 DEF Placed
  <2> QED
    BY <2>1, <2>3 DEF PlaceInv, Ran
<1> QED
  BY <1>1, <1>2, <1>3, <1>4 DEF Next

LEMMA Placing ==
  ASSUME Anchored
  PROVE  Spec => [](TypeInv /\ ScheduleInv /\ PlaceInv)
<1>1. Init => TypeInv /\ ScheduleInv /\ PlaceInv
  BY InitTypes, InitPlace
<1>2. TypeInv /\ ScheduleInv /\ PlaceInv /\ [Next]_vars => (TypeInv /\ ScheduleInv /\ PlaceInv)'
  BY StepTypes, StepPlace
<1> QED
  BY <1>1, <1>2, PTL DEF Spec

\* A system never runs while a write to something that it reads is still in a
\* stage, if no merge disables all systems that have run and the wildcards of
\* the descriptors are apart.
THEOREM NoStaleReadHolds ==
  ASSUME Anchored, WildcardsApart
  PROVE  Spec => []NoStaleRead
<1>1. TypeInv /\ ScheduleInv /\ PlaceInv => NoStaleRead
  <2> SUFFICES ASSUME TypeInv, ScheduleInv, PlaceInv, main = "ops",
                      NEW r \in Reads(systems[next + 1]), NEW w \in staged
               PROVE  r \cap w = {}
    BY DEF NoStaleRead
  <2>1. ~ dirty /\ systems # <<>> /\ Placed /\ next \in Nat /\ pos \in Nat
    BY DEF PlaceInv, TypeInv
  <2>2. /\ cur \in 1..opCount /\ ops[cur].offset <= pos /\ next < ops[cur].offset + ops[cur].count
        /\ pos <= next
    BY <2>1 DEF Placed
  <2>3. PICK i \in pos + 1..next : w \in Writes(systems[i])
    BY <2>1 DEF Placed
  <2>4. /\ ops[cur].offset \in Nat /\ ops[cur].count \in Nat /\ ops[cur].offset + ops[cur].count <= Len(systems)
        /\ Len(systems) \in Nat /\ DOMAIN systems = 1..Len(systems)
    BY <2>2, DividedNow, DividedIs
  <2>5. /\ i \in DOMAIN systems /\ next + 1 \in DOMAIN systems /\ i < next + 1
        /\ Has(ops[cur], i) /\ Has(ops[cur], next + 1)
    BY <2>1, <2>2, <2>4, SMTT(20) DEF Has
  <2>6. Unread(systems, ops[cur])
    BY <2>2 DEF ScheduleInv, Fits, Neat
  <2> QED
    BY <2>3, <2>5, <2>6 DEF Unread
<1> QED
  BY <1>1, Placing, PTL

\* A write that may activate an inactive system is merged before a later system
\* of the pipeline runs, under the same conditions.
THEOREM NoLateActivationHolds ==
  ASSUME Anchored, WildcardsApart
  PROVE  Spec => []NoLateActivation
<1>1. TypeInv /\ ScheduleInv /\ PlaceInv => NoLateActivation
  <2> SUFFICES ASSUME TypeInv, ScheduleInv, PlaceInv, main = "merge",
                      NEW s \in enabled \ active, NEW u \in Batch, NEW v \in Batch, u < s, s < v
               PROVE  \A w \in Writes(u) : ~ MayActivate(w, s)
    BY DEF NoLateActivation
  <2>1. PICK i \in DOMAIN systems : u = systems[i] /\ pos < i /\ i <= next + 1
    BY DEF Batch
  <2>2. PICK j \in DOMAIN systems : v = systems[j] /\ pos < j /\ j <= next + 1
    BY DEF Batch
  <2>3. systems # <<>>
    BY <2>1
  <2>4. ~ dirty /\ Placed /\ next \in Nat /\ pos \in Nat
    BY <2>3 DEF PlaceInv, TypeInv
  <2>5. cur \in 1..opCount /\ ops[cur].offset <= pos /\ next + 1 = ops[cur].offset + ops[cur].count
    BY <2>4 DEF Placed
  <2>6. ops[cur].offset \in Nat /\ ops[cur].count \in Nat /\ DOMAIN systems = 1..Len(systems) /\ Len(systems) \in Nat
    BY <2>5, DividedNow, DividedIs
  <2>7. Has(ops[cur], i) /\ Has(ops[cur], j)
    BY <2>1, <2>2, <2>4, <2>5, <2>6 DEF Has
  <2>8. Quiet(enabled \ active, systems, ops[cur])
    BY <2>4, <2>5 DEF ScheduleInv, Fits, Neat
  <2>9. Harmless(systems[i], s)
    BY <2>1, <2>2, <2>7, <2>8 DEF Quiet
  <2> QED
    BY <2>1, <2>9 DEF Harmless
<1> QED
  BY <1>1, Placing, PTL

-----------------------------------------------------------------------------
(* The order of the run.                                                   *)

LEMMA StartRunOrder ==
  ASSUME TypeInv, ScheduleInv, PlaceInv, OrderInv, StartRun(TRUE)
  PROVE  OrderInv'
<1>1. /\ main = "idle" /\ main' = "loop" /\ cur' = (IF ops' = <<>> THEN 0 ELSE 1) /\ pos' = 0
      /\ due' = enabled \cap active /\ progress' = TRUE
      /\ UNCHANGED <<desc, enabled, active, current, ran>>
  BY DEF StartRun, world
<1>2. ran = <<>> /\ Ran = {} /\ Ran' = {} /\ current' = Ran'
  BY <1>1 DEF PlaceInv, OrderInv, Ran
<1>3. ops' = <<>> => enabled \cap active = {}
  <2> SUFFICES ASSUME ops' = <<>> PROVE enabled \cap active = {}
    OBVIOUS
  <2>1. dirty
    BY DEF StartRun, schedule, ScheduleInv
  <2>2. Stored(enabled, active, Schedule(enabled, active))
    BY <2>1, StoreIs DEF StartRun, TypeInv
  <2>3. opCount' = 0
    <3>1. opCount' \in 0..Len(ops') /\ Len(<<>>) = 0
      BY <2>2 DEF Stored
    <3> QED
      BY <3>1
  <2>4. systems' = <<>> /\ systems' = InOrder(enabled \cap active)
    BY <2>2, <2>3 DEF Stored, Fits, Parts
  <2>5. enabled \cap active \in SUBSET Systems
    BY DEF TypeInv
  <2> QED
    BY <2>4, <2>5, InOrderIs, NothingScheduled
<1>4. Place' = 0
  BY <1>1 DEF Place
<1> QED
  BY <1>1, <1>2, <1>3, <1>4 DEF OrderInv

LEMMA PastTheEndOrder ==
  ASSUME TypeInv, ScheduleInv, PlaceInv, OrderInv, PastTheEnd
  PROVE  OrderInv'
<1>1. /\ systems = <<>> /\ main = "loop" /\ enabled \cap active = {}
      /\ UNCHANGED <<enabled, active, systems, current, main, progress, ran, due>>
  BY PastTheEndPlace
<1>2. due = {} /\ Ran' = Ran
  BY <1>1 DEF OrderInv, Ran
<1> QED
  BY <1>1, <1>2 DEF OrderInv

LEMMA BeginOpOrder ==
  ASSUME TypeInv, ScheduleInv, PlaceInv, OrderInv, BeginOp
  PROVE  OrderInv'
<1>1. /\ main = "loop" /\ cur # 0 /\ next' = pos /\ main' \in {"ops", "merge"}
      /\ UNCHANGED <<enabled, active, systems, cur, pos, current, progress, ran, due>>
  BY DEF BeginOp, world, schedule
<1>2. systems # <<>> => main' = "ops"
  BY BeginOpPlace
<1>3. Ran' = Ran
  BY <1>1 DEF Ran
<1>4. systems # <<>> => Place' = Place
  BY <1>1, <1>2 DEF Place
<1> QED
  BY <1>1, <1>3, <1>4 DEF OrderInv

\* The systems of the schedule that have run are those up to Place.
LEMMA Later ==
  ASSUME TypeInv, ScheduleInv, OrderInv, ~ dirty, main # "idle", cur # 0, systems # <<>>,
         NEW i \in DOMAIN systems, i > Place, Place \in Nat,
         NEW k \in DOMAIN ran, ran[k] \in enabled \cap active
  PROVE  ran[k] < systems[i]
<1>1. Sorted(systems, enabled \cap active)
  BY InSchedule
<1>2. PICK j \in DOMAIN systems : systems[j] = ran[k]
  BY <1>1 DEF Sorted
<1>3. j <= Place
  BY <1>2 DEF OrderInv, Ran
<1>4. j < i
  <2>1. DOMAIN systems = 1..Len(systems)
    BY SeqIs DEF TypeInv
  <2> QED
    BY <1>3, <2>1
<1> QED
  BY <1>1, <1>2, <1>4 DEF Sorted

LEMMA RunSystemOrder ==
  ASSUME TypeInv, ScheduleInv, PlaceInv, OrderInv, RunSystem
  PROVE  OrderInv'
<1> DEFINE s == systems[next + 1]
<1>1. /\ ~ dirty /\ systems # <<>> /\ next + 1 \in DOMAIN systems /\ main = "ops" /\ cur # 0
      /\ s \in enabled \cap active /\ ran' = Append(ran, s) /\ current' = current \cup {s}
      /\ Ran' = Ran \cup {s} /\ Place' = Place + 1 /\ Place = next
  BY RunSystemPlace
<1>2. /\ UNCHANGED <<enabled, active, systems, cur, progress, due>> /\ main' # "idle"
  BY DEF RunSystem, world, schedule
<1>3. next \in Nat /\ DOMAIN systems = 1..Len(systems) /\ Len(systems) \in Nat
  BY DividedNow, DividedIs DEF TypeInv
<1>4. Sorted(systems, enabled \cap active)
  BY <1>1, InSchedule
<1> HIDE DEF s
<1>5. due' \subseteq enabled' \cap active' /\ current' = Ran'
  BY <1>1, <1>2 DEF OrderInv
<1>6. ASSUME NEW i \in DOMAIN systems, systems[i] \in Ran' PROVE i <= next + 1
  <2>1. CASE systems[i] \in Ran
    <3>1. i <= next
      BY <1>1, <2>1 DEF OrderInv
    <3> QED
      BY <1>3, <3>1
  <2>2. CASE systems[i] = s
    <3>1. i = next + 1
      <4>1. i \in Nat /\ next + 1 \in Nat
        BY <1>3
      <4>2. ~ (i < next + 1) /\ ~ (next + 1 < i)
        <5>1. systems[i] = systems[next + 1]
          BY <2>2 DEF s
        <5>2. systems[i] \in Nat
          <6>1. systems[i] \in Systems
            BY DividedNow, DividedIs
          <6> QED
            BY <6>1 DEF Systems
        <5> QED
          BY <1>1, <1>4, <5>1, <5>2 DEF Sorted
      <4> QED
        BY <4>1, <4>2
    <3> QED
      BY <1>3, <3>1
  <2> QED
    BY <1>1, <1>6, <2>1, <2>2
<1>7. ASSUME NEW t \in due' \ Ran' PROVE \A k \in DOMAIN ran' : ran'[k] < t
  <2>1. t \in due \ Ran /\ t # s /\ t \in enabled \cap active
    BY <1>1, <1>2, <1>5
  <2>2. \A k \in DOMAIN ran : ran[k] < t
    BY <1>1, <2>1 DEF OrderInv
  <2>3. s < t
    <3>1. PICK j \in DOMAIN systems : systems[j] = t
      BY <1>4, <2>1 DEF Sorted
    <3>2. CASE j = next + 1
      BY <2>1, <3>1, <3>2 DEF s
    <3>3. CASE j > next + 1
      BY <1>1, <1>3, <1>4, <3>1, <3>3 DEF Sorted, s
    <3>4. CASE j < next + 1
      <4>1. j <= next /\ next # 0
        BY <1>3, <3>4
      <4>2. systems[next] \in Ran
        BY <1>1, <1>3, <4>1 DEF OrderInv
      <4>3. PICK k \in DOMAIN ran : ran[k] = systems[next]
        BY <4>2 DEF Ran
      <4>4. systems[next] < t
        BY <2>2, <4>3
      <4>5. j = next \/ systems[j] < systems[next]
        <5>1. next \in DOMAIN systems
          BY <1>1, <1>3, <4>1
        <5> QED
          BY <1>3, <1>4, <4>1, <5>1 DEF Sorted
      <4>6. systems[next] \in Nat /\ t \in Nat
        BY <2>1, <1>3, <1>1, <4>1, <4>2, RanIs DEF Systems, TypeInv
      <4> QED
        BY <3>1, <4>4, <4>5, <4>6
    <3> QED
      BY <1>3, <3>2, <3>3, <3>4
  <2>4. \A k \in DOMAIN ran' : ran'[k] \in Ran \cup {s}
    BY <1>1 DEF Ran
  <2>5. \A u \in Ran : u < t
    BY <2>2 DEF Ran
  <2> QED
    BY <2>3, <2>4, <2>5
<1>8. cur' # 0 /\ systems'[Place'] \in Ran'
  BY <1>1, <1>2 DEF s
<1> QED
  BY <1>1, <1>2, <1>3, <1>5, <1>6, <1>7, <1>8 DEF OrderInv

LEMMA EndRunOrder ==
  ASSUME OrderInv, EndRun
  PROVE  OrderInv'
  BY DEF EndRun, OrderInv, Ran

LEMMA ChangeOrder ==
  ASSUME OrderInv, NEW s, Change(s)
  PROVE  OrderInv'
  BY DEF Change, OrderInv, Ran

LEMMA InitOrder ==
  ASSUME Init
  PROVE  OrderInv
  BY DEF Init, OrderInv, Ran

\* Nothing is left to run after the last system of a schedule that has run.
LEMMA NothingLeft ==
  ASSUME NEW sys, NEW S \in SUBSET Systems, Sorted(sys, S), sys # <<>>,
         NEW t \in S, sys[Len(sys)] < t
  PROVE  FALSE
<1> DEFINE n == Len(sys)
<1>1. n \in Nat /\ DOMAIN sys = 1..n /\ n # 0 /\ \A i \in DOMAIN sys : sys[i] \in Systems
  BY SeqIs, EmptySeq DEF Sorted
<1>2. PICK j \in DOMAIN sys : sys[j] = t
  BY DEF Sorted
<1> HIDE DEF n
<1>3. n \in DOMAIN sys /\ (j = n \/ j < n) /\ sys[n] < t
  BY <1>1, <1>2 DEF n
<1>4. j = n \/ sys[j] < sys[n]
  BY <1>3 DEF Sorted
<1>5. sys[n] \in Nat /\ t \in Nat
  BY <1>1, <1>3 DEF Systems
<1> QED
  BY <1>2, <1>3, <1>4, <1>5

LEMMA MergeOrder ==
  ASSUME Anchored, TypeInv, ScheduleInv, PlaceInv, OrderInv,
         NEW flip \in SUBSET Systems, NEW woken \in SUBSET Systems, Merge(flip, woken),
         TypeInv', ScheduleInv'
  PROVE  OrderInv'
<1>1. /\ main = "merge" /\ main' = "loop" /\ UNCHANGED <<current, progress, ran>>
      /\ active' = active \cup woken
      /\ due' = (due \cap enabled') \cup
                {s \in (enabled' \cap active') \ (enabled \cap active) :
                   \A k \in DOMAIN ran : ran[k] < s}
  BY MergeUpdates DEF Updates
<1>2. Ran' = Ran /\ current' = Ran' /\ current = Ran /\ progress'
  BY <1>1 DEF Ran, OrderInv
<1>3. due \subseteq enabled \cap active /\ \A t \in due \ Ran : \A k \in DOMAIN ran : ran[k] < t
  BY <1>1 DEF OrderInv
<1>4. due' \subseteq enabled' \cap active'
  BY <1>1, <1>3
<1>5. \A t \in due' \ Ran' : (\A u \in Ran : u < t) /\ \A k \in DOMAIN ran' : ran'[k] < t
  BY <1>1, <1>2, <1>3 DEF Ran
<1>6. Place' = pos' /\ Place = next + 1 /\ next \in Nat
  BY <1>1 DEF Place, TypeInv
<1>7. ASSUME Kept PROVE OrderInv'
  <2>1. UNCHANGED <<dirty, systems, enabled, active>> /\ ~ dirty
    BY <1>7 DEF Kept
  <2>2. Sorted(systems, enabled \cap active) /\ enabled \cap active \in SUBSET Systems
    BY <2>1, InSchedule DEF TypeInv
  <2>3. CASE systems = <<>>
    <3>1. enabled \cap active = {}
      BY <2>2, <2>3, NothingScheduled
    <3>2. due' = {}
      BY <1>4, <2>1, <3>1
    <3> QED
      BY <1>1, <1>2, <2>1, <2>3, <3>2 DEF OrderInv
  <2>4. CASE systems # <<>>
    <3>1. cur # 0
      BY <1>1 DEF PlaceInv
    <3>2. /\ \A i \in DOMAIN systems : systems[i] \in Ran => i <= next + 1
          /\ systems[next + 1] \in Ran
      BY <1>1, <1>6, <2>4, <3>1 DEF OrderInv
    <3>3. CASE cur' = 0 /\ next + 1 = Len(systems)
      <4>1. ASSUME NEW t \in due' \ Ran' PROVE FALSE
        <5>1. systems[Len(systems)] < t /\ t \in enabled \cap active
          BY <1>4, <1>5, <2>1, <3>2, <3>3
        <5> QED
          BY <2>2, <2>4, <5>1, NothingLeft
      <4> QED
        BY <1>1, <1>2, <1>4, <3>3, <4>1 DEF OrderInv
    <3>4. CASE cur' # 0 /\ pos' = next + 1
      BY <1>1, <1>2, <1>4, <1>5, <1>6, <2>1, <3>2, <3>4 DEF OrderInv
    <3>5. \/ cur' = 0 /\ next + 1 = Len(systems)
          \/ cur' # 0 /\ pos' = next + 1
      <4>1. \/ cur' = 0 /\ next + 1 = Len(systems)
            \/ cur' \in 1..opCount /\ pos' = next + 1
        BY <1>1, <1>7, <2>4, KeptNext
      <4> QED
        BY <4>1
    <3> QED
      BY <3>3, <3>4, <3>5
  <2> QED
    BY <2>3, <2>4
<1>8. ASSUME Rebuilt PROVE OrderInv'
  <2>1. ~ dirty'
    BY <1>8 DEF Rebuilt
  <2>2. PICK i \in 0..Len(systems') - 1 :
          /\ systems'[i + 1] \in current
          /\ \A j \in i + 1..Len(systems') - 1 : systems'[j + 1] \notin current
          /\ LandsAfter(i, [cur |-> cur', pos |-> pos'])
    BY <1>8 DEF Rebuilt
  <2>3. Sorted(systems', enabled' \cap active') /\ enabled' \cap active' \in SUBSET Systems
    BY <2>1, InScheduleNext DEF TypeInv
  <2>4. /\ Len(systems') \in Nat /\ DOMAIN systems' = 1..Len(systems')
        /\ systems' # <<>>
    <3>1. systems' \in Seq(Systems)
      BY <2>3 DEF Sorted
    <3>2. Len(systems') \in Nat /\ DOMAIN systems' = 1..Len(systems')
      BY <3>1, SeqIs
    <3>3. Len(systems') # 0
      BY <2>2, <3>2
    <3> QED
      BY <3>2, <3>3
  <2>5. CASE i + 1 = Len(systems') /\ cur' = 0
    <3>1. ASSUME NEW t \in due' \ Ran' PROVE FALSE
      <4>1. systems'[Len(systems')] < t /\ t \in enabled' \cap active'
        BY <1>2, <1>4, <1>5, <2>2, <2>5
      <4> QED
        BY <2>3, <2>4, <4>1, NothingLeft
    <3> QED
      BY <1>1, <1>2, <1>4, <2>5, <3>1 DEF OrderInv
  <2>6. CASE pos' = i + 1 /\ cur' # 0
    <3>1. ASSUME NEW j \in DOMAIN systems', systems'[j] \in Ran' PROVE j <= i + 1
      <4>1. SUFFICES ASSUME ~ (j <= i + 1) PROVE FALSE
        OBVIOUS
      <4>2. j - 1 \in i + 1..Len(systems') - 1 /\ j - 1 + 1 = j
        BY <2>2, <2>4, <4>1
      <4> QED
        BY <1>2, <2>2, <3>1, <4>2
    <3>2. systems'[i + 1] \in Ran'
      BY <1>2, <2>2
    <3> QED
      BY <1>1, <1>2, <1>4, <1>5, <1>6, <2>6, <3>1, <3>2 DEF OrderInv
  <2>7. \/ i + 1 = Len(systems') /\ cur' = 0
        \/ pos' = i + 1 /\ cur' # 0
    <3>1. opCount' \in Nat
      BY DividedNext, DividedIs
    <3> QED
      BY <2>2, <3>1 DEF LandsAfter
  <2> QED
    BY <2>5, <2>6, <2>7
<1> QED
  BY <1>7, <1>8, MergeCases

LEMMA StepOrder ==
  ASSUME Anchored, Calls \subseteq {TRUE}, TypeInv, ScheduleInv, PlaceInv, OrderInv, [Next]_vars,
         TypeInv', ScheduleInv'
  PROVE  OrderInv'
<1>1. CASE RunStep
  <2>1. CASE PastTheEnd
    BY <2>1, PastTheEndOrder
  <2>2. CASE BeginOp
    BY <2>2, BeginOpOrder
  <2>3. CASE RunSystem
    BY <2>3, RunSystemOrder
  <2>4. CASE EndRun
    BY <2>4, EndRunOrder
  <2>5. ASSUME NEW flip \in SUBSET Systems, NEW woken \in SUBSET Systems, Merge(flip, woken) PROVE OrderInv'
    BY <2>5, MergeOrder
  <2> QED
    BY <1>1, <2>1, <2>2, <2>3, <2>4, <2>5, RunStepCases
<1>2. ASSUME NEW b \in Calls, StartRun(b) PROVE OrderInv'
  <2>1. b = TRUE
    OBVIOUS
  <2> QED
    BY <1>2, <2>1, StartRunOrder
<1>3. ASSUME NEW s \in Systems, Change(s) PROVE OrderInv'
  BY <1>3, ChangeOrder
<1>4. CASE UNCHANGED vars
  BY <1>4 DEF vars, world, schedule, OrderInv, Ran, Place
<1> QED
  BY <1>1, <1>2, <1>3, <1>4 DEF Next

LEMMA Ordering ==
  ASSUME Anchored, Calls \subseteq {TRUE}
  PROVE  Spec => [](TypeInv /\ ScheduleInv /\ PlaceInv /\ OrderInv)
<1>1. Init => TypeInv /\ ScheduleInv /\ PlaceInv /\ OrderInv
  BY InitTypes, InitPlace, InitOrder
<1>2. TypeInv /\ ScheduleInv /\ PlaceInv /\ OrderInv /\ [Next]_vars
        => (TypeInv /\ ScheduleInv /\ PlaceInv /\ OrderInv)'
  BY StepTypes, StepPlace, StepOrder
<1> QED
  BY <1>1, <1>2, PTL DEF Spec

\* ecs_progress runs every system that was to run, if no merge disables all
\* systems that have run and no pipeline is run outside of ecs_progress.
THEOREM NoneSkippedHolds ==
  ASSUME Anchored, Calls \subseteq {TRUE}
  PROVE  Spec => []NoneSkipped
<1>1. OrderInv => NoneSkipped
  BY DEF OrderInv, NoneSkipped, Ran
<1> QED
  BY <1>1, Ordering, PTL

\* A run runs a system at most once, and after those before it in the pipeline
\* that are still enabled, under the same conditions.
THEOREM RunsInOrderHolds ==
  ASSUME Anchored, Calls \subseteq {TRUE}
  PROVE  Spec => RunsInOrder
<1> DEFINE Follows(s) == \A k \in DOMAIN ran : ran[k] # s /\ (ran[k] \in enabled => ran[k] < s)
<1>1. ASSUME TypeInv, ScheduleInv, PlaceInv, OrderInv, [Next]_vars, ran' # ran, ran' # <<>>
      PROVE  Follows(Last(ran'))
  <2>1. RunSystem
    <3>1. RunStep => RunSystem
      BY <1>1 DEF RunStep, PastTheEnd, BeginOp, EndRun, Merge
    <3> QED
      BY <1>1, <3>1 DEF Next, StartRun, Change, vars
  <2> DEFINE s == systems[next + 1]
  <2>2. /\ ~ dirty /\ systems # <<>> /\ next + 1 \in DOMAIN systems /\ main = "ops" /\ cur # 0
        /\ s \in enabled \cap active /\ ran' = Append(ran, s) /\ Place = next
    BY <1>1, <2>1, RunSystemPlace
  <2>3. Last(ran') = s
    BY <1>1, <2>2, AppendRan
  <2>4. Place \in Nat /\ next + 1 > Place
    BY <1>1, <2>2 DEF TypeInv
  <2>5. ASSUME NEW k \in DOMAIN ran, ran[k] \in enabled PROVE ran[k] < s
    <3>1. ran[k] \in enabled \cap active
      BY <1>1, <2>5 DEF PlaceInv, Ran
    <3> QED
      BY <1>1, <2>2, <2>4, <3>1, Later
  <2>6. ASSUME NEW k \in DOMAIN ran PROVE ran[k] # s
    <3> HIDE DEF s
    <3>1. s \in Systems
      BY <1>1, <2>2 DEF TypeInv
    <3>2. s \in Nat
      BY <3>1 DEF Systems
    <3> QED
      BY <2>2, <2>5, <3>2
  <2> QED
    BY <2>3, <2>5, <2>6
<1>2. TypeInv /\ ScheduleInv /\ PlaceInv /\ OrderInv /\ [Next]_vars
        => [ran' # ran /\ ran' # <<>> => Follows(Last(ran'))]_ran
  BY <1>1
<1> QED
  BY <1>2, Ordering, PTL DEF Spec, RunsInOrder
=============================================================================
