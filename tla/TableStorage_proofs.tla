------------------------- MODULE TableStorage_proofs -------------------------
(***************************************************************************)
(* Proofs about TableStorage, for any entities, components, references and *)
(* bounds: records, rows and columns stay in step; and as long as no       *)
(* counter wraps around, a cached reference is never stale when it is      *)
(* used.                                                                   *)
(***************************************************************************)
EXTENDS TableStorage, FiniteSetTheorems, SequenceTheorems, TLAPS

-----------------------------------------------------------------------------
(* Types.  A store is described by its four fields, so that a lemma says   *)
(* what a step does to each of them.                                       *)

Ent == Indices \X Nat
Value == Ent \cup {Raw}
RecType == [gen : Nat, alive : BOOLEAN, table : Types, row : Nat]

IsTable(T, t) ==
  t \in [id : Nat \X Nat, version : Nat, ents : Seq(Ent), cols : [T -> Seq(Value)],
         size : Nat, mem : {t.mem}]

IsTab(tab) ==
  /\ DOMAIN tab \subseteq Types /\ tab = [T \in DOMAIN tab |-> tab[T]]
  /\ \A T \in DOMAIN tab : IsTable(T, tab[T])

IsIds(ids) == ids \in [next : Nat, free : Seq(Nat \X Nat)]

IsStore(s) ==
  /\ s \in [rec : [Indices -> RecType], tab : {s.tab}, fast : {s.fast}, ids : {s.ids}]
  /\ IsTab(s.tab) /\ IsIds(s.ids)

Ops == [kind : {"idle"}] \cup [kind : {"move"}, index : Indices, dst : Types]
       \cup [kind : {"remove", "delete"}, comp : Comps, todo : SUBSET Types]

-----------------------------------------------------------------------------
(* The inductive invariant of the rows.                                    *)

AliveIn(rec, e) == rec[e[1]].alive /\ rec[e[1]].gen = e[2]

HasRow(rec, tab, i) ==
  /\ rec[i].table \in DOMAIN tab
  /\ rec[i].row \in DOMAIN tab[rec[i].table].ents
  /\ tab[rec[i].table].ents[rec[i].row] = <<i, rec[i].gen>>

AtRow(rec, tab, T, row) ==
  LET e == tab[T].ents[row] IN
  /\ AliveIn(rec, e) /\ rec[e[1]].table = T /\ rec[e[1]].row = row
  /\ \A c \in T : tab[T].cols[c][row] = e

Sized(T, t) == Len(t.ents) <= t.size /\ \A c \in T : Len(t.cols[c]) = Len(t.ents)

\* X are the rows of entities that are being moved.
Rows(rec, tab, X) ==
  /\ \A i \in Indices : rec[i].alive => HasRow(rec, tab, i)
  /\ \A T \in DOMAIN tab :
       /\ Sized(T, tab[T])
       /\ \A row \in DOMAIN tab[T].ents : <<T, row>> \notin X => AtRow(rec, tab, T, row)

Moving(s, o) == IF o.kind = "move" THEN {<<o.dst, Len(s.tab[o.dst].ents)>>} ELSE {}

OpInv(s, o) ==
  /\ o \in Ops
  /\ o.kind = "move" =>
       LET n == Len(s.tab[o.dst].ents) IN
       /\ o.dst \in DOMAIN s.tab /\ s.rec[o.index].alive /\ s.rec[o.index].table # o.dst
       /\ n > 0 /\ s.tab[o.dst].ents[n] = <<o.index, s.rec[o.index].gen>>
  /\ o.kind \in {"remove", "delete"} =>
       /\ \A T \in o.todo : T \in DOMAIN s.tab /\ o.comp \in T
       /\ \A T \in DOMAIN s.tab : o.comp \in T /\ T \notin o.todo => s.tab[T].ents = <<>>

RowsState(s, o) ==
  /\ IsStore(s) /\ Root \in DOMAIN s.tab
  /\ Rows(s.rec, s.tab, Moving(s, o)) /\ OpInv(s, o)

RowsInv == RowsState(store, op)

-----------------------------------------------------------------------------
(* The sizes of columns.                                                   *)

\* A non-empty set of naturals has a least element: its initial segments are
\* finite sets, and inclusion is well-founded on those.
LEMMA NatMin ==
  ASSUME NEW S \in SUBSET Nat, S # {}
  PROVE  \E m \in S : \A n \in S : m <= n
<1> DEFINE F == {0..n : n \in S}
<1>1. IsWellFoundedOn(StrictSubsetOrdering(Nat), FiniteSubsetsOf(Nat))
  BY FS_StrictSubsetOrderingWellFounded
<1>2. F \subseteq FiniteSubsetsOf(Nat)
  <2>1. ASSUME NEW n \in S PROVE 0..n \in SUBSET Nat /\ IsFiniteSet(0..n)
    BY FS_Interval, 0 \in Int, n \in Int
  <2> QED BY <2>1 DEF FiniteSubsetsOf
<1>3. F # {} OBVIOUS
<1>4. PICK M \in F : \A y \in F : ~ (<<y, M>> \in StrictSubsetOrdering(Nat))
  <2> HIDE DEF F
  <2> QED BY <1>1, <1>2, <1>3, WFMin
<1>5. PICK m \in S : M = 0..m OBVIOUS
<1>6. ASSUME NEW n \in S, n < m PROVE FALSE
  <2>1. 0..n \in F OBVIOUS
  <2>2. <<0..n, 0..m>> \in StrictSubsetOrdering(Nat)
    BY <1>6 DEF StrictSubsetOrdering
  <2> QED BY <2>1, <2>2, <1>4, <1>5
<1> QED BY <1>6

\* Twice a power of two is one.
LEMMA PowerDoubled ==
  ASSUME NEW p \in Nat, p >= 2, PowerOfTwo(p)
  PROVE  PowerOfTwo(2 * p)
<1> SUFFICES ASSUME NEW d \in 1..2 * p, NEW k \in 1..2 * p, 2 * p = d * k, d # 1, d % 2 # 0
             PROVE  FALSE
  BY DEF PowerOfTwo
<1>1. PICK a \in Int : d = 2 * a + 1 OBVIOUS
<1> DEFINE h == p - a * k
<1>2. h \in Int /\ k = 2 * h
  <2>1. 2 * p = 2 * (a * k) + k /\ a * k \in Int BY <1>1
  <2> QED BY <2>1
<1>3. p = d * h
  <2>1. 2 * p = 2 * (d * h) /\ d * h \in Int BY <1>2
  <2> QED BY <2>1
<1>4. d \in 1..p /\ h \in 1..p BY <1>2, <1>3
<1> QED BY <1>3, <1>4 DEF PowerOfTwo

\* There is a power of two from every number to its double.
LEMMA PowerBetween ==
  ASSUME NEW n \in Nat \ {0}
  PROVE  \E p \in 2..2 * n : p >= n /\ PowerOfTwo(p)
<1> DEFINE Bad == {m \in Nat \ {0} : ~ \E p \in 2..2 * m : p >= m /\ PowerOfTwo(p)}
<1> SUFFICES ASSUME Bad # {} PROVE FALSE OBVIOUS
<1>1. PICK m \in Bad : \A k \in Bad : m <= k BY NatMin
<1>2. CASE m = 1
  <2>1. PowerOfTwo(2) BY DEF PowerOfTwo
  <2> QED BY <2>1, <1>2
<1>3. CASE m > 1
  <2> DEFINE k == (m + 1) \div 2
  <2>1. k \in Nat /\ 0 < k /\ k < m /\ m <= 2 * k /\ 2 * k <= m + 1 BY <1>3
  <2>2. PICK p \in 2..2 * k : p >= k /\ PowerOfTwo(p) BY <2>1, <1>1
  <2>3. CASE p >= m BY <2>1, <2>2, <2>3, <1>3
  <2>4. CASE p < m
    <3>1. PowerOfTwo(2 * p) BY <2>2, PowerDoubled
    <3>2. 2 * p >= m /\ 2 * p \in 2..2 * m BY <2>1, <2>2, <2>4
    <3> QED BY <3>1, <3>2
  <2> QED BY <2>1, <2>2, <2>3, <2>4
<1> QED BY <1>2, <1>3

LEMMA NextPowBound ==
  ASSUME NEW n \in Nat \ {0}
  PROVE  NextPow(n) \in Nat /\ NextPow(n) >= n
<1> DEFINE S == {p \in 2..2 * n : p >= n /\ PowerOfTwo(p)}
<1>1. S \in SUBSET Nat /\ S # {} BY PowerBetween
<1>2. \E m \in S : \A k \in S : m <= k BY <1>1, NatMin
<1>3. Min(S) \in S BY <1>2 DEF Min
<1> QED BY <1>3 DEF NextPow

-----------------------------------------------------------------------------
(* What the operators on a store do to its fields.                         *)

LEMMA SwapRemoved ==
  ASSUME NEW S, NEW seq \in Seq(S), NEW row \in DOMAIN seq
  PROVE  /\ SwapRemove(seq, row) \in Seq(S)
         /\ Len(SwapRemove(seq, row)) = Len(seq) - 1
         /\ \A k \in 1..Len(seq) - 1 :
              SwapRemove(seq, row)[k] = IF k = row THEN seq[Len(seq)] ELSE seq[k]
<1> DEFINE x == [seq EXCEPT ![row] = Last(seq)]
<1>1. x \in Seq(S) /\ Len(x) = Len(seq) BY DEF Last
<1>2. SwapRemove(seq, row) = SubSeq(x, 1, Len(seq) - 1)
  BY <1>1 DEF SwapRemove, Front
<1>3. \A k \in 1..Len(seq) - 1 : x[k] = IF k = row THEN seq[Len(seq)] ELSE seq[k]
  BY DEF Last
<1> HIDE DEF x
<1> QED BY <1>1, <1>2, <1>3, SubSeqProperties

\* The columns of T after a change.
Extended(T, cols, values) == [c \in T |-> cols[c] \o values]
Joined(T, a, b) == [c \in T |-> a[c] \o b[c]]
Shortened(T, cols, row) == [c \in T |-> SwapRemove(cols[c], row)]
Swapped(T, cols, j, k) == [c \in T |-> Exchange(cols[c], j, k)]
NoRows(T) == [c \in T |-> <<>>]

\* Of all tables only T changed.
OnlyTable(tab, tab2, T) ==
  DOMAIN tab2 = DOMAIN tab /\ \A U \in DOMAIN tab \ {T} : tab2[U] = tab[U]

\* The records of new entities es, in the rows after n of T.
NewRecords(rec, rec2, T, n, es) ==
  /\ \A k \in DOMAIN es : ~rec[es[k][1]].alive /\ rec2[es[k][1]] = Record(es[k], T, n + k)
  /\ \A i \in Indices : (\A k \in DOMAIN es : es[k][1] # i) => rec2[i] = rec[i]

Bumped(s, d, T) ==
  /\ d.tab[T].id = s.tab[T].id
  /\ d.tab[T].version = (s.tab[T].version + 1) % VersionMod
  /\ d.fast = [s.fast EXCEPT ![Slot(s.tab[T].id)] = (@ + 1) % FastMod]

\* A store in which the record of a table was replaced.
LEMMA TableReplaced ==
  ASSUME NEW tab, IsTab(tab), NEW T \in Types, NEW t, IsTable(T, t), T \in DOMAIN tab
  PROVE  /\ IsTab([tab EXCEPT ![T] = t]) /\ [tab EXCEPT ![T] = t][T] = t
         /\ DOMAIN [tab EXCEPT ![T] = t] = DOMAIN tab
         /\ \A U \in DOMAIN tab \ {T} : [tab EXCEPT ![T] = t][U] = tab[U]
BY DEF IsTab

LEMMA TableIn ==
  ASSUME NEW s, IsStore(s), NEW T \in DOMAIN s.tab
  PROVE  /\ T \in Types /\ IsTable(T, s.tab[T]) /\ IsTab(s.tab)
         /\ s.tab[T].id \in Nat \X Nat /\ s.tab[T].version \in Nat
         /\ s.tab[T].ents \in Seq(Ent) /\ s.tab[T].cols \in [T -> Seq(Value)]
         /\ s.tab[T].size \in Nat
BY DEF IsStore, IsTab, IsTable

LEMMA DirtyFields ==
  ASSUME NEW s, IsStore(s), NEW T \in DOMAIN s.tab
  PROVE  LET d == Dirty(s, T) IN
         /\ IsStore(d) /\ d.rec = s.rec /\ d.ids = s.ids
         /\ OnlyTable(s.tab, d.tab, T) /\ Bumped(s, d, T)
         /\ d.tab[T].ents = s.tab[T].ents /\ d.tab[T].cols = s.tab[T].cols
         /\ d.tab[T].size = s.tab[T].size /\ d.tab[T].mem = s.tab[T].mem
<1> DEFINE d == Dirty(s, T)
           t == [s.tab[T] EXCEPT !.version = (@ + 1) % VersionMod]
<1>1. /\ d.rec = s.rec /\ d.ids = s.ids
      /\ d.tab = [s.tab EXCEPT ![T] = t]
      /\ d.fast = [s.fast EXCEPT ![Slot(s.tab[T].id)] = (@ + 1) % FastMod]
      /\ d \in [rec : {d.rec}, tab : {d.tab}, fast : {d.fast}, ids : {d.ids}]
  BY ZenonT(30) DEF Dirty, IsStore
<1>2. IsTable(T, s.tab[T]) BY TableIn
<1>3. /\ t.id = s.tab[T].id /\ t.ents = s.tab[T].ents /\ t.cols = s.tab[T].cols
      /\ t.size = s.tab[T].size /\ t.mem = s.tab[T].mem
      /\ t.version = (s.tab[T].version + 1) % VersionMod
  BY <1>2 DEF IsTable
<1>4. IsTable(T, t)
  <2>1. (s.tab[T].version + 1) % VersionMod \in Nat
    BY <1>2, ConstantsAssumption DEF IsTable
  <2> QED BY <1>2, <2>1 DEF IsTable
<1> HIDE DEF t
<1>5. IsTab(d.tab) /\ d.tab[T] = t /\ OnlyTable(s.tab, d.tab, T)
  BY <1>1, <1>4, TableIn, TableReplaced DEF OnlyTable
<1>6. IsStore(d) BY <1>1, <1>5 DEF IsStore
<1> QED BY <1>1, <1>3, <1>5, <1>6 DEF Bumped

LEMMA ResizedFields ==
  ASSUME NEW s, IsStore(s), NEW T \in DOMAIN s.tab, NEW size \in Nat
  PROVE  LET d == Resized(s, T, size) IN
         /\ IsStore(d) /\ d.rec = s.rec /\ d.ids = s.ids /\ d.fast = s.fast
         /\ OnlyTable(s.tab, d.tab, T)
         /\ d.tab[T].id = s.tab[T].id /\ d.tab[T].version = s.tab[T].version
         /\ d.tab[T].ents = s.tab[T].ents /\ d.tab[T].cols = s.tab[T].cols
         /\ d.tab[T].size = size
<1>1. CASE size = s.tab[T].size BY <1>1 DEF Resized, OnlyTable
<1>2. CASE size # s.tab[T].size
  <2> DEFINE d == Resized(s, T, size)
             t == [s.tab[T] EXCEPT !.size = size, !.mem = IF size = 0 THEN 0 ELSE FreshMem(s)]
  <2>1. /\ d.rec = s.rec /\ d.ids = s.ids /\ d.fast = s.fast
        /\ d.tab = [s.tab EXCEPT ![T] = t]
        /\ d \in [rec : {d.rec}, tab : {d.tab}, fast : {d.fast}, ids : {d.ids}]
    BY <1>2 DEF Resized, IsStore
  <2>2. IsTable(T, s.tab[T]) BY TableIn
  <2>3. /\ t.id = s.tab[T].id /\ t.ents = s.tab[T].ents /\ t.cols = s.tab[T].cols
        /\ t.version = s.tab[T].version /\ t.size = size /\ IsTable(T, t)
    BY <2>2 DEF IsTable
  <2> HIDE DEF t
  <2>4. IsTab(d.tab) /\ d.tab[T] = t /\ OnlyTable(s.tab, d.tab, T)
    BY <2>1, <2>3, TableIn, TableReplaced DEF OnlyTable
  <2>5. IsStore(d) BY <2>1, <2>4 DEF IsStore
  <2> QED BY <2>1, <2>3, <2>4, <2>5
<1> QED BY <1>1, <1>2

AppendEffect(s, d, T, es, values, size) ==
  /\ IsStore(d) /\ d.rec = s.rec /\ d.ids = s.ids
  /\ OnlyTable(s.tab, d.tab, T) /\ Bumped(s, d, T)
  /\ d.tab[T].ents = s.tab[T].ents \o es
  /\ d.tab[T].cols = Extended(T, s.tab[T].cols, values)
  /\ d.tab[T].size = size

LEMMA AppendedFields ==
  ASSUME NEW s, IsStore(s), NEW T \in DOMAIN s.tab, NEW es \in Seq(Ent),
         NEW values \in Seq(Value), NEW size \in Nat
  PROVE  AppendEffect(s, AppendRows(s, T, es, values, size), T, es, values, size)
<1> USE DEF Extended
<1> DEFINE r == Resized(s, T, size)
           t == [r.tab[T] EXCEPT !.ents = @ \o es, !.cols = [c \in T |-> @[c] \o values]]
           x == [r EXCEPT !.tab[T].ents = @ \o es,
                          !.tab[T].cols = [c \in T |-> @[c] \o values]]
<1>1. /\ IsStore(r) /\ r.rec = s.rec /\ r.ids = s.ids /\ r.fast = s.fast /\ OnlyTable(s.tab, r.tab, T)
      /\ r.tab[T].id = s.tab[T].id /\ r.tab[T].version = s.tab[T].version
      /\ r.tab[T].ents = s.tab[T].ents /\ r.tab[T].cols = s.tab[T].cols
      /\ r.tab[T].size = size
  BY ResizedFields
<1> HIDE DEF r
<1>2. T \in DOMAIN r.tab BY <1>1 DEF OnlyTable
<1>3. IsTable(T, r.tab[T]) BY <1>1, <1>2, TableIn
<1>4. /\ t.id = s.tab[T].id /\ t.version = s.tab[T].version /\ t.size = size
      /\ t.ents = s.tab[T].ents \o es
      /\ t.cols = [c \in T |-> s.tab[T].cols[c] \o values]
  BY <1>1, <1>3 DEF IsTable
<1>5. IsTable(T, t)
  <2>1. s.tab[T].ents \o es \in Seq(Ent) BY TableIn
  <2>2. [c \in T |-> s.tab[T].cols[c] \o values] \in [T -> Seq(Value)] BY TableIn
  <2>3. t \in [id : {t.id}, version : {t.version}, ents : {t.ents}, cols : {t.cols},
               size : {t.size}, mem : {t.mem}]
    BY <1>3, Zenon DEF IsTable
  <2> HIDE DEF t
  <2>4. t.id \in Nat \X Nat /\ t.version \in Nat BY <1>4, TableIn
  <2> QED BY <1>4, <2>1, <2>2, <2>3, <2>4 DEF IsTable
<1>6. /\ x.rec = r.rec /\ x.ids = r.ids /\ x.fast = r.fast /\ x.tab = [r.tab EXCEPT ![T] = t]
      /\ x \in [rec : {x.rec}, tab : {x.tab}, fast : {x.fast}, ids : {x.ids}]
  BY <1>1, <1>2 DEF IsStore
<1> HIDE DEF t, x
<1>7. IsTab(x.tab) /\ x.tab[T] = t /\ OnlyTable(r.tab, x.tab, T)
  <2>1. IsTab(r.tab) /\ T \in Types BY <1>1, <1>2, TableIn
  <2> QED BY <2>1, <1>2, <1>5, <1>6, TableReplaced DEF OnlyTable
<1>8. AppendRows(s, T, es, values, size) = Dirty(x, T) BY DEF AppendRows, r, x
<1>9. IsStore(x) /\ T \in DOMAIN x.tab BY <1>1, <1>2, <1>6, <1>7 DEF IsStore, OnlyTable
<1> DEFINE d == Dirty(x, T)
<1>10. /\ IsStore(d) /\ d.rec = x.rec /\ d.ids = x.ids
       /\ OnlyTable(x.tab, d.tab, T) /\ Bumped(x, d, T)
       /\ d.tab[T].ents = x.tab[T].ents /\ d.tab[T].cols = x.tab[T].cols
       /\ d.tab[T].size = x.tab[T].size
  BY <1>9, DirtyFields
<1> HIDE DEF d
<1>11. OnlyTable(s.tab, d.tab, T) BY <1>1, <1>7, <1>10 DEF OnlyTable
<1>12. Bumped(s, d, T) BY <1>1, <1>4, <1>6, <1>7, <1>10 DEF Bumped
<1> QED BY <1>1, <1>4, <1>6, <1>7, <1>8, <1>10, <1>11, <1>12 DEF d, AppendEffect

\* A table is replaced, with records, and marked dirty.
LEMMA EditedFields ==
  ASSUME NEW s, IsStore(s), NEW T \in DOMAIN s.tab, NEW t, IsTable(T, t),
         t.id = s.tab[T].id, t.version = s.tab[T].version,
         NEW x, x \in [rec : {x.rec}, tab : {x.tab}, fast : {x.fast}, ids : {x.ids}],
         x.rec \in [Indices -> RecType], x.tab = [s.tab EXCEPT ![T] = t],
         x.fast = s.fast, x.ids = s.ids
  PROVE  LET d == Dirty(x, T) IN
         /\ IsStore(d) /\ d.rec = x.rec /\ d.ids = s.ids
         /\ OnlyTable(s.tab, d.tab, T) /\ Bumped(s, d, T)
         /\ d.tab[T].ents = t.ents /\ d.tab[T].cols = t.cols
         /\ d.tab[T].size = t.size /\ d.tab[T].mem = t.mem
<1>1. IsTab(x.tab) /\ x.tab[T] = t /\ OnlyTable(s.tab, x.tab, T)
  <2>1. IsTab(s.tab) /\ T \in Types BY TableIn
  <2> QED BY <2>1, TableReplaced DEF OnlyTable
<1>2. IsStore(x) /\ T \in DOMAIN x.tab BY <1>1 DEF IsStore, OnlyTable
<1> DEFINE d == Dirty(x, T)
<1>3. /\ IsStore(d) /\ d.rec = x.rec /\ d.ids = x.ids
      /\ OnlyTable(x.tab, d.tab, T) /\ Bumped(x, d, T)
      /\ d.tab[T].ents = x.tab[T].ents /\ d.tab[T].cols = x.tab[T].cols
      /\ d.tab[T].size = x.tab[T].size /\ d.tab[T].mem = x.tab[T].mem
  BY <1>2, DirtyFields
<1> HIDE DEF d
<1>4. OnlyTable(s.tab, d.tab, T) BY <1>1, <1>3 DEF OnlyTable
<1>5. Bumped(s, d, T) BY <1>1, <1>3 DEF Bumped
<1> QED BY <1>1, <1>3, <1>4, <1>5 DEF d

\* A record of a table whose fields are known is one.
LEMMA TableWith ==
  ASSUME NEW T, NEW t,
         t \in [id : {t.id}, version : {t.version}, ents : {t.ents}, cols : {t.cols},
                size : {t.size}, mem : {t.mem}],
         t.id \in Nat \X Nat, t.version \in Nat, t.ents \in Seq(Ent),
         t.cols \in [T -> Seq(Value)], t.size \in Nat
  PROVE  IsTable(T, t)
BY DEF IsTable

\* The records after the last of ents moved to row.
LastMoved(rec, ents, row) ==
  [rec EXCEPT ![ents[Len(ents)][1]].row = IF row = Len(ents) THEN @ ELSE row]

LEMMA LastMovedAt ==
  ASSUME NEW rec \in [Indices -> RecType], NEW ents, NEW row \in Nat,
         ents[Len(ents)][1] \in Indices
  PROVE  LET last == ents[Len(ents)][1]
             m    == LastMoved(rec, ents, row) IN
         /\ m \in [Indices -> RecType]
         /\ \A i \in Indices : m[i] = IF i = last /\ row # Len(ents)
                                   THEN [rec[i] EXCEPT !.row = row] ELSE rec[i]
<1>1. \A i \in Indices : rec[i] = [rec[i] EXCEPT !.row = rec[i].row] BY DEF RecType
<1>2. \A i \in Indices : [rec[i] EXCEPT !.row = row] \in RecType BY DEF RecType
<1> QED BY <1>1, <1>2 DEF LastMoved

DeleteEffect(s, d, T, row) ==
  /\ IsStore(d) /\ d.ids = s.ids
  /\ s.tab[T].ents[Len(s.tab[T].ents)][1] \in Indices
  /\ d.rec = LastMoved(s.rec, s.tab[T].ents, row)
  /\ OnlyTable(s.tab, d.tab, T) /\ Bumped(s, d, T)
  /\ d.tab[T].ents = SwapRemove(s.tab[T].ents, row)
  /\ d.tab[T].cols = Shortened(T, s.tab[T].cols, row)
  /\ d.tab[T].size = s.tab[T].size /\ d.tab[T].mem = s.tab[T].mem

LEMMA RowDeletedFields ==
  ASSUME NEW s, IsStore(s), NEW T \in DOMAIN s.tab, Sized(T, s.tab[T]),
         NEW row \in DOMAIN s.tab[T].ents
  PROVE  DeleteEffect(s, DeleteRow(s, T, row), T, row)
<1> USE DEF Shortened, LastMoved
<1> DEFINE ents == s.tab[T].ents
           last == ents[Len(ents)][1]
           t == [s.tab[T] EXCEPT !.ents = SwapRemove(@, row),
                                 !.cols = [c \in T |-> SwapRemove(@[c], row)]]
           x == [s EXCEPT !.rec[Last(ents)[1]].row = IF row = Len(ents) THEN @ ELSE row,
                          !.tab[T].ents = SwapRemove(@, row),
                          !.tab[T].cols = [c \in T |-> SwapRemove(@[c], row)]]
<1>1. IsTable(T, s.tab[T]) /\ ents \in Seq(Ent) /\ s.tab[T].cols \in [T -> Seq(Value)] BY TableIn
<1>2. last \in Indices /\ Last(ents)[1] = last /\ row \in Nat
  <2>1. ents[Len(ents)] \in Ent BY <1>1
  <2> QED BY <1>1, <2>1 DEF Last, Ent
<1>3. /\ t.id = s.tab[T].id /\ t.version = s.tab[T].version /\ t.size = s.tab[T].size
      /\ t.mem = s.tab[T].mem /\ t.ents = SwapRemove(ents, row)
      /\ t.cols = [c \in T |-> SwapRemove(s.tab[T].cols[c], row)]
      /\ t \in [id : {t.id}, version : {t.version}, ents : {t.ents}, cols : {t.cols},
                size : {t.size}, mem : {t.mem}]
  BY <1>1 DEF IsTable
<1>4. t.ents \in Seq(Ent) BY <1>1, <1>3, SwapRemoved
<1>5. t.cols \in [T -> Seq(Value)]
  <2>1. ASSUME NEW c \in T PROVE SwapRemove(s.tab[T].cols[c], row) \in Seq(Value)
    <3>1. s.tab[T].cols[c] \in Seq(Value) /\ row \in DOMAIN s.tab[T].cols[c] BY <1>1 DEF Sized
    <3> QED BY <3>1, SwapRemoved
  <2> QED BY <2>1, <1>3
<1>6. /\ x.rec = [s.rec EXCEPT ![last].row = IF row = Len(ents) THEN @ ELSE row]
      /\ x.ids = s.ids /\ x.fast = s.fast /\ x.tab = [s.tab EXCEPT ![T] = t]
      /\ x \in [rec : {x.rec}, tab : {x.tab}, fast : {x.fast}, ids : {x.ids}]
  BY <1>2, Zenon DEF IsStore
<1> HIDE DEF t, x
<1>7. IsTable(T, t)
  <2>1. t.id \in Nat \X Nat /\ t.version \in Nat /\ t.size \in Nat BY <1>3, TableIn
  <2> QED BY <1>3, <1>4, <1>5, <2>1, TableWith
<1>8. x.rec \in [Indices -> RecType]
  <2>1. s.rec \in [Indices -> RecType] BY DEF IsStore
  <2> QED BY <1>2, <1>6, <2>1, ZenonT(30) DEF RecType
<1>9. DeleteRow(s, T, row) = Dirty(x, T) BY DEF DeleteRow, x
<1> DEFINE d == Dirty(x, T)
<1>10. /\ IsStore(d) /\ d.rec = x.rec /\ d.ids = s.ids
       /\ OnlyTable(s.tab, d.tab, T) /\ Bumped(s, d, T)
       /\ d.tab[T].ents = t.ents /\ d.tab[T].cols = t.cols
       /\ d.tab[T].size = t.size /\ d.tab[T].mem = t.mem
  <2>1. t.id = s.tab[T].id /\ t.version = s.tab[T].version BY <1>3
  <2>2. /\ x.ids = s.ids /\ x.fast = s.fast /\ x.tab = [s.tab EXCEPT ![T] = t]
        /\ x \in [rec : {x.rec}, tab : {x.tab}, fast : {x.fast}, ids : {x.ids}]
    BY <1>6, Zenon
  <2> QED BY ONLY IsStore(s), T \in DOMAIN s.tab, <1>7, <1>8, <2>1, <2>2, EditedFields
<1> HIDE DEF d
<1> QED BY <1>2, <1>3, <1>6, <1>9, <1>10, Zenon DEF d, DeleteEffect

LEMMA ForgottenType ==
  ASSUME NEW rec \in [Indices -> RecType], NEW es
  PROVE  Forgotten(rec, es) \in [Indices -> RecType]
<1>1. Root \in Types BY DEF Root, Types
<1>2. ASSUME NEW i \in Indices
      PROVE  [gen |-> rec[i].gen + 1, alive |-> FALSE, table |-> Root, row |-> 0] \in RecType
  BY <1>1 DEF RecType
<1> QED BY <1>2 DEF Forgotten

ForgottenRec(r) == [gen |-> r.gen + 1, alive |-> FALSE, table |-> Root, row |-> 0]

LEMMA ForgottenOne ==
  ASSUME NEW rec, NEW i \in Indices, NEW g
  PROVE  \A j \in Indices :
           Forgotten(rec, <<<<i, g>>>>)[j] = IF j = i THEN ForgottenRec(rec[i]) ELSE rec[j]
<1> DEFINE es == <<<<i, g>>>>
<1>1. DOMAIN es = {1} /\ es[1][1] = i OBVIOUS
<1> HIDE DEF es
<1>2. \A j \in Indices : Forgotten(rec, es)[j] = IF j = i THEN ForgottenRec(rec[i]) ELSE rec[j]
  BY <1>1 DEF Forgotten, ForgottenRec
<1> QED BY <1>2 DEF es

ClearEffect(s, d, T) ==
  /\ IsStore(d) /\ d.ids = s.ids /\ d.rec = Forgotten(s.rec, s.tab[T].ents)
  /\ OnlyTable(s.tab, d.tab, T) /\ Bumped(s, d, T)
  /\ d.tab[T].ents = <<>> /\ d.tab[T].cols = NoRows(T)
  /\ d.tab[T].size = s.tab[T].size /\ d.tab[T].mem = s.tab[T].mem

LEMMA ClearedFields ==
  ASSUME NEW s, IsStore(s), NEW T \in DOMAIN s.tab
  PROVE  ClearEffect(s, ClearTable(s, T), T)
<1> USE DEF NoRows
<1> DEFINE t == [s.tab[T] EXCEPT !.ents = <<>>, !.cols = [c \in T |-> <<>>]]
           x == [s EXCEPT !.rec = Forgotten(@, s.tab[T].ents),
                          !.tab[T].ents = <<>>, !.tab[T].cols = [c \in T |-> <<>>]]
           d == Dirty(x, T)
<1>1. IsTable(T, s.tab[T]) BY TableIn
<1>2. /\ t.id = s.tab[T].id /\ t.version = s.tab[T].version /\ t.size = s.tab[T].size
      /\ t.mem = s.tab[T].mem /\ t.ents = <<>> /\ t.cols = [c \in T |-> <<>>]
      /\ t \in [id : {t.id}, version : {t.version}, ents : {t.ents}, cols : {t.cols},
                size : {t.size}, mem : {t.mem}]
  BY <1>1 DEF IsTable
<1>3. /\ x.rec = Forgotten(s.rec, s.tab[T].ents)
      /\ x.ids = s.ids /\ x.fast = s.fast /\ x.tab = [s.tab EXCEPT ![T] = t]
      /\ x \in [rec : {x.rec}, tab : {x.tab}, fast : {x.fast}, ids : {x.ids}]
  BY DEF IsStore
<1> HIDE DEF t, x
<1>4. IsTable(T, t)
  <2>1. t.id \in Nat \X Nat /\ t.version \in Nat /\ t.size \in Nat BY <1>2, TableIn
  <2>2. t.ents \in Seq(Ent) /\ t.cols \in [T -> Seq(Value)] BY <1>2
  <2> QED BY <1>2, <2>1, <2>2, TableWith
<1>5. x.rec \in [Indices -> RecType] BY <1>3, ForgottenType DEF IsStore
<1>6. ClearTable(s, T) = d BY DEF ClearTable, x
<1>7. /\ IsStore(d) /\ d.rec = x.rec /\ d.ids = s.ids
      /\ OnlyTable(s.tab, d.tab, T) /\ Bumped(s, d, T)
      /\ d.tab[T].ents = t.ents /\ d.tab[T].cols = t.cols
      /\ d.tab[T].size = t.size /\ d.tab[T].mem = t.mem
  <2>1. t.id = s.tab[T].id /\ t.version = s.tab[T].version BY <1>2
  <2> QED BY ONLY IsStore(s), T \in DOMAIN s.tab, <1>3, <1>4, <1>5, <2>1, EditedFields
<1> HIDE DEF d
<1> QED BY <1>2, <1>3, <1>6, <1>7 DEF ClearEffect

\* What a table that was not there starts with.
Issued(s, d, id) ==
  \/ s.ids.free # <<>> /\ id = Head(s.ids.free)
     /\ d.ids.free = Tail(s.ids.free) /\ d.ids.next = s.ids.next
  \/ s.ids.free = <<>> /\ id = <<s.ids.next, 0>>
     /\ d.ids.free = <<>> /\ d.ids.next = s.ids.next + 1

LEMMA EnsuredFields ==
  ASSUME NEW s, IsStore(s), NEW T \in Types
  PROVE  LET d == Ensure(s, T) IN
         /\ IsStore(d) /\ d.rec = s.rec /\ d.fast = s.fast
         /\ DOMAIN d.tab = DOMAIN s.tab \cup {T}
         /\ \A U \in DOMAIN s.tab : d.tab[U] = s.tab[U]
         /\ T \in DOMAIN s.tab => d = s
         /\ T \notin DOMAIN s.tab =>
              /\ d.tab[T] = EmptyTable(T, d.tab[T].id)
              /\ d.tab[T].version = 1 /\ d.tab[T].ents = <<>> /\ d.tab[T].size = 0
              /\ d.tab[T].cols = NoRows(T)
              /\ Issued(s, d, d.tab[T].id)
<1> USE DEF NoRows
<1>1. CASE T \in DOMAIN s.tab BY <1>1 DEF Ensure
<1>2. CASE T \notin DOMAIN s.tab
  <2> DEFINE id == IF s.ids.free # <<>> THEN Head(s.ids.free) ELSE <<s.ids.next, 0>>
             d == Ensure(s, T)
  <2>1. IsTab(s.tab) /\ s.ids \in [next : Nat, free : Seq(Nat \X Nat)] BY DEF IsStore, IsIds
  <2>2. id \in Nat \X Nat BY <2>1
  <2>3. /\ d.rec = s.rec /\ d.fast = s.fast /\ d.tab = WithTable(s.tab, T, id)
        /\ Issued(s, d, id) /\ IsIds(d.ids)
        /\ d \in [rec : {d.rec}, tab : {d.tab}, fast : {d.fast}, ids : {d.ids}]
    <3>1. CASE s.ids.free # <<>>
      <4> DEFINE x == [s EXCEPT !.tab = WithTable(s.tab, T, id), !.ids.free = Tail(@)]
      <4>1. d = x BY <1>2, <3>1 DEF Ensure
      <4>2. Tail(s.ids.free) \in Seq(Nat \X Nat) BY <2>1, <3>1
      <4>3. x.ids.free = Tail(s.ids.free) /\ x.ids.next = s.ids.next /\ IsIds(x.ids)
        BY <2>1, <4>2 DEF IsStore, IsIds
      <4>4. /\ x.rec = s.rec /\ x.fast = s.fast /\ x.tab = WithTable(s.tab, T, id)
            /\ x \in [rec : {x.rec}, tab : {x.tab}, fast : {x.fast}, ids : {x.ids}]
        BY DEF IsStore
      <4> HIDE DEF d, x
      <4> QED BY <3>1, <4>1, <4>3, <4>4 DEF Issued
    <3>2. CASE s.ids.free = <<>>
      <4> DEFINE x == [s EXCEPT !.tab = WithTable(s.tab, T, id), !.ids.next = @ + 1]
      <4>1. d = x BY <1>2, <3>2 DEF Ensure
      <4>3. x.ids.free = s.ids.free /\ x.ids.next = s.ids.next + 1 /\ IsIds(x.ids)
        BY <2>1 DEF IsStore, IsIds
      <4>4. /\ x.rec = s.rec /\ x.fast = s.fast /\ x.tab = WithTable(s.tab, T, id)
            /\ x \in [rec : {x.rec}, tab : {x.tab}, fast : {x.fast}, ids : {x.ids}]
        BY DEF IsStore
      <4> HIDE DEF d, x
      <4> QED BY <3>2, <4>1, <4>3, <4>4 DEF Issued
    <3> QED BY <3>1, <3>2
  <2> HIDE DEF id, d
  <2>4. IsTable(T, EmptyTable(T, id)) /\ EmptyTable(T, id).id = id
    BY <2>2 DEF IsTable, EmptyTable
  <2>5. IsTab(d.tab) /\ d.tab[T] = EmptyTable(T, id) /\ DOMAIN d.tab = DOMAIN s.tab \cup {T}
        /\ \A U \in DOMAIN s.tab : d.tab[U] = s.tab[U]
    BY <1>2, <2>1, <2>3, <2>4 DEF IsTab, WithTable
  <2>6. IsStore(d) BY <2>3, <2>5 DEF IsStore
  <2>7. d.tab[T].version = 1 /\ d.tab[T].ents = <<>> /\ d.tab[T].size = 0
        /\ d.tab[T].cols = [c \in T |-> <<>>] /\ d.tab[T].id = id
    BY <2>5 DEF EmptyTable
  <2> QED BY <1>2, <2>3, <2>5, <2>6, <2>7 DEF d
<1> QED BY <1>1, <1>2

FiniEffect(s, d, tables, order) ==
  /\ IsStore(d) /\ d.rec = s.rec
  /\ DOMAIN d.tab = DOMAIN s.tab \ tables
  /\ \A U \in DOMAIN s.tab \ tables : d.tab[U] = s.tab[U]
  /\ d.fast = Marked(s, tables, 2)
  /\ d.ids.next = s.ids.next
  /\ d.ids.free = [k \in DOMAIN order |-> NextGen(s.tab[order[k]].id)] \o s.ids.free

LEMMA FinishedFields ==
  ASSUME NEW s, IsStore(s), NEW tables \in SUBSET DOMAIN s.tab, NEW order \in Seq(tables)
  PROVE  FiniEffect(s, FiniAll(s, tables, order), tables, order)
<1> DEFINE d == FiniAll(s, tables, order)
           new == [k \in DOMAIN order |-> NextGen(s.tab[order[k]].id)]
<1>1. IsTab(s.tab) /\ s.ids \in [next : Nat, free : Seq(Nat \X Nat)] BY DEF IsStore, IsIds
<1>2. new \in Seq(Nat \X Nat)
  <2>1. ASSUME NEW k \in DOMAIN order PROVE NextGen(s.tab[order[k]].id) \in Nat \X Nat
    <3>1. order[k] \in DOMAIN s.tab OBVIOUS
    <3>2. s.tab[order[k]].id \in Nat \X Nat BY <3>1, TableIn
    <3> QED BY <3>2 DEF NextGen
  <2> QED BY <2>1, IsASeq
<1>3. /\ d.rec = s.rec /\ d.fast = Marked(s, tables, 2)
      /\ d.tab = [T \in DOMAIN s.tab \ tables |-> s.tab[T]]
      /\ d.ids = [s.ids EXCEPT !.free = new \o s.ids.free]
      /\ d \in [rec : {d.rec}, tab : {d.tab}, fast : {d.fast}, ids : {d.ids}]
  BY DEF FiniAll, IsStore
<1> HIDE DEF d, new
<1>4. IsIds(d.ids) /\ d.ids.next = s.ids.next /\ d.ids.free = new \o s.ids.free
  <2>1. new \o s.ids.free \in Seq(Nat \X Nat) BY <1>1, <1>2, ConcatProperties
  <2> QED BY <1>1, <1>3, <2>1 DEF IsIds
<1>5. IsTab(d.tab) BY <1>1, <1>3 DEF IsTab
<1>6. IsStore(d) BY <1>3, <1>4, <1>5 DEF IsStore
<1> QED BY <1>3, <1>4, <1>6 DEF d, new, FiniEffect

Loose(s, tables) == {T \in tables : s.tab[T].size # Len(s.tab[T].ents)}

ShrinkEffect(s, d, tables) ==
  /\ IsStore(d) /\ d.rec = s.rec /\ d.ids = s.ids
  /\ DOMAIN d.tab = DOMAIN s.tab
  /\ \A T \in DOMAIN s.tab \ Loose(s, tables) : d.tab[T] = s.tab[T]
  /\ \A T \in Loose(s, tables) :
       /\ d.tab[T].id = s.tab[T].id /\ d.tab[T].ents = s.tab[T].ents
       /\ d.tab[T].cols = s.tab[T].cols /\ d.tab[T].size = Len(s.tab[T].ents)
       /\ d.tab[T].version = (s.tab[T].version + 1) % VersionMod
  /\ d.fast = Marked(s, Loose(s, tables), 1)

LEMMA ShrunkFields ==
  ASSUME NEW s, IsStore(s), NEW tables \in SUBSET DOMAIN s.tab
  PROVE  ShrinkEffect(s, ShrinkAll(s, tables), tables)
<1> DEFINE d == ShrinkAll(s, tables)
           loose == Loose(s, tables)
           mems == FreshMems(s, loose)
           New(T) == [s.tab[T] EXCEPT
                        !.version = (@ + 1) % VersionMod,
                        !.size = Len(s.tab[T].ents),
                        !.mem = IF s.tab[T].ents = <<>> THEN 0 ELSE mems[T]]
<1>1. IsTab(s.tab) BY DEF IsStore
<1>2. /\ d.rec = s.rec /\ d.ids = s.ids /\ d.fast = Marked(s, loose, 1)
      /\ d.tab = [T \in DOMAIN s.tab |-> IF T \notin loose THEN s.tab[T] ELSE New(T)]
      /\ d \in [rec : {d.rec}, tab : {d.tab}, fast : {d.fast}, ids : {d.ids}]
  BY Zenon DEF ShrinkAll, IsStore, Loose
<1>3. ASSUME NEW T \in loose
      PROVE  /\ New(T).id = s.tab[T].id /\ New(T).ents = s.tab[T].ents
             /\ New(T).cols = s.tab[T].cols /\ New(T).size = Len(s.tab[T].ents)
             /\ New(T).version = (s.tab[T].version + 1) % VersionMod
             /\ IsTable(T, New(T))
  <2>1. T \in DOMAIN s.tab BY DEF Loose
  <2>2. IsTable(T, s.tab[T]) BY <2>1, TableIn
  <2>3. (s.tab[T].version + 1) % VersionMod \in Nat
    <3>1. s.tab[T].version \in Nat BY <2>1, TableIn
    <3> QED BY ONLY <3>1, ConstantsAssumption
  <2>4. Len(s.tab[T].ents) \in Nat BY <2>2 DEF IsTable
  <2> HIDE DEF mems
  <2> QED BY <2>2, <2>3, <2>4 DEF IsTable
<1> HIDE DEF d, New
<1>4. loose \subseteq DOMAIN s.tab BY DEF Loose
<1> HIDE DEF loose
<1>5. IsTab(d.tab) BY <1>1, <1>2, <1>3, <1>4 DEF IsTab
<1>6. IsStore(d) BY <1>2, <1>5 DEF IsStore
<1> QED BY <1>2, <1>3, <1>4, <1>6 DEF d, loose, ShrinkEffect

MovedRec(rec, es, dst, n) ==
  [i \in Indices |-> IF \E k \in DOMAIN es : es[k][1] = i
                     THEN [rec[i] EXCEPT !.table = dst, !.row = n + @] ELSE rec[i]]

LEMMA MovedType ==
  ASSUME NEW rec \in [Indices -> RecType], NEW es, NEW dst \in Types, NEW n \in Nat
  PROVE  MovedRec(rec, es, dst, n) \in [Indices -> RecType]
<1>1. ASSUME NEW i \in Indices
      PROVE  [rec[i] EXCEPT !.table = dst, !.row = n + @] \in RecType /\ rec[i] \in RecType
  <2>1. rec[i] \in RecType OBVIOUS
  <2>2. n + rec[i].row \in Nat BY <2>1 DEF RecType
  <2> QED BY <2>1, <2>2 DEF RecType
<1> QED BY <1>1, Zenon DEF MovedRec

MergeEffect(s, d, dst, src) ==
  LET n == Len(s.tab[dst].ents) IN
  /\ IsStore(d) /\ d.ids = s.ids
  /\ d.rec = MovedRec(s.rec, s.tab[src].ents, dst, n)
  /\ DOMAIN d.tab = DOMAIN s.tab
  /\ \A U \in DOMAIN s.tab \ {dst, src} : d.tab[U] = s.tab[U]
  /\ Bumped(s, d, dst)
  /\ d.tab[dst].ents = s.tab[dst].ents \o s.tab[src].ents
  /\ d.tab[dst].cols = Joined(dst, s.tab[dst].cols, s.tab[src].cols)
  /\ d.tab[dst].size >= n + Len(s.tab[src].ents)
  /\ d.tab[src].id = s.tab[src].id /\ d.tab[src].version = s.tab[src].version
  /\ d.tab[src].ents = <<>> /\ d.tab[src].cols = NoRows(src)
  /\ d.tab[src].size = 0

LEMMA BothReplaced ==
  ASSUME NEW tab, tab = [T \in DOMAIN tab |-> tab[T]],
         NEW a \in DOMAIN tab, NEW b \in DOMAIN tab, a # b, NEW ents, NEW cols, NEW none,
         NEW tab2, tab2 = [tab EXCEPT ![a].ents = ents, ![a].cols = cols, ![b].ents = <<>>,
                                      ![b].cols = none, ![b].size = 0, ![b].mem = 0]
  PROVE  /\ DOMAIN tab2 = DOMAIN tab /\ tab2 = [T \in DOMAIN tab2 |-> tab2[T]]
         /\ tab2[a] = [tab[a] EXCEPT !.ents = ents, !.cols = cols]
         /\ tab2[b] = [tab[b] EXCEPT !.ents = <<>>, !.cols = none, !.size = 0, !.mem = 0]
         /\ \A U \in DOMAIN tab \ {a, b} : tab2[U] = tab[U]
<1>1. DOMAIN tab2 = DOMAIN tab OBVIOUS
<1>2. tab2 = [T \in DOMAIN tab2 |-> tab2[T]] OBVIOUS
<1>3. tab2[a] = [tab[a] EXCEPT !.ents = ents, !.cols = cols] OBVIOUS
<1>4. tab2[b] = [tab[b] EXCEPT !.ents = <<>>, !.cols = none, !.size = 0, !.mem = 0] OBVIOUS
<1>5. \A U \in DOMAIN tab \ {a, b} : tab2[U] = tab[U] OBVIOUS
<1> QED BY <1>1, <1>2, <1>3, <1>4, <1>5

LEMMA MergedFields ==
  ASSUME NEW s, IsStore(s), NEW dst \in DOMAIN s.tab, NEW src \in DOMAIN s.tab,
         dst # src, dst \subseteq src, Sized(dst, s.tab[dst]), Sized(src, s.tab[src])
  PROVE  MergeEffect(s, Merge(s, dst, src), dst, src)
<1> USE DEF NoRows, Joined
<1> DEFINE from == s.tab[src]
           to == s.tab[dst]
           n == Len(to.ents)
           m == n + Len(from.ents)
           rec == MovedRec(s.rec, from.ents, dst, n)
           cols == [c \in dst |-> to.cols[c] \o from.cols[c]]
           grown == IF n = 0 THEN [s EXCEPT !.tab[dst].size = from.size, !.tab[dst].mem = from.mem]
                    ELSE Resized(s, dst, IF m > to.size THEN NextPow(m) ELSE to.size)
<1>1. /\ IsTable(dst, to) /\ to.ents \in Seq(Ent) /\ to.size \in Nat /\ n \in Nat
      /\ to.cols \in [dst -> Seq(Value)]
      /\ IsTable(src, from) /\ from.ents \in Seq(Ent) /\ from.size \in Nat
      /\ from.cols \in [src -> Seq(Value)] /\ Len(from.ents) \in Nat
      /\ IsTab(s.tab) /\ dst \in Types /\ src \in Types
  <2>1. /\ IsTable(dst, to) /\ to.ents \in Seq(Ent) /\ to.size \in Nat
        /\ to.cols \in [dst -> Seq(Value)] /\ IsTab(s.tab) /\ dst \in Types
    BY TableIn
  <2>2. /\ IsTable(src, from) /\ from.ents \in Seq(Ent) /\ from.size \in Nat
        /\ from.cols \in [src -> Seq(Value)] /\ src \in Types
    BY TableIn
  <2> QED BY <2>1, <2>2, LenProperties
<1>2. /\ IsStore(grown) /\ grown.rec = s.rec /\ grown.ids = s.ids /\ grown.fast = s.fast
      /\ OnlyTable(s.tab, grown.tab, dst)
      /\ grown.tab[dst].id = to.id /\ grown.tab[dst].version = to.version
      /\ grown.tab[dst].ents = to.ents /\ grown.tab[dst].cols = to.cols
      /\ grown.tab[dst].size \in Nat /\ grown.tab[dst].size >= m
  <2>1. CASE n = 0
    <3> DEFINE t == [to EXCEPT !.size = from.size, !.mem = from.mem]
               x == [s EXCEPT !.tab[dst].size = from.size, !.tab[dst].mem = from.mem]
    <3>1. x.rec = s.rec /\ x.ids = s.ids /\ x.fast = s.fast /\ x.tab = [s.tab EXCEPT ![dst] = t]
          /\ x \in [rec : {x.rec}, tab : {x.tab}, fast : {x.fast}, ids : {x.ids}]
      BY DEF IsStore
    <3>2. /\ t.id = to.id /\ t.version = to.version /\ t.size = from.size
          /\ t.ents = to.ents /\ t.cols = to.cols /\ IsTable(dst, t)
      BY <1>1 DEF IsTable
    <3>3. grown = x BY <2>1
    <3> HIDE DEF t, x, grown
    <3>4. IsTab(x.tab) /\ x.tab[dst] = t /\ OnlyTable(s.tab, x.tab, dst)
      BY <1>1, <3>1, <3>2, TableReplaced DEF OnlyTable
    <3>5. IsStore(x) BY <3>1, <3>4 DEF IsStore
    <3>6. from.size >= m BY <1>1, <2>1 DEF Sized
    <3> QED BY <1>1, <3>1, <3>2, <3>3, <3>4, <3>5, <3>6
  <2>2. CASE n # 0
    <3> DEFINE size == IF m > to.size THEN NextPow(m) ELSE to.size
    <3>1. size \in Nat /\ size >= m
      <4>1. n \in Nat /\ Len(from.ents) \in Nat /\ to.size \in Nat BY <1>1
      <4> HIDE DEF from, to, n
      <4>2. m \in Nat \ {0} BY ONLY <4>1, <2>2
      <4>3. NextPow(m) \in Nat /\ NextPow(m) >= m BY <4>2, NextPowBound
      <4> HIDE DEF m
      <4> QED BY ONLY <4>1, <4>2, <4>3
    <3>2. grown = Resized(s, dst, size) BY <2>2
    <3> HIDE DEF size, grown
    <3>3. /\ IsStore(grown) /\ grown.rec = s.rec /\ grown.ids = s.ids /\ grown.fast = s.fast
          /\ OnlyTable(s.tab, grown.tab, dst)
          /\ grown.tab[dst].id = s.tab[dst].id /\ grown.tab[dst].version = s.tab[dst].version
          /\ grown.tab[dst].ents = s.tab[dst].ents /\ grown.tab[dst].cols = s.tab[dst].cols
          /\ grown.tab[dst].size = size
      BY <3>1, <3>2, ResizedFields
    <3> QED BY <3>1, <3>3
  <2> QED BY <2>1, <2>2, Zenon
<1> HIDE DEF grown
<1> DEFINE t == [grown.tab[dst] EXCEPT !.ents = to.ents \o from.ents, !.cols = cols]
           u == [from EXCEPT !.ents = <<>>, !.cols = [c \in src |-> <<>>], !.size = 0, !.mem = 0]
           x == [grown EXCEPT !.rec = rec,
                              !.tab[dst].ents = to.ents \o from.ents,
                              !.tab[dst].cols = cols,
                              !.tab[src].ents = <<>>,
                              !.tab[src].cols = [c \in src |-> <<>>],
                              !.tab[src].size = 0, !.tab[src].mem = 0]
<1>3. dst \in DOMAIN grown.tab /\ src \in DOMAIN grown.tab /\ grown.tab[src] = from
  BY <1>2 DEF OnlyTable
<1>4. IsTable(dst, grown.tab[dst]) /\ IsTab(grown.tab) BY <1>2, <1>3, TableIn
<1>5. /\ t.id = to.id /\ t.version = to.version /\ t.size = grown.tab[dst].size
      /\ t.ents = to.ents \o from.ents /\ t.cols = cols
      /\ t \in [id : {t.id}, version : {t.version}, ents : {t.ents}, cols : {t.cols},
                size : {t.size}, mem : {t.mem}]
  BY <1>2, <1>4, Zenon DEF IsTable
<1>6. /\ u.id = from.id /\ u.version = from.version /\ u.size = 0 /\ u.ents = <<>>
      /\ u.cols = [c \in src |-> <<>>] /\ IsTable(src, u)
  <2>1. [c \in src |-> <<>>] \in [src -> Seq(Value)] /\ <<>> \in Seq(Ent) OBVIOUS
  <2>2. from \in [id : Nat \X Nat, version : Nat, ents : Seq(Ent), cols : [src -> Seq(Value)],
                  size : Nat, mem : {from.mem}]
    BY <1>1 DEF IsTable
  <2> QED BY ONLY <2>1, <2>2 DEF IsTable
<1>7. IsTable(dst, t)
  <2>1. to.ents \o from.ents \in Seq(Ent) BY <1>1, ConcatProperties
  <2>2. cols \in [dst -> Seq(Value)]
    <3>1. ASSUME NEW c \in dst PROVE to.cols[c] \o from.cols[c] \in Seq(Value)
      BY <1>1, ConcatProperties
    <3> QED BY <3>1
  <2>3. to.id \in Nat \X Nat /\ to.version \in Nat BY TableIn
  <2> HIDE DEF t, cols
  <2> QED BY <1>2, <1>5, <2>1, <2>2, <2>3, TableWith
<1>8. /\ x.rec = rec /\ x.ids = s.ids /\ x.fast = s.fast
      /\ DOMAIN x.tab = DOMAIN grown.tab /\ x.tab = [T \in DOMAIN x.tab |-> x.tab[T]]
      /\ x.tab[dst] = t /\ x.tab[src] = u
      /\ \A U \in DOMAIN grown.tab \ {dst, src} : x.tab[U] = grown.tab[U]
      /\ x \in [rec : {x.rec}, tab : {x.tab}, fast : {x.fast}, ids : {x.ids}]
  <2> HIDE DEF rec, cols, from, to
  <2>1. /\ x.rec = rec /\ x.ids = s.ids /\ x.fast = s.fast
        /\ x \in [rec : {x.rec}, tab : {x.tab}, fast : {x.fast}, ids : {x.ids}]
    BY <1>2, Zenon DEF IsStore
  <2>2. x.tab = [grown.tab EXCEPT ![dst].ents = to.ents \o from.ents, ![dst].cols = cols,
                                  ![src].ents = <<>>, ![src].cols = [c \in src |-> <<>>],
                                  ![src].size = 0, ![src].mem = 0]
    BY <1>2 DEF IsStore
  <2> DEFINE ents == to.ents \o from.ents
             none == [c \in src |-> <<>>]
  <2>3. t = [grown.tab[dst] EXCEPT !.ents = ents, !.cols = cols] OBVIOUS
  <2>4. u = [grown.tab[src] EXCEPT !.ents = <<>>, !.cols = none, !.size = 0, !.mem = 0] BY <1>3
  <2> HIDE DEF x, t, u, ents, none
  <2>5. x.tab = [grown.tab EXCEPT ![dst].ents = ents, ![dst].cols = cols, ![src].ents = <<>>,
                                  ![src].cols = none, ![src].size = 0, ![src].mem = 0]
    BY <2>2, Zenon DEF ents, none
  <2>6. /\ DOMAIN x.tab = DOMAIN grown.tab /\ x.tab = [T \in DOMAIN x.tab |-> x.tab[T]]
        /\ x.tab[dst] = t /\ x.tab[src] = u
        /\ \A U \in DOMAIN grown.tab \ {dst, src} : x.tab[U] = grown.tab[U]
    BY <1>3, <2>3, <2>4, <2>5, BothReplaced, Zenon
  <2> QED BY <2>1, <2>6
<1>9. Merge(s, dst, src) = Dirty(x, dst)
  <2> HIDE DEF x, from, to, n, rec, cols
  <2>1. m = n + Len(from.ents) OBVIOUS
  <2>2. rec = [i \in Indices |->
                IF \E k \in DOMAIN from.ents : from.ents[k][1] = i
                THEN [s.rec[i] EXCEPT !.table = dst, !.row = n + @] ELSE s.rec[i]]
    BY ONLY DEF MovedRec, rec
  <2>3. grown = IF n = 0 THEN [s EXCEPT !.tab[dst].size = from.size, !.tab[dst].mem = from.mem]
                ELSE Resized(s, dst, IF n + Len(from.ents) > to.size
                                     THEN NextPow(n + Len(from.ents)) ELSE to.size)
    BY ONLY DEF grown
  <2> HIDE DEF m
  <2> DEFINE rows == [i \in Indices |->
                        IF \E k \in DOMAIN from.ents : from.ents[k][1] = i
                        THEN [s.rec[i] EXCEPT !.table = dst, !.row = n + @] ELSE s.rec[i]]
             large == IF n = 0
                      THEN [s EXCEPT !.tab[dst].size = from.size, !.tab[dst].mem = from.mem]
                      ELSE Resized(s, dst, IF n + Len(from.ents) > to.size
                                           THEN NextPow(n + Len(from.ents)) ELSE to.size)
  <2>4. Merge(s, dst, src) = Dirty([large EXCEPT !.rec = rows,
                                                 !.tab[dst].ents = to.ents \o from.ents,
                                                 !.tab[dst].cols = cols,
                                                 !.tab[src].ents = <<>>,
                                                 !.tab[src].cols = [c \in src |-> <<>>],
                                                 !.tab[src].size = 0, !.tab[src].mem = 0], dst)
    BY ONLY Zenon DEF Merge, from, to, n, cols
  <2> HIDE DEF rows, large
  <2>5. rec = rows /\ grown = large BY ONLY <2>2, <2>3, Zenon DEF rows, large
  <2> QED BY ONLY <2>4, <2>5 DEF x
<1> HIDE DEF t, u, x
<1>10. /\ IsTab(x.tab) /\ DOMAIN x.tab = DOMAIN s.tab /\ x.tab[dst] = t /\ x.tab[src] = u
       /\ \A U \in DOMAIN s.tab \ {dst, src} : x.tab[U] = s.tab[U]
  <2>1. DOMAIN x.tab = DOMAIN s.tab /\ \A U \in DOMAIN s.tab \ {dst, src} : x.tab[U] = s.tab[U]
    BY <1>2, <1>8 DEF OnlyTable
  <2>2. \A U \in DOMAIN s.tab : IsTable(U, x.tab[U])
    BY <1>1, <1>6, <1>7, <1>8, <2>1 DEF IsTab
  <2> QED BY <1>1, <1>8, <2>1, <2>2 DEF IsTab
<1>11. x.rec \in [Indices -> RecType]
  <2>1. s.rec \in [Indices -> RecType] BY DEF IsStore
  <2>2. MovedRec(s.rec, from.ents, dst, n) \in [Indices -> RecType]
    BY ONLY <1>1, <2>1, MovedType
  <2> QED BY <1>8, <2>2
<1>12. IsStore(x)
  <2>1. IsIds(s.ids) BY DEF IsStore
  <2> QED BY <1>8, <1>10, <1>11, <2>1 DEF IsStore
<1> DEFINE d == Dirty(x, dst)
<1>13. /\ IsStore(d) /\ d.rec = x.rec /\ d.ids = x.ids
       /\ OnlyTable(x.tab, d.tab, dst) /\ Bumped(x, d, dst)
       /\ d.tab[dst].ents = x.tab[dst].ents /\ d.tab[dst].cols = x.tab[dst].cols
       /\ d.tab[dst].size = x.tab[dst].size
  BY <1>10, <1>12, DirtyFields
<1> HIDE DEF d
<1>14. Bumped(s, d, dst) BY <1>5, <1>8, <1>10, <1>13, Zenon DEF Bumped
<1>15. /\ DOMAIN d.tab = DOMAIN s.tab /\ d.tab[src] = u
       /\ \A U \in DOMAIN s.tab \ {dst, src} : d.tab[U] = s.tab[U]
  BY <1>10, <1>13 DEF OnlyTable
<1> QED BY <1>2, <1>5, <1>6, <1>8, <1>9, <1>10, <1>13, <1>14, <1>15, ZenonT(30) DEF d, MergeEffect

-----------------------------------------------------------------------------
(* Each kind of change keeps records, rows and columns in step.            *)

\* What is known of a row.
LEMMA RowFacts ==
  ASSUME NEW tab, IsTab(tab), NEW T \in DOMAIN tab, NEW row \in DOMAIN tab[T].ents
  PROVE  /\ tab[T].ents \in Seq(Ent) /\ tab[T].cols \in [T -> Seq(Value)]
         /\ row \in 1..Len(tab[T].ents) /\ tab[T].ents[row] \in Ent
         /\ tab[T].ents[row][1] \in Indices /\ tab[T].ents[row][2] \in Nat
         /\ tab[T].ents[row] = <<tab[T].ents[row][1], tab[T].ents[row][2]>>
<1>1. tab[T].ents \in Seq(Ent) /\ tab[T].cols \in [T -> Seq(Value)] BY DEF IsTab, IsTable
<1>2. row \in 1..Len(tab[T].ents) /\ tab[T].ents[row] \in Ent BY <1>1
<1> QED BY <1>1, <1>2 DEF Ent

\* Tables whose entities and columns stay, others that are empty and go.
LEMMA RowsKept ==
  ASSUME NEW rec, NEW tab, NEW tab2, NEW X, Rows(rec, tab, X),
         DOMAIN tab2 \subseteq DOMAIN tab,
         \A T \in DOMAIN tab2 : /\ tab2[T].ents = tab[T].ents /\ tab2[T].cols = tab[T].cols
                                /\ Len(tab[T].ents) <= tab2[T].size,
         \A T \in DOMAIN tab \ DOMAIN tab2 : tab[T].ents = <<>>
  PROVE  Rows(rec, tab2, X)
<1>1. ASSUME NEW i \in Indices, rec[i].alive PROVE HasRow(rec, tab2, i)
  BY <1>1 DEF Rows, HasRow
<1>2. ASSUME NEW T \in DOMAIN tab2 PROVE Sized(T, tab2[T])
  BY DEF Rows, Sized
<1>3. ASSUME NEW T \in DOMAIN tab2, NEW row \in DOMAIN tab2[T].ents, <<T, row>> \notin X
      PROVE  AtRow(rec, tab2, T, row)
  BY <1>3 DEF Rows, AtRow
<1> QED BY <1>1, <1>2, <1>3 DEF Rows

\* An empty table more.
LEMMA RowsWithTable ==
  ASSUME NEW rec, NEW tab, NEW tab2, NEW X, Rows(rec, tab, X), NEW T,
         DOMAIN tab2 = DOMAIN tab \cup {T}, \A U \in DOMAIN tab : tab2[U] = tab[U],
         T \notin DOMAIN tab =>
           tab2[T].ents = <<>> /\ tab2[T].cols = NoRows(T) /\ tab2[T].size = 0
  PROVE  Rows(rec, tab2, X)
<1> USE DEF NoRows
<1>1. ASSUME NEW i \in Indices, rec[i].alive PROVE HasRow(rec, tab2, i)
  BY <1>1 DEF Rows, HasRow
<1>2. ASSUME NEW U \in DOMAIN tab2 PROVE Sized(U, tab2[U])
  BY DEF Rows, Sized
<1>3. ASSUME NEW U \in DOMAIN tab2, NEW row \in DOMAIN tab2[U].ents, <<U, row>> \notin X
      PROVE  AtRow(rec, tab2, U, row)
  <2>1. U \in DOMAIN tab BY <1>3
  <2> QED BY <1>3, <2>1 DEF Rows, AtRow
<1> QED BY <1>1, <1>2, <1>3 DEF Rows

LEMMA Concatenated ==
  ASSUME NEW S, NEW R, NEW a \in Seq(S), NEW b \in Seq(R)
  PROVE  /\ Len(a \o b) = Len(a) + Len(b) /\ DOMAIN (a \o b) = 1..Len(a) + Len(b)
         /\ \A k \in 1..Len(a) : (a \o b)[k] = a[k]
         /\ \A k \in 1..Len(b) : (a \o b)[Len(a) + k] = b[k]
<1>1. a \in Seq(S \cup R) /\ b \in Seq(S \cup R) OBVIOUS
<1> QED BY <1>1, ConcatProperties

\* New entities at the end of a table.
LEMMA RowsAppended ==
  ASSUME NEW rec, NEW rec2, NEW tab, IsTab(tab), NEW tab2, Rows(rec, tab, {}),
         NEW T \in DOMAIN tab, NEW es \in Seq(Ent),
         OnlyTable(tab, tab2, T),
         tab2[T].ents = tab[T].ents \o es,
         tab2[T].cols = Extended(T, tab[T].cols, es),
         Len(tab[T].ents) + Len(es) <= tab2[T].size,
         NewRecords(rec, rec2, T, Len(tab[T].ents), es)
  PROVE  Rows(rec2, tab2, {})
<1> USE DEF OnlyTable, NewRecords, Extended
<1> DEFINE n == Len(tab[T].ents)
<1>1. /\ tab[T].ents \in Seq(Ent) /\ n \in Nat /\ DOMAIN tab[T].ents = 1..n
      /\ DOMAIN es = 1..Len(es) /\ Len(es) \in Nat
      /\ tab[T].cols \in [T -> Seq(Value)]
  BY DEF IsTab, IsTable
<1>2. /\ Len(tab2[T].ents) = n + Len(es) /\ DOMAIN tab2[T].ents = 1..n + Len(es)
      /\ \A k \in 1..n : tab2[T].ents[k] = tab[T].ents[k]
      /\ \A k \in 1..Len(es) : tab2[T].ents[n + k] = es[k]
  BY <1>1
<1>3. ASSUME NEW c \in T
      PROVE  /\ Len(tab[T].cols[c]) = n /\ tab[T].cols[c] \in Seq(Value)
             /\ Len(tab2[T].cols[c]) = n + Len(es)
             /\ \A k \in 1..n : tab2[T].cols[c][k] = tab[T].cols[c][k]
             /\ \A k \in 1..Len(es) : tab2[T].cols[c][n + k] = es[k]
  <2>1. Len(tab[T].cols[c]) = n /\ tab[T].cols[c] \in Seq(Value) BY <1>1 DEF Rows, Sized
  <2>2. tab2[T].cols[c] = tab[T].cols[c] \o es OBVIOUS
  <2> DEFINE a == tab[T].cols[c]
             b == tab2[T].cols[c]
  <2>3. a \in Seq(Value) /\ b = a \o es /\ Len(a) = n BY <2>1, <2>2
  <2> HIDE DEF a, b, n
  <2>4. /\ Len(a \o es) = Len(a) + Len(es)
        /\ \A k \in 1..Len(a) : (a \o es)[k] = a[k]
        /\ \A k \in 1..Len(es) : (a \o es)[Len(a) + k] = es[k]
    BY ONLY <2>3, es \in Seq(Ent), Concatenated
  <2>5. Len(b) = n + Len(es) /\ (\A k \in 1..n : b[k] = a[k])
        /\ \A k \in 1..Len(es) : b[n + k] = es[k]
    BY ONLY <2>3, <2>4
  <2> QED BY <2>3, <2>5 DEF a, b
<1>4. ASSUME NEW i \in Indices, rec2[i].alive PROVE HasRow(rec2, tab2, i)
  <2>1. CASE \E k \in DOMAIN es : es[k][1] = i
    <3>1. PICK k \in DOMAIN es : es[k][1] = i BY <2>1
    <3>2. rec2[i] = Record(es[k], T, n + k) /\ es[k] = <<es[k][1], es[k][2]>>
      BY <3>1 DEF Ent
    <3> QED BY <1>1, <1>2, <3>1, <3>2 DEF HasRow, Record
  <2>2. CASE \A k \in DOMAIN es : es[k][1] # i
    <3>1. rec2[i] = rec[i] /\ HasRow(rec, tab, i) BY <1>4, <2>2 DEF Rows
    <3> QED BY <1>1, <1>2, <3>1, ZenonT(30) DEF HasRow
  <2> QED BY <2>1, <2>2
<1>5. ASSUME NEW U \in DOMAIN tab2 PROVE Sized(U, tab2[U])
  <2>1. CASE U = T
    <3>1. \A c \in T : Len(tab2[T].cols[c]) = Len(tab2[T].ents) BY <1>2, <1>3
    <3> QED BY <1>2, <2>1, <3>1 DEF Sized
  <2>2. CASE U # T BY <2>2 DEF Rows
  <2> QED BY <2>1, <2>2
<1>6. ASSUME NEW U \in DOMAIN tab2, NEW row \in DOMAIN tab2[U].ents PROVE AtRow(rec2, tab2, U, row)
  <2>1. ASSUME U = T, row > n PROVE AtRow(rec2, tab2, U, row)
    <3> DEFINE k == row - n
    <3>1. k \in DOMAIN es /\ row = n + k BY <1>1, <1>2, <2>1
    <3>2. tab2[T].ents[row] = es[k] /\ rec2[es[k][1]] = Record(es[k], T, row)
      BY <1>1, <1>2, <3>1
    <3>3. ASSUME NEW c \in T PROVE tab2[T].cols[c][row] = es[k]
      <4>1. k \in 1..Len(es) BY <1>1, <3>1
      <4>2. tab2[T].cols[c][n + k] = es[k] BY <1>3, <4>1
      <4> QED BY <3>1, <4>2
    <3> HIDE DEF k
    <3>4. es[k] = <<es[k][1], es[k][2]>> /\ es[k] \in Ent BY <3>1 DEF Ent
    <3> HIDE DEF n
    <3>5. AtRow(rec2, tab2, T, row)
      BY ONLY <3>2, <3>3 DEF AtRow, AliveIn, Record
    <3> QED BY ONLY <3>5, <2>1
  <2>2. ASSUME U # T \/ row <= n PROVE AtRow(rec2, tab2, U, row)
    <3>1. row \in DOMAIN tab[U].ents /\ tab2[U].ents[row] = tab[U].ents[row]
      BY <1>1, <1>2, <2>2
    <3>2. AtRow(rec, tab, U, row) BY <3>1 DEF Rows
    <3>3. tab[U].ents[row][1] \in Indices BY <3>1, RowFacts
    <3>4. rec2[tab[U].ents[row][1]] = rec[tab[U].ents[row][1]]
      BY <3>2, <3>3, ZenonT(30) DEF AtRow, AliveIn
    <3>5. ASSUME NEW c \in U PROVE tab2[U].cols[c][row] = tab[U].cols[c][row]
      <4>1. CASE U # T BY <4>1
      <4>2. CASE U = T
        <5>1. row \in 1..n BY <1>1, <3>1, <4>2
        <5> QED BY <1>3, <4>2, <5>1, Zenon
      <4> QED BY <4>1, <4>2
    <3> DEFINE e == tab[U].ents[row]
    <3>6. tab2[U].ents[row] = e /\ rec2[e[1]] = rec[e[1]] BY <3>1, <3>4
    <3>7. /\ rec[e[1]].alive /\ rec[e[1]].gen = e[2] /\ rec[e[1]].table = U
          /\ rec[e[1]].row = row /\ \A c \in U : tab[U].cols[c][row] = e
      BY <3>2 DEF AtRow, AliveIn
    <3> HIDE DEF e
    <3> QED BY ONLY <3>5, <3>6, <3>7 DEF AtRow, AliveIn
  <2>3. U = T => row \in Nat /\ n \in Nat BY <1>1, <1>2
  <2> QED BY <2>1, <2>2, <2>3
<1> QED BY <1>4, <1>5, <1>6 DEF Rows

Begun(rec, tab, T, e) ==
  LET n == Len(tab[T].ents)
  IN  Rows(rec, tab, {<<T, n>>}) /\ n > 0 /\ tab[T].ents[n] = e

\* A row for an entity that is being moved, with nothing in its columns yet.
LEMMA RowsBegun ==
  ASSUME NEW rec, NEW tab, IsTab(tab), NEW tab2, Rows(rec, tab, {}),
         NEW T \in DOMAIN tab, NEW e \in Ent,
         OnlyTable(tab, tab2, T),
         tab2[T].ents = tab[T].ents \o <<e>>,
         tab2[T].cols = Extended(T, tab[T].cols, <<Raw>>),
         Len(tab[T].ents) + 1 <= tab2[T].size
  PROVE  Begun(rec, tab2, T, e)
<1> USE DEF OnlyTable, Extended
<1> DEFINE n == Len(tab[T].ents)
<1>1. /\ tab[T].ents \in Seq(Ent) /\ n \in Nat /\ DOMAIN tab[T].ents = 1..n
      /\ tab[T].cols \in [T -> Seq(Value)]
  BY DEF IsTab, IsTable
<1>2. /\ Len(tab2[T].ents) = n + 1 /\ DOMAIN tab2[T].ents = 1..n + 1
      /\ \A k \in 1..n : tab2[T].ents[k] = tab[T].ents[k]
      /\ tab2[T].ents[n + 1] = e
  BY <1>1
<1>3. ASSUME NEW c \in T
      PROVE  /\ Len(tab2[T].cols[c]) = n + 1
             /\ \A k \in 1..n : tab2[T].cols[c][k] = tab[T].cols[c][k]
  <2>1. Len(tab[T].cols[c]) = n /\ tab[T].cols[c] \in Seq(Value) BY <1>1 DEF Rows, Sized
  <2>2. tab2[T].cols[c] = tab[T].cols[c] \o <<Raw>> OBVIOUS
  <2> QED BY <2>1, <2>2
<1>4. ASSUME NEW i \in Indices, rec[i].alive PROVE HasRow(rec, tab2, i)
  <2>1. HasRow(rec, tab, i) BY <1>4 DEF Rows
  <2>2. CASE rec[i].table = T
    <3>1. rec[i].row \in 1..n BY <1>1, <2>1, <2>2 DEF HasRow
    <3>2. rec[i].row \in 1..n + 1 BY <1>1, <3>1
    <3> HIDE DEF n
    <3> QED BY <1>2, <2>1, <2>2, <3>1, <3>2 DEF HasRow
  <2>3. CASE rec[i].table # T BY <2>1, <2>3 DEF HasRow
  <2> QED BY <2>2, <2>3
<1>5. ASSUME NEW U \in DOMAIN tab2 PROVE Sized(U, tab2[U])
  <2>1. CASE U = T
    <3>1. \A c \in T : Len(tab2[T].cols[c]) = Len(tab2[T].ents) BY <1>2, <1>3
    <3> QED BY <1>2, <2>1, <3>1 DEF Sized
  <2>2. CASE U # T BY <2>2 DEF Rows
  <2> QED BY <2>1, <2>2
<1>6. ASSUME NEW U \in DOMAIN tab2, NEW row \in DOMAIN tab2[U].ents, <<U, row>> # <<T, n + 1>>
      PROVE  AtRow(rec, tab2, U, row)
  <2>1. row \in DOMAIN tab[U].ents /\ tab2[U].ents[row] = tab[U].ents[row]
    <3>1. CASE U = T
      <4>1. row \in 1..n + 1 /\ row # n + 1 BY <1>2, <1>6, <3>1
      <4>2. row \in 1..n BY <1>1, <4>1
      <4> HIDE DEF n
      <4> QED BY <1>1, <1>2, <3>1, <4>2
    <3>2. CASE U # T BY <3>2
    <3> QED BY <3>1, <3>2
  <2>2. AtRow(rec, tab, U, row) BY <2>1 DEF Rows
  <2>3. ASSUME NEW c \in U PROVE tab2[U].cols[c][row] = tab[U].cols[c][row]
    <3>1. CASE U # T BY <3>1
    <3>2. CASE U = T
      <4>1. row \in 1..n BY <1>1, <2>1, <3>2
      <4> QED BY <1>3, <3>2, <4>1
    <3> QED BY <3>1, <3>2
  <2> QED BY ONLY <2>1, <2>2, <2>3 DEF AtRow, AliveIn
<1>7. Rows(rec, tab2, {<<T, n + 1>>}) BY <1>4, <1>5, <1>6 DEF Rows
<1> QED BY <1>1, <1>2, <1>7 DEF Begun

NoneAt(rec, T, row) ==
  \A i \in Indices : rec[i].alive => ~(rec[i].table = T /\ rec[i].row = row)

\* The last row takes the place of one that no record points to.
LEMMA RowsDeleted ==
  ASSUME NEW rec \in [Indices -> RecType], NEW tab, IsTab(tab), NEW rec2, NEW tab2,
         NEW T \in DOMAIN tab, NEW row \in DOMAIN tab[T].ents, Rows(rec, tab, {<<T, row>>}),
         NoneAt(rec, T, row),
         OnlyTable(tab, tab2, T),
         tab2[T].ents = SwapRemove(tab[T].ents, row),
         tab2[T].cols = Shortened(T, tab[T].cols, row),
         tab2[T].size = tab[T].size,
         rec2 = LastMoved(rec, tab[T].ents, row)
  PROVE  Rows(rec2, tab2, {})
<1> USE DEF OnlyTable, Shortened, NoneAt, LastMoved
<1> DEFINE n == Len(tab[T].ents)
           last == tab[T].ents[n][1]
<1>1. /\ tab[T].ents \in Seq(Ent) /\ n \in Nat /\ DOMAIN tab[T].ents = 1..n /\ n > 0
      /\ row \in 1..n /\ tab[T].cols \in [T -> Seq(Value)] /\ tab[T].size \in Nat
      /\ last \in Indices
  <2>1. /\ tab[T].ents \in Seq(Ent) /\ tab[T].cols \in [T -> Seq(Value)]
        /\ tab[T].size \in Nat
    BY DEF IsTab, IsTable
  <2>2. n \in Nat /\ DOMAIN tab[T].ents = 1..n /\ row \in 1..n /\ n > 0 BY <2>1
  <2>3. n \in DOMAIN tab[T].ents BY <2>2
  <2>4. last \in Indices BY <2>3, RowFacts
  <2> QED BY <2>1, <2>2, <2>4
<1>2. /\ Len(tab2[T].ents) = n - 1 /\ DOMAIN tab2[T].ents = 1..n - 1
      /\ \A k \in 1..n - 1 : tab2[T].ents[k] = IF k = row THEN tab[T].ents[n] ELSE tab[T].ents[k]
  <2> DEFINE q == SwapRemove(tab[T].ents, row)
  <2>1. /\ q \in Seq(Ent) /\ Len(q) = n - 1
        /\ \A k \in 1..n - 1 : q[k] = IF k = row THEN tab[T].ents[n] ELSE tab[T].ents[k]
    BY <1>1, SwapRemoved, ZenonT(30)
  <2>2. tab2[T].ents = q OBVIOUS
  <2> HIDE DEF q, n
  <2> QED BY ONLY <2>1, <2>2
<1>3. ASSUME NEW c \in T
      PROVE  /\ Len(tab2[T].cols[c]) = n - 1
             /\ \A k \in 1..n - 1 :
                  tab2[T].cols[c][k] = IF k = row THEN tab[T].cols[c][n] ELSE tab[T].cols[c][k]
  <2>1. Len(tab[T].cols[c]) = n /\ tab[T].cols[c] \in Seq(Value) BY <1>1 DEF Rows, Sized
  <2>2. tab2[T].cols[c] = SwapRemove(tab[T].cols[c], row) OBVIOUS
  <2> DEFINE p == tab[T].cols[c]
             q == SwapRemove(p, row)
  <2>3. row \in DOMAIN p /\ p \in Seq(Value) /\ Len(p) = n BY <1>1, <2>1
  <2>4. tab2[T].cols[c] = q BY <2>2
  <2> HIDE DEF p, n
  <2>5. /\ Len(q) = n - 1 /\ \A k \in 1..n - 1 : q[k] = IF k = row THEN p[n] ELSE p[k]
    BY ONLY <2>3, SwapRemoved
  <2> HIDE DEF q
  <2> QED BY ONLY <2>4, <2>5 DEF p
<1>4. /\ \A i \in Indices : /\ rec2[i].alive = rec[i].alive /\ rec2[i].gen = rec[i].gen
                            /\ rec2[i].table = rec[i].table
                            /\ (i # last \/ row = n) => rec2[i].row = rec[i].row
      /\ row # n => rec2[last].row = row
  BY <1>1 DEF RecType
<1>5. row # n => /\ AliveIn(rec, tab[T].ents[n]) /\ rec[last].table = T /\ rec[last].row = n
                 /\ \A c \in T : tab[T].cols[c][n] = tab[T].ents[n]
  BY <1>1 DEF Rows, AtRow
<1> HIDE DEF n, last
<1>6. ASSUME NEW i \in Indices, rec2[i].alive PROVE HasRow(rec2, tab2, i)
  <2>1. HasRow(rec, tab, i) /\ rec[i].alive BY <1>4, <1>6 DEF Rows
  <2>2. rec[i].table = T => rec[i].row # row /\ rec[i].row \in 1..n BY <1>1, <2>1 DEF HasRow
  <2>3. CASE i = last /\ row # n
    <3>1. row \in 1..n - 1 BY <1>1, <2>3
    <3>2. rec2[i].row = row /\ rec2[i].table = T /\ rec2[i].gen = rec[i].gen
      BY <1>4, <1>5, <2>3
    <3>3. tab2[T].ents[row] = tab[T].ents[n] /\ row \in DOMAIN tab2[T].ents BY <1>2, <3>1
    <3>4. tab[T].ents[n] = <<i, rec[i].gen>> BY <1>5, <2>1, <2>3 DEF HasRow
    <3> QED BY <3>2, <3>3, <3>4, Zenon DEF HasRow
  <2>4. CASE i # last \/ row = n
    <3>1. CASE rec[i].table = T
      <4>1. rec[i].row # n
        <5>1. CASE row = n BY <2>2, <3>1, <5>1
        <5>2. CASE row # n
          <6>1. tab[T].ents[rec[i].row][1] = i BY <2>1, <3>1 DEF HasRow
          <6> QED BY <2>4, <5>2, <6>1 DEF last
        <5> QED BY <5>1, <5>2
      <4> DEFINE k == rec[i].row
      <4>2. rec2[i].row = k /\ rec2[i].table = T /\ rec2[i].gen = rec[i].gen
        BY <1>4, <2>4, <3>1
      <4>3. tab[T].ents[k] = <<i, rec[i].gen>> BY <2>1, <3>1 DEF HasRow
      <4>4. k \in 1..n /\ k # n /\ k # row BY <2>2, <3>1, <4>1
      <4> HIDE DEF k
      <4>5. k \in 1..n - 1 BY <1>1, <4>4
      <4>6. tab2[T].ents[k] = tab[T].ents[k] /\ k \in DOMAIN tab2[T].ents
        BY <1>2, <4>4, <4>5
      <4> QED BY <4>2, <4>3, <4>6, Zenon DEF HasRow
    <3>2. CASE rec[i].table # T
      <4>1. tab2[rec[i].table] = tab[rec[i].table] BY <2>1, <3>2 DEF HasRow
      <4>2. rec2[i].row = rec[i].row /\ rec2[i].table = rec[i].table /\ rec2[i].gen = rec[i].gen
        BY <1>4, <2>4
      <4> QED BY ONLY DOMAIN tab2 = DOMAIN tab, <2>1, <4>1, <4>2 DEF HasRow
    <3> QED BY <3>1, <3>2
  <2> QED BY <2>3, <2>4
<1>7. ASSUME NEW U \in DOMAIN tab2 PROVE Sized(U, tab2[U])
  <2>1. CASE U = T
    <3>1. \A c \in T : Len(tab2[T].cols[c]) = Len(tab2[T].ents) BY <1>2, <1>3
    <3>2. n <= tab[T].size BY DEF Rows, Sized, n
    <3>3. Len(tab2[T].ents) <= tab2[T].size BY <1>1, <1>2, <3>2
    <3> QED BY <2>1, <3>1, <3>3 DEF Sized
  <2>2. CASE U # T BY <2>2 DEF Rows
  <2> QED BY <2>1, <2>2
<1>8. ASSUME NEW U \in DOMAIN tab2, NEW k \in DOMAIN tab2[U].ents PROVE AtRow(rec2, tab2, U, k)
  <2>1. CASE U = T /\ k = row
    <3>1. row \in 1..n - 1 /\ row # n BY <1>1, <1>2, <2>1
    <3> DEFINE e == tab[T].ents[n]
    <3>2. tab2[T].ents[row] = e /\ e[1] = last BY <1>2, <3>1 DEF last
    <3>3. \A c \in T : tab2[T].cols[c][row] = e BY <1>3, <1>5, <3>1
    <3>4. AliveIn(rec, e) /\ rec[last].table = T BY <1>5, <3>1
    <3> HIDE DEF e
    <3>5. AliveIn(rec2, e) /\ rec2[last].table = T /\ rec2[last].row = row
      <4>1. e[1] = last /\ last \in Indices /\ row # n BY <1>1, <3>1, <3>2
      <4>2. /\ rec2[last].alive = rec[last].alive /\ rec2[last].gen = rec[last].gen
            /\ rec2[last].table = rec[last].table /\ rec2[last].row = row
        BY <1>4, <4>1
      <4> QED BY ONLY <3>4, <4>1, <4>2 DEF AliveIn
    <3> QED BY <2>1, <3>2, <3>3, <3>5, Zenon DEF AtRow
  <2>2. CASE ~(U = T /\ k = row)
    <3> DEFINE e == tab[U].ents[k]
    <3>1. U \in DOMAIN tab /\ k \in DOMAIN tab[U].ents /\ tab2[U].ents[k] = e
          /\ (U = T => k \in 1..n - 1)
      BY <1>1, <1>2, <2>2
    <3>2. AtRow(rec, tab, U, k) BY <2>2, <3>1 DEF Rows
    <3>3. e[1] \in Indices BY <3>1, RowFacts
    <3>4. ASSUME NEW c \in U PROVE tab2[U].cols[c][k] = e
      <4>1. tab[U].cols[c][k] = e BY <3>2 DEF AtRow
      <4>2. CASE U # T BY <3>1, <4>1, <4>2
      <4>3. CASE U = T BY <1>3, <2>2, <3>1, <4>1, <4>3
      <4> QED BY <4>2, <4>3
    <3>5. AliveIn(rec, e) /\ rec[e[1]].table = U /\ rec[e[1]].row = k BY <3>2 DEF AtRow
    <3>6. e[1] # last \/ row = n
      <4> SUFFICES ASSUME e[1] = last, row # n PROVE FALSE OBVIOUS
      <4>1. U = T /\ k = n BY <1>5, <3>5
      <4> QED BY <1>1, <3>1, <4>1
    <3> HIDE DEF e
    <3>7. AliveIn(rec2, e) /\ rec2[e[1]].table = U /\ rec2[e[1]].row = k
      <4>1. /\ rec2[e[1]].alive = rec[e[1]].alive /\ rec2[e[1]].gen = rec[e[1]].gen
            /\ rec2[e[1]].table = rec[e[1]].table /\ rec2[e[1]].row = rec[e[1]].row
        BY <1>4, <3>3, <3>6
      <4> QED BY ONLY <3>5, <4>1 DEF AliveIn
    <3> QED BY <3>1, <3>4, <3>7 DEF AtRow
  <2> QED BY <2>1, <2>2
<1> QED BY <1>6, <1>7, <1>8, Zenon DEF Rows

\* All rows of src move to the end of dst.
LEMMA RowsMerged ==
  ASSUME NEW rec \in [Indices -> RecType], NEW tab, IsTab(tab), NEW tab2, Rows(rec, tab, {}),
         NEW dst \in DOMAIN tab, NEW src \in DOMAIN tab, dst # src, dst \subseteq src,
         DOMAIN tab2 = DOMAIN tab, \A U \in DOMAIN tab \ {dst, src} : tab2[U] = tab[U],
         tab2[dst].ents = tab[dst].ents \o tab[src].ents,
         tab2[dst].cols = Joined(dst, tab[dst].cols, tab[src].cols),
         Len(tab[dst].ents) + Len(tab[src].ents) <= tab2[dst].size,
         tab2[src].ents = <<>>, tab2[src].cols = NoRows(src), tab2[src].size = 0
  PROVE  Rows(MovedRec(rec, tab[src].ents, dst, Len(tab[dst].ents)), tab2, {})
<1> USE DEF NoRows, Joined
<1> DEFINE n == Len(tab[dst].ents)
           m == Len(tab[src].ents)
           rec2 == MovedRec(rec, tab[src].ents, dst, n)
<1>1. /\ tab[dst].ents \in Seq(Ent) /\ n \in Nat /\ DOMAIN tab[dst].ents = 1..n
      /\ tab[dst].cols \in [dst -> Seq(Value)]
      /\ tab[src].ents \in Seq(Ent) /\ m \in Nat /\ DOMAIN tab[src].ents = 1..m
      /\ tab[src].cols \in [src -> Seq(Value)]
  BY DEF IsTab, IsTable
<1>2. /\ Len(tab2[dst].ents) = n + m /\ DOMAIN tab2[dst].ents = 1..n + m
      /\ \A k \in 1..n : tab2[dst].ents[k] = tab[dst].ents[k]
      /\ \A k \in 1..m : tab2[dst].ents[n + k] = tab[src].ents[k]
  <2> DEFINE a == tab[dst].ents
             b == tab[src].ents
  <2>1. tab2[dst].ents = a \o b OBVIOUS
  <2>2. a \in Seq(Ent) /\ b \in Seq(Ent) BY <1>1
  <2> HIDE DEF a, b
  <2>3. /\ Len(a \o b) = Len(a) + Len(b) /\ DOMAIN (a \o b) = 1..Len(a) + Len(b)
        /\ \A k \in 1..Len(a) : (a \o b)[k] = a[k]
        /\ \A k \in 1..Len(b) : (a \o b)[Len(a) + k] = b[k]
    BY ONLY <2>2, Concatenated
  <2> QED BY ONLY <2>1, <2>3 DEF a, b
<1>3. ASSUME NEW c \in dst
      PROVE  /\ Len(tab2[dst].cols[c]) = n + m
             /\ \A k \in 1..n : tab2[dst].cols[c][k] = tab[dst].cols[c][k]
             /\ \A k \in 1..m : tab2[dst].cols[c][n + k] = tab[src].cols[c][k]
  <2> DEFINE a == tab[dst].cols[c]
             b == tab[src].cols[c]
  <2>1. tab2[dst].cols[c] = a \o b OBVIOUS
  <2>2. a \in Seq(Value) /\ b \in Seq(Value) BY <1>1
  <2>3. Len(a) = n /\ Len(b) = m BY DEF Rows, Sized
  <2> HIDE DEF a, b, n, m
  <2>4. /\ Len(a \o b) = Len(a) + Len(b) /\ DOMAIN (a \o b) = 1..Len(a) + Len(b)
        /\ \A k \in 1..Len(a) : (a \o b)[k] = a[k]
        /\ \A k \in 1..Len(b) : (a \o b)[Len(a) + k] = b[k]
    BY ONLY <2>2, Concatenated
  <2> QED BY ONLY <2>1, <2>3, <2>4 DEF a, b
\* The entities in the rows of src are those whose record names it.
<1>4. \A k \in 1..m : LET e == tab[src].ents[k] IN
        /\ e \in Ent /\ e[1] \in Indices /\ AliveIn(rec, e)
        /\ rec[e[1]].table = src /\ rec[e[1]].row = k
        /\ \A c \in src : tab[src].cols[c][k] = e
  <2> TAKE k \in 1..m
  <2>1. k \in DOMAIN tab[src].ents BY <1>1
  <2> QED BY <2>1, RowFacts DEF Rows, AtRow
<1>5. \A i \in Indices :
        IF \E k \in 1..m : tab[src].ents[k][1] = i
        THEN /\ rec2[i].alive = rec[i].alive /\ rec2[i].gen = rec[i].gen
             /\ rec2[i].table = dst /\ rec2[i].row = n + rec[i].row
        ELSE rec2[i] = rec[i]
  <2> TAKE i \in Indices
  <2> HIDE DEF n
  <2>1. rec2[i] = IF \E k \in 1..m : tab[src].ents[k][1] = i
                  THEN [rec[i] EXCEPT !.table = dst, !.row = n + @] ELSE rec[i]
    BY <1>1 DEF MovedRec
  <2>2. rec[i] \in RecType OBVIOUS
  <2> HIDE DEF rec2
  <2> QED BY <2>1, <2>2 DEF RecType
<1> HIDE DEF n, m, rec2
<1>6. ASSUME NEW i \in Indices, rec2[i].alive PROVE HasRow(rec2, tab2, i)
  <2>1. CASE \E k \in 1..m : tab[src].ents[k][1] = i
    <3>1. PICK k \in 1..m : tab[src].ents[k][1] = i BY <2>1
    <3>2. rec[i].row = k /\ rec[i].gen = tab[src].ents[k][2] BY <1>4, <3>1 DEF AliveIn
    <3>3. rec2[i].table = dst /\ rec2[i].row = n + k /\ rec2[i].gen = rec[i].gen
      BY <1>5, <2>1, <3>2
    <3>4. n + k \in DOMAIN tab2[dst].ents /\ tab2[dst].ents[n + k] = tab[src].ents[k]
      <4>1. n + k \in 1..n + m BY <1>1
      <4> QED BY <1>2, <4>1
    <3>5. tab[src].ents[k] = <<i, rec[i].gen>> BY <1>4, <3>1, <3>2 DEF Ent
    <3> QED BY <3>3, <3>4, <3>5 DEF HasRow
  <2>2. CASE ~ \E k \in 1..m : tab[src].ents[k][1] = i
    <3> DEFINE r == rec[i]
    <3>1. rec2[i] = r BY <1>5, <2>2
    <3>2. HasRow(rec, tab, i) BY <1>6, <3>1 DEF Rows
    <3>3. r.table # src
      <4> SUFFICES ASSUME r.table = src PROVE FALSE OBVIOUS
      <4>1. r.row \in 1..m /\ tab[src].ents[r.row][1] = i BY <1>1, <3>2 DEF HasRow
      <4> QED BY <2>2, <4>1
    <3>4. CASE r.table = dst
      <4>1. r.row \in 1..n /\ tab[dst].ents[r.row] = <<i, r.gen>> BY <1>1, <3>2, <3>4 DEF HasRow
      <4> HIDE DEF r
      <4>2. r.row \in DOMAIN tab2[dst].ents /\ tab2[dst].ents[r.row] = <<i, r.gen>>
        <5>1. r.row \in 1..n + m BY <1>1, <4>1
        <5> QED BY <1>2, <4>1, <5>1
      <4> QED BY <3>1, <3>4, <4>2 DEF HasRow
    <3>5. CASE r.table # dst
      <4>1. r.table \in DOMAIN tab /\ r.row \in DOMAIN tab[r.table].ents
            /\ tab[r.table].ents[r.row] = <<i, r.gen>>
        BY <3>2 DEF HasRow
      <4> HIDE DEF r
      <4>2. tab2[r.table] = tab[r.table] BY <3>3, <3>5, <4>1
      <4> QED BY <3>1, <4>1, <4>2 DEF HasRow
    <3> QED BY <3>4, <3>5
  <2> QED BY <2>1, <2>2
<1>7. ASSUME NEW U \in DOMAIN tab2 PROVE Sized(U, tab2[U])
  <2>1. CASE U = dst
    <3>1. \A c \in dst : Len(tab2[dst].cols[c]) = Len(tab2[dst].ents) BY <1>2, <1>3
    <3>2. Len(tab2[dst].ents) <= tab2[dst].size BY <1>2 DEF n, m
    <3> QED BY <2>1, <3>1, <3>2 DEF Sized
  <2>2. CASE U = src BY <2>2 DEF Sized
  <2>3. CASE U \notin {dst, src} BY <2>3 DEF Rows
  <2> QED BY <2>1, <2>2, <2>3
<1>8. ASSUME NEW U \in DOMAIN tab2, NEW row \in DOMAIN tab2[U].ents PROVE AtRow(rec2, tab2, U, row)
  <2>1. U # src OBVIOUS
  <2>2. CASE U = dst /\ row \notin 1..n
    <3> DEFINE k == row - n
               e == tab[src].ents[k]
    <3>1. k \in 1..m /\ row = n + k
      <4>1. row \in 1..n + m BY <1>2, <2>2
      <4> QED BY <1>1, <2>2, <4>1
    <3> HIDE DEF k
    <3>2. tab2[dst].ents[row] = e BY <1>2, <3>1
    <3>3. ASSUME NEW c \in dst PROVE tab2[dst].cols[c][row] = e
      <4>1. tab[src].cols[c][k] = e BY <1>4, <3>1
      <4>2. tab2[dst].cols[c][n + k] = tab[src].cols[c][k] BY <1>3, <3>1
      <4> QED BY ONLY <3>1, <4>1, <4>2
    <3>4. e[1] \in Indices /\ AliveIn(rec, e) /\ rec[e[1]].row = k BY <1>4, <3>1
    <3>5. AliveIn(rec2, e) /\ rec2[e[1]].table = dst /\ rec2[e[1]].row = row
      BY <1>5, <3>1, <3>4 DEF AliveIn
    <3> HIDE DEF e
    <3> QED BY <2>2, <3>2, <3>3, <3>5 DEF AtRow
  <2>3. CASE U = dst => row \in 1..n
    <3> DEFINE e == tab[U].ents[row]
    <3>1. row \in DOMAIN tab[U].ents /\ tab2[U].ents[row] = e BY <1>1, <1>2, <2>1, <2>3
    <3>2. AtRow(rec, tab, U, row) /\ e[1] \in Indices BY <3>1, RowFacts DEF Rows
    <3>3. ASSUME NEW c \in U PROVE tab2[U].cols[c][row] = e
      <4>1. tab[U].cols[c][row] = e BY <3>2 DEF AtRow
      <4>2. CASE U = dst BY <1>3, <2>3, <4>1, <4>2
      <4>3. CASE U # dst BY <2>1, <4>1, <4>3
      <4> QED BY <4>2, <4>3
    <3>4. AliveIn(rec, e) /\ rec[e[1]].table = U /\ rec[e[1]].row = row BY <3>2 DEF AtRow
    <3>5. rec2[e[1]] = rec[e[1]] BY <1>4, <1>5, <2>1, <3>2, <3>4
    <3> HIDE DEF e
    <3> QED BY <3>1, <3>3, <3>4, <3>5 DEF AtRow, AliveIn
  <2> QED BY <2>2, <2>3
<1> QED BY <1>6, <1>7, <1>8 DEF Rows, rec2, n

\* All entities of T are deleted.
LEMMA RowsCleared ==
  ASSUME NEW rec \in [Indices -> RecType], NEW tab, IsTab(tab), NEW tab2, Rows(rec, tab, {}),
         NEW T \in DOMAIN tab,
         OnlyTable(tab, tab2, T),
         tab2[T].ents = <<>>, tab2[T].cols = NoRows(T), tab2[T].size \in Nat
  PROVE  Rows(Forgotten(rec, tab[T].ents), tab2, {})
<1> USE DEF OnlyTable, NoRows
<1> DEFINE rec2 == Forgotten(rec, tab[T].ents)
           Has(i) == \E k \in DOMAIN tab[T].ents : tab[T].ents[k][1] = i
<1>1. \A i \in Indices : IF Has(i) THEN ~rec2[i].alive ELSE rec2[i] = rec[i] BY DEF Forgotten
<1> HIDE DEF rec2
<1>2. ASSUME NEW i \in Indices, rec2[i].alive PROVE HasRow(rec2, tab2, i)
  <2>1. ~Has(i) /\ rec2[i] = rec[i] BY <1>1, <1>2
  <2>2. HasRow(rec, tab, i) BY <1>2, <2>1 DEF Rows
  <2>3. rec[i].table # T BY <2>1, <2>2 DEF HasRow
  <2> HIDE DEF Has
  <2>4. tab2[rec[i].table] = tab[rec[i].table] BY <2>2, <2>3 DEF HasRow
  <2> QED BY ONLY DOMAIN tab2 = DOMAIN tab, <2>1, <2>2, <2>4 DEF HasRow
<1>3. ASSUME NEW U \in DOMAIN tab2 PROVE Sized(U, tab2[U])
  <2>1. CASE U = T BY <2>1 DEF Sized
  <2>2. CASE U # T BY <2>2 DEF Rows
  <2> QED BY <2>1, <2>2
<1>4. ASSUME NEW U \in DOMAIN tab2, NEW row \in DOMAIN tab2[U].ents PROVE AtRow(rec2, tab2, U, row)
  <2> DEFINE e == tab[U].ents[row]
  <2>1. U # T OBVIOUS
  <2>2. tab2[U] = tab[U] BY <2>1
  <2>3. AtRow(rec, tab, U, row) BY <2>2 DEF Rows
  <2>4. e[1] \in Indices BY <2>2, RowFacts
  <2>5. ~Has(e[1])
    <3> SUFFICES ASSUME NEW k \in DOMAIN tab[T].ents, tab[T].ents[k][1] = e[1] PROVE FALSE OBVIOUS
    <3>1. AtRow(rec, tab, T, k) BY DEF Rows
    <3> QED BY <2>1, <2>3, <3>1 DEF AtRow
  <2>6. rec2[e[1]] = rec[e[1]] BY <1>1, <2>4, <2>5
  <2> QED BY ONLY <2>2, <2>3, <2>6 DEF AtRow, AliveIn
<1> QED BY <1>2, <1>3, <1>4 DEF Rows, rec2

LEMMA Exchanged ==
  ASSUME NEW S, NEW seq \in Seq(S), NEW j \in DOMAIN seq, NEW k \in DOMAIN seq, j # k
  PROVE  /\ Exchange(seq, j, k) \in Seq(S)
         /\ Len(Exchange(seq, j, k)) = Len(seq)
         /\ \A n \in DOMAIN seq : Exchange(seq, j, k)[n] =
              IF n = j THEN seq[k] ELSE IF n = k THEN seq[j] ELSE seq[n]
BY DEF Exchange

SwappedRecs(rec, ents, j, k) == [rec EXCEPT ![ents[j][1]].row = k, ![ents[k][1]].row = j]

\* Two rows change places.
LEMMA RowsSwapped ==
  ASSUME NEW rec \in [Indices -> RecType], NEW tab, IsTab(tab), NEW rec2, NEW tab2,
         NEW T \in DOMAIN tab, NEW j \in DOMAIN tab[T].ents, NEW k \in DOMAIN tab[T].ents, j # k,
         Rows(rec, tab, {}),
         OnlyTable(tab, tab2, T),
         tab2[T].ents = Exchange(tab[T].ents, j, k),
         tab2[T].cols = Swapped(T, tab[T].cols, j, k),
         tab2[T].size = tab[T].size,
         rec2 = SwappedRecs(rec, tab[T].ents, j, k)
  PROVE  Rows(rec2, tab2, {})
<1> USE DEF OnlyTable, SwappedRecs, Swapped
<1> DEFINE D == DOMAIN tab[T].ents
           a == tab[T].ents[j][1]
           b == tab[T].ents[k][1]
           At(n) == IF n = j THEN k ELSE IF n = k THEN j ELSE n
<1>1. tab[T].ents \in Seq(Ent) /\ tab[T].cols \in [T -> Seq(Value)] BY DEF IsTab, IsTable
<1>2. /\ DOMAIN tab2[T].ents = D /\ Len(tab2[T].ents) = Len(tab[T].ents)
      /\ \A n \in D : tab2[T].ents[n] = tab[T].ents[At(n)] /\ At(n) \in D
  <2> DEFINE q == tab[T].ents
             x == Exchange(q, j, k)
  <2>1. /\ x \in Seq(Ent) /\ Len(x) = Len(q)
        /\ \A n \in DOMAIN q : x[n] = IF n = j THEN q[k] ELSE IF n = k THEN q[j] ELSE q[n]
    BY ONLY <1>1, j \in DOMAIN q, k \in DOMAIN q, j # k, Exchanged
  <2>2. tab2[T].ents = x OBVIOUS
  <2>3. q \in Seq(Ent) /\ j \in DOMAIN q /\ k \in DOMAIN q BY <1>1
  <2> HIDE DEF q, x
  <2> QED BY ONLY <2>1, <2>2, <2>3 DEF q
<1>3. ASSUME NEW c \in T
      PROVE  /\ Len(tab2[T].cols[c]) = Len(tab2[T].ents)
             /\ \A n \in D : tab2[T].cols[c][n] = tab[T].cols[c][At(n)]
  <2> DEFINE q == tab[T].cols[c]
             x == Exchange(q, j, k)
  <2>1. q \in Seq(Value) /\ DOMAIN q = D /\ Len(q) = Len(tab[T].ents)
    BY <1>1 DEF Rows, Sized
  <2>2. tab2[T].cols[c] = x OBVIOUS
  <2> HIDE DEF q
  <2>3. /\ x \in Seq(Value) /\ Len(x) = Len(q)
        /\ \A n \in DOMAIN q : x[n] = IF n = j THEN q[k] ELSE IF n = k THEN q[j] ELSE q[n]
    BY <2>1, Exchanged
  <2> HIDE DEF x, D
  <2> QED BY ONLY <1>2, <2>1, <2>2, <2>3 DEF q
<1>4. \A n \in D : LET e == tab[T].ents[n] IN
        /\ e \in Ent /\ e[1] \in Indices /\ AliveIn(rec, e) /\ rec[e[1]].table = T /\ rec[e[1]].row = n
        /\ \A c \in T : tab[T].cols[c][n] = e
  BY RowFacts DEF Rows, AtRow
<1>5. /\ a \in Indices /\ b \in Indices /\ a # b
      /\ rec[a].table = T /\ rec[a].row = j /\ rec[b].table = T /\ rec[b].row = k
  BY <1>4
<1>6. /\ \A i \in Indices : /\ (rec2[i].alive <=> rec[i].alive) /\ rec2[i].gen = rec[i].gen
                            /\ rec2[i].table = rec[i].table
                            /\ i \notin {a, b} => rec2[i].row = rec[i].row
      /\ rec2[a].row = k /\ rec2[b].row = j
  BY <1>5, ZenonT(30) DEF RecType
<1> HIDE DEF D, a, b
\* The record of an entity of T is where its row now is.
<1>7. ASSUME NEW i \in Indices, rec[i].table = T, HasRow(rec, tab, i)
      PROVE  rec2[i].row = At(rec[i].row) /\ rec[i].row \in D
  <2>1. rec[i].row \in D /\ tab[T].ents[rec[i].row][1] = i BY <1>7 DEF HasRow, D
  <2>2. i = a <=> rec[i].row = j BY <1>5, <2>1 DEF a
  <2>3. i = b <=> rec[i].row = k BY <1>5, <2>1 DEF b
  <2>4. CASE i = a BY <1>6, <2>1, <2>2, <2>4, Zenon
  <2>5. CASE i = b /\ i # a BY <1>6, <2>1, <2>2, <2>3, <2>5, Zenon
  <2>6. CASE i # a /\ i # b
    <3>1. rec2[i].row = rec[i].row BY <1>6, <2>6, Zenon
    <3>2. rec[i].row # j /\ rec[i].row # k BY <2>2, <2>3, <2>6
    <3> QED BY ONLY <2>1, <3>1, <3>2
  <2> QED BY <2>4, <2>5, <2>6
<1>8. \A n \in D : At(n) \in D /\ At(At(n)) = n BY DEF D
<1>9. ASSUME NEW i \in Indices, rec2[i].alive PROVE HasRow(rec2, tab2, i)
  <2>1. HasRow(rec, tab, i) BY <1>6, <1>9, Zenon DEF Rows
  <2>2. CASE rec[i].table = T
    <3> DEFINE n == rec[i].row
    <3>1. rec2[i].row = At(n) /\ n \in D BY <1>7, <2>1, <2>2
    <3>2. tab[T].ents[n] = <<i, rec[i].gen>> BY <2>1, <2>2 DEF HasRow
    <3> HIDE DEF n
    <3>3. tab2[T].ents[At(n)] = tab[T].ents[n] /\ At(n) \in DOMAIN tab2[T].ents
      BY <1>2, <1>8, <3>1
    <3>4. rec2[i].gen = rec[i].gen /\ rec2[i].table = T BY <1>6, <2>2, Zenon
    <3> HIDE DEF At
    <3> QED BY ONLY DOMAIN tab2 = DOMAIN tab, T \in DOMAIN tab, <3>1, <3>2, <3>3, <3>4 DEF HasRow
  <2>3. CASE rec[i].table # T
    <3>1. tab2[rec[i].table] = tab[rec[i].table] BY <2>1, <2>3 DEF HasRow
    <3>2. rec2[i].row = rec[i].row BY <1>5, <1>6, <2>3, Zenon
    <3>3. rec2[i].table = rec[i].table /\ rec2[i].gen = rec[i].gen BY <1>6, Zenon
    <3> QED BY ONLY DOMAIN tab2 = DOMAIN tab, <2>1, <3>1, <3>2, <3>3 DEF HasRow
  <2> QED BY <2>2, <2>3
<1>10. ASSUME NEW U \in DOMAIN tab2 PROVE Sized(U, tab2[U])
  <2>1. CASE U = T
    <3>1. Len(tab2[T].ents) <= tab2[T].size BY <1>2 DEF Rows, Sized
    <3> QED BY <1>3, <2>1, <3>1 DEF Sized
  <2>2. CASE U # T BY <2>2 DEF Rows
  <2> QED BY <2>1, <2>2
<1>11. ASSUME NEW U \in DOMAIN tab2, NEW row \in DOMAIN tab2[U].ents PROVE AtRow(rec2, tab2, U, row)
  <2>1. CASE U = T
    <3> DEFINE n == At(row)
               e == tab[T].ents[n]
    <3>1. n \in D /\ row \in D /\ At(n) = row /\ tab2[T].ents[row] = e BY <1>2, <1>8, <2>1
    <3> HIDE DEF n
    <3>2. ASSUME NEW c \in T PROVE tab2[T].cols[c][row] = e
      <4>1. tab[T].cols[c][n] = e BY <1>4, <3>1
      <4> QED BY <1>3, <3>1, <4>1 DEF n
    <3>3. e[1] \in Indices /\ AliveIn(rec, e) /\ rec[e[1]].table = T /\ rec[e[1]].row = n
      BY <1>4, <3>1
    <3>4. HasRow(rec, tab, e[1]) BY <3>3 DEF Rows, AliveIn
    <3> HIDE DEF e
    <3>5. rec2[e[1]].row = row
      <4>1. rec2[e[1]].row = At(rec[e[1]].row) BY <1>7, <3>3, <3>4
      <4> QED BY ONLY <3>1, <3>3, <4>1
    <3>6. AliveIn(rec2, e) /\ rec2[e[1]].table = T BY <1>6, <3>3, Zenon DEF AliveIn
    <3> QED BY <2>1, <3>1, <3>2, <3>5, <3>6, Zenon DEF AtRow
  <2>2. CASE U # T
    <3> DEFINE e == tab[U].ents[row]
    <3>1. tab2[U] = tab[U] BY <2>2
    <3>2. AtRow(rec, tab, U, row) /\ e[1] \in Indices BY <3>1, RowFacts DEF Rows
    <3>3. rec[e[1]].table = U /\ rec[e[1]].row = row /\ AliveIn(rec, e) BY <3>2 DEF AtRow
    <3>4. e[1] \notin {a, b} BY <1>5, <2>2, <3>3
    <3>5. AliveIn(rec2, e) /\ rec2[e[1]].table = U /\ rec2[e[1]].row = row
      BY <1>6, <3>2, <3>3, <3>4, Zenon DEF AliveIn
    <3> QED BY ONLY <3>1, <3>2, <3>5 DEF AtRow
  <2> QED BY <2>1, <2>2
<1> QED BY <1>9, <1>10, <1>11, Zenon DEF Rows

-----------------------------------------------------------------------------
(* Every action keeps the invariant of the rows.                           *)

LEMMA IdleState ==
  ASSUME NEW s, IsStore(s), Root \in DOMAIN s.tab, Rows(s.rec, s.tab, {})
  PROVE  RowsState(s, Idle)
BY DEF RowsState, Moving, OpInv, Idle, Ops

LEMMA IdleFacts ==
  ASSUME RowsInv, op = Idle
  PROVE  IsStore(store) /\ Root \in DOMAIN store.tab /\ Rows(store.rec, store.tab, {})
BY DEF RowsInv, RowsState, Moving, Idle

LEMMA SizeForBound ==
  ASSUME NEW s, IsStore(s), NEW T \in DOMAIN s.tab, Sized(T, s.tab[T])
  PROVE  SizeFor(s, T) \in Nat /\ SizeFor(s, T) >= Len(s.tab[T].ents) + 1
<1> DEFINE n == Len(s.tab[T].ents)
           size == s.tab[T].size
<1>1. n \in Nat /\ size \in Nat /\ n <= size
  <2>1. s.tab[T].ents \in Seq(Ent) /\ size \in Nat BY TableIn
  <2> QED BY <2>1 DEF Sized
<1>2. SizeFor(s, T) = IF n = size THEN NextPow(n + 1) ELSE size BY DEF SizeFor
<1> HIDE DEF n, size
<1>3. NextPow(n + 1) \in Nat /\ NextPow(n + 1) >= n + 1 BY <1>1, NextPowBound
<1> QED BY ONLY <1>1, <1>2, <1>3 DEF n

LEMMA EnsuredState ==
  ASSUME NEW s, IsStore(s), NEW X, Rows(s.rec, s.tab, X), NEW T \in Types
  PROVE  LET d == Ensure(s, T) IN
         /\ IsStore(d) /\ d.rec = s.rec /\ d.fast = s.fast /\ T \in DOMAIN d.tab
         /\ Rows(d.rec, d.tab, X) /\ Sized(T, d.tab[T])
         /\ DOMAIN d.tab = DOMAIN s.tab \cup {T} /\ \A U \in DOMAIN s.tab : d.tab[U] = s.tab[U]
<1> DEFINE d == Ensure(s, T)
<1>1. /\ IsStore(d) /\ d.rec = s.rec /\ d.fast = s.fast
      /\ DOMAIN d.tab = DOMAIN s.tab \cup {T} /\ \A U \in DOMAIN s.tab : d.tab[U] = s.tab[U]
      /\ T \notin DOMAIN s.tab =>
           d.tab[T].ents = <<>> /\ d.tab[T].cols = NoRows(T) /\ d.tab[T].size = 0
  BY EnsuredFields
<1> HIDE DEF d
<1>2. Rows(d.rec, d.tab, X) BY <1>1, RowsWithTable
<1>3. Sized(T, d.tab[T]) BY <1>1, <1>2 DEF Rows
<1> QED BY <1>1, <1>2, <1>3 DEF d

\* What an idle world is, with these tables.
InStep(s, tables) == IsStore(s) /\ Rows(s.rec, s.tab, {}) /\ DOMAIN s.tab = tables

\* d is a with other records.
OtherRecords(a, d) ==
  /\ d \in [rec : {d.rec}, tab : {d.tab}, fast : {d.fast}, ids : {d.ids}]
  /\ d.rec \in [Indices -> RecType] /\ d.tab = a.tab /\ d.fast = a.fast /\ d.ids = a.ids

\* A store with rows at the end of T and records for them.
LEMMA AppendedState ==
  ASSUME NEW s, IsStore(s), Rows(s.rec, s.tab, {}), NEW T \in DOMAIN s.tab, NEW es \in Seq(Ent),
         NEW size \in Nat, size >= Len(s.tab[T].ents) + Len(es),
         NEW d, OtherRecords(AppendRows(s, T, es, es, size), d),
         NewRecords(s.rec, d.rec, T, Len(s.tab[T].ents), es)
  PROVE  InStep(d, DOMAIN s.tab)
<1> DEFINE a == AppendRows(s, T, es, es, size)
<1>1. es \in Seq(Value) BY DEF Value
<1>2. AppendEffect(s, a, T, es, es, size) BY <1>1, AppendedFields
<1>3. OtherRecords(a, d) OBVIOUS
<1> HIDE DEF a
<1>4. IsStore(d) BY <1>2, <1>3 DEF IsStore, AppendEffect, OtherRecords
<1>5. IsTab(s.tab) BY DEF IsStore
<1>6. Rows(d.rec, d.tab, {})
  <2>1. /\ OnlyTable(s.tab, d.tab, T)
        /\ d.tab[T].ents = s.tab[T].ents \o es /\ d.tab[T].cols = Extended(T, s.tab[T].cols, es)
        /\ d.tab[T].size = size
    BY <1>2, <1>3 DEF AppendEffect, OtherRecords
  <2>2. Len(s.tab[T].ents) + Len(es) <= d.tab[T].size
    BY <2>1, TableIn
  <2> QED BY ONLY Rows(s.rec, s.tab, {}), T \in DOMAIN s.tab, es \in Seq(Ent),
                  NewRecords(s.rec, d.rec, T, Len(s.tab[T].ents), es),
                  <1>5, <2>1, <2>2, RowsAppended
<1> QED BY <1>2, <1>3, <1>4, <1>6 DEF OnlyTable, AppendEffect, OtherRecords, InStep

LEMMA NewEntityRows ==
  ASSUME RowsInv, NEW i \in Indices, NEW T \in Types, NewEntity(i, T)
  PROVE  RowsInv'
<1> DEFINE e == NextEntity(i)
           s == Ensure(store, T)
           n == Len(s.tab[T].ents)
           size == SizeFor(s, T)
           a == AppendRows(s, T, <<e>>, <<e>>, size)
           d == [a EXCEPT !.rec[i] = Record(e, T, Len(a.tab[T].ents))]
<1>1. op = Idle /\ op' = Idle /\ store' = d /\ ~store.rec[i].alive BY DEF NewEntity, Becomes
<1>2. IsStore(store) /\ Root \in DOMAIN store.tab /\ Rows(store.rec, store.tab, {})
  BY <1>1, IdleFacts
<1>3. /\ IsStore(s) /\ s.rec = store.rec /\ T \in DOMAIN s.tab /\ Rows(s.rec, s.tab, {})
      /\ Sized(T, s.tab[T]) /\ Root \in DOMAIN s.tab
  BY <1>2, EnsuredState
<1>4. /\ e = <<i, s.rec[i].gen>> /\ e \in Ent /\ e[1] = i /\ e[2] \in Nat
      /\ s.rec \in [Indices -> RecType]
  <2>1. s.rec \in [Indices -> RecType] BY <1>3 DEF IsStore
  <2> QED BY <1>3, <2>1 DEF NextEntity, Ent, RecType
<1> HIDE DEF e, s
<1>5. size \in Nat /\ size >= n + 1 BY <1>3, SizeForBound
<1> HIDE DEF size
<1>6. IsStore(a) /\ a.rec = s.rec /\ Len(a.tab[T].ents) = n + 1 /\ n \in Nat
  <2>1. <<e>> \in Seq(Ent) /\ <<e>> \in Seq(Value) BY <1>4 DEF Value
  <2>2. AppendEffect(s, a, T, <<e>>, <<e>>, size)
    BY ONLY <1>3, <1>5, <2>1, AppendedFields
  <2> DEFINE q == s.tab[T].ents
  <2>3. q \in Seq(Ent) /\ n = Len(q) /\ a.tab[T].ents = q \o <<e>> 
    BY <1>3, <2>2, TableIn DEF AppendEffect
  <2>4. IsStore(a) /\ a.rec = s.rec BY <2>2 DEF AppendEffect
  <2> HIDE DEF a, n, q
  <2> QED BY ONLY <1>4, <2>3, <2>4
<1> HIDE DEF a, n
<1>7. /\ d.rec = [s.rec EXCEPT ![i] = Record(e, T, n + 1)]
      /\ d.tab = a.tab /\ d.fast = a.fast /\ d.ids = a.ids
      /\ d \in [rec : {d.rec}, tab : {d.tab}, fast : {d.fast}, ids : {d.ids}]
  BY <1>6 DEF IsStore
<1> HIDE DEF d
<1>8. Record(e, T, n + 1) \in RecType BY <1>4, <1>6 DEF Record, RecType
<1>9. InStep(d, DOMAIN s.tab)
  <2> DEFINE es == <<e>>
  <2>1. es \in Seq(Ent) /\ Len(es) = 1 /\ DOMAIN es = {1} /\ es[1] = e BY <1>4
  <2> HIDE DEF es
  <2>2. d.rec \in [Indices -> RecType] BY <1>4, <1>7, <1>8
  <2>3. NewRecords(s.rec, d.rec, T, n, es)
    BY <1>1, <1>3, <1>4, <1>7, <2>1 DEF NewRecords
  <2>5. a = AppendRows(s, T, es, es, size) /\ size >= n + Len(es) BY <1>5, <2>1 DEF a, es
  <2>6. OtherRecords(AppendRows(s, T, es, es, size), d)
    BY <1>7, <2>2, <2>5 DEF OtherRecords
  <2> QED BY ONLY <1>3, <1>5, <1>7, <2>1, <2>2, <2>3, <2>5, <2>6, AppendedState DEF n
<1>10. RowsState(d, Idle) BY <1>3, <1>9, IdleState DEF InStep
<1> QED BY <1>1, <1>10 DEF RowsInv

LEMMA BulkNewRows ==
  ASSUME RowsInv, NEW i \in Indices, NEW j \in Indices, NEW T \in Types, BulkNew(i, j, T)
  PROVE  RowsInv'
<1> DEFINE es == <<NextEntity(i), NextEntity(j)>>
           s == Ensure(store, T)
           n == Len(s.tab[T].ents)
           size == IF n + 2 = s.tab[T].size THEN n + 2 ELSE NextPow(n + 2)
           a == AppendRows(s, T, es, es, size)
           d == [a EXCEPT !.rec[i] = Record(es[1], T, n + 1), !.rec[j] = Record(es[2], T, n + 2)]
<1>1. /\ op = Idle /\ op' = Idle /\ store' = d /\ i # j
      /\ ~store.rec[i].alive /\ ~store.rec[j].alive
  BY DEF BulkNew, Becomes
<1>2. IsStore(store) /\ Root \in DOMAIN store.tab /\ Rows(store.rec, store.tab, {})
  BY <1>1, IdleFacts
<1>3. /\ IsStore(s) /\ s.rec = store.rec /\ T \in DOMAIN s.tab /\ Rows(s.rec, s.tab, {})
      /\ Sized(T, s.tab[T]) /\ Root \in DOMAIN s.tab
  BY <1>2, EnsuredState
<1>4. /\ es \in Seq(Ent) /\ Len(es) = 2 /\ DOMAIN es = {1, 2} /\ es[1][1] = i /\ es[2][1] = j
      /\ es[1][2] \in Nat /\ es[2][2] \in Nat /\ s.rec \in [Indices -> RecType]
  <2>1. s.rec \in [Indices -> RecType] BY <1>3 DEF IsStore
  <2> QED BY <1>3, <2>1 DEF NextEntity, Ent, RecType
<1> HIDE DEF es, s
<1>5. n \in Nat /\ size \in Nat /\ size >= n + 2
  <2>1. n \in Nat BY <1>3, TableIn
  <2> HIDE DEF n
  <2>2. NextPow(n + 2) \in Nat /\ NextPow(n + 2) >= n + 2 BY <2>1, NextPowBound
  <2> QED BY ONLY <2>1, <2>2
<1> HIDE DEF size
<1>6. IsStore(a) /\ a.rec = s.rec
  <2>1. es \in Seq(Value) BY <1>4 DEF Value
  <2>2. AppendEffect(s, a, T, es, es, size) BY ONLY <1>3, <1>4, <1>5, <2>1, AppendedFields
  <2> QED BY <2>2 DEF AppendEffect
<1> HIDE DEF a, n
<1>7. /\ d.rec = [s.rec EXCEPT ![i] = Record(es[1], T, n + 1), ![j] = Record(es[2], T, n + 2)]
      /\ d.tab = a.tab /\ d.fast = a.fast /\ d.ids = a.ids
      /\ d \in [rec : {d.rec}, tab : {d.tab}, fast : {d.fast}, ids : {d.ids}]
  BY <1>6 DEF IsStore
<1> HIDE DEF d
<1>8. Record(es[1], T, n + 1) \in RecType /\ Record(es[2], T, n + 2) \in RecType
  BY <1>4, <1>5 DEF Record, RecType
<1>9. InStep(d, DOMAIN s.tab)
  <2>2. d.rec \in [Indices -> RecType] BY <1>4, <1>7, <1>8
  <2>3. NewRecords(s.rec, d.rec, T, n, es)
    <3>1. \A k \in DOMAIN es :
            ~s.rec[es[k][1]].alive /\ d.rec[es[k][1]] = Record(es[k], T, n + k)
      BY <1>1, <1>3, <1>4, <1>7
    <3>2. \A u \in Indices : (\A k \in DOMAIN es : es[k][1] # u) => d.rec[u] = s.rec[u]
      BY <1>4, <1>7
    <3> QED BY <3>1, <3>2 DEF NewRecords
  <2>5. size >= n + Len(es) BY <1>4, <1>5
  <2>6. OtherRecords(AppendRows(s, T, es, es, size), d) BY <1>7, <2>2 DEF a, OtherRecords
  <2> QED BY ONLY <1>3, <1>4, <1>5, <1>7, <2>2, <2>3, <2>5, <2>6, AppendedState DEF n
<1>10. RowsState(d, Idle) BY <1>3, <1>9, IdleState DEF InStep
<1> QED BY <1>1, <1>10 DEF RowsInv

LEMMA DeleteRows ==
  ASSUME RowsInv, NEW i \in Indices, Delete(i)
  PROVE  RowsInv'
<1> DEFINE g == store.rec[i].gen
           T == store.rec[i].table
           row == store.rec[i].row
           es == <<<<i, g>>>>
           d == DeleteRow(store, T, row)
           x == [d EXCEPT !.rec = Forgotten(@, es)]
           rec1 == Forgotten(store.rec, es)
           n == Len(store.tab[T].ents)
           last == store.tab[T].ents[n][1]
<1>1. op = Idle /\ op' = Idle /\ store' = x /\ store.rec[i].alive BY DEF Delete, Becomes
<1>2. IsStore(store) /\ Root \in DOMAIN store.tab /\ Rows(store.rec, store.tab, {})
  BY <1>1, IdleFacts
<1>3. /\ T \in DOMAIN store.tab /\ row \in DOMAIN store.tab[T].ents
      /\ store.tab[T].ents[row] = <<i, g>>
      /\ Sized(T, store.tab[T]) /\ IsTab(store.tab) /\ store.rec \in [Indices -> RecType]
  BY <1>1, <1>2 DEF Rows, HasRow, IsStore
<1> HIDE DEF T, row
<1>4. /\ IsStore(d) /\ last \in Indices /\ row \in Nat
      /\ d.rec = LastMoved(store.rec, store.tab[T].ents, row)
      /\ OnlyTable(store.tab, d.tab, T)
      /\ d.tab[T].ents = SwapRemove(store.tab[T].ents, row)
      /\ d.tab[T].cols = Shortened(T, store.tab[T].cols, row)
      /\ d.tab[T].size = store.tab[T].size
  <2>1. DeleteEffect(store, d, T, row) BY ONLY <1>2, <1>3, RowDeletedFields
  <2>2. row \in Nat BY <1>3, RowFacts
  <2> QED BY <2>1, <2>2 DEF DeleteEffect
<1> HIDE DEF d
<1>5. /\ x.rec = Forgotten(d.rec, es) /\ x.tab = d.tab /\ IsStore(x)
  <2>1. d.rec \in [Indices -> RecType] BY <1>4 DEF IsStore
  <2>2. Forgotten(d.rec, es) \in [Indices -> RecType] BY <2>1, ForgottenType
  <2> HIDE DEF es
  <2> QED BY <1>4, <2>2 DEF IsStore
<1> HIDE DEF x
<1>6. /\ rec1 \in [Indices -> RecType] /\ ~rec1[i].alive
      /\ \A j \in Indices \ {i} : rec1[j] = store.rec[j]
  <2>1. rec1 \in [Indices -> RecType] BY <1>3, ForgottenType
  <2> QED BY <2>1 DEF Forgotten
<1>7. x.rec = LastMoved(rec1, store.tab[T].ents, row)
  <2> DEFINE m == LastMoved(rec1, store.tab[T].ents, row)
  <2>1. ASSUME last = i, row # n PROVE FALSE
    <3>1. n \in DOMAIN store.tab[T].ents BY <1>3, RowFacts
    <3>2. AtRow(store.rec, store.tab, T, n) BY <1>2, <1>3, <3>1 DEF Rows
    <3> QED BY <2>1, <3>2 DEF AtRow, row
  <2>2. /\ d.rec \in [Indices -> RecType]
        /\ \A j \in Indices : d.rec[j] = IF j = last /\ row # n
                                         THEN [store.rec[j] EXCEPT !.row = row] ELSE store.rec[j]
    BY <1>3, <1>4, LastMovedAt
  <2>3. /\ m \in [Indices -> RecType]
        /\ \A j \in Indices : m[j] = IF j = last /\ row # n
                                     THEN [rec1[j] EXCEPT !.row = row] ELSE rec1[j]
    BY <1>4, <1>6, LastMovedAt
  <2>4. x.rec \in [Indices -> RecType] BY <1>5 DEF IsStore
  <2> HIDE DEF m
  <2>5. ASSUME NEW j \in Indices PROVE x.rec[j] = m[j]
    <3>1. /\ x.rec[j] = IF j = i THEN ForgottenRec(d.rec[i]) ELSE d.rec[j]
          /\ rec1[j] = IF j = i THEN ForgottenRec(store.rec[i]) ELSE store.rec[j]
      BY <1>5, ForgottenOne
    <3> HIDE DEF last, n, rec1
    <3>2. CASE j = i
      <4>1. d.rec[i] = store.rec[i] /\ m[i] = rec1[i] BY <2>1, <2>2, <2>3
      <4> QED BY ONLY <3>1, <3>2, <4>1
    <3>3. CASE j # i BY ONLY <2>2, <2>3, <3>1, <3>3
    <3> QED BY <3>2, <3>3
  <2> HIDE DEF rec1
  <2>6. x.rec = [j \in Indices |-> x.rec[j]] /\ m = [j \in Indices |-> m[j]] BY <2>3, <2>4
  <2> QED BY <2>5, <2>6 DEF m
<1>8. NoneAt(rec1, T, row)
  <2> SUFFICES ASSUME NEW j \in Indices, rec1[j].alive, rec1[j].table = T, rec1[j].row = row
               PROVE  FALSE
    BY DEF NoneAt
  <2>1. j # i /\ rec1[j] = store.rec[j] BY <1>6
  <2>2. HasRow(store.rec, store.tab, j) BY <1>2, <2>1 DEF Rows
  <2>3. store.tab[T].ents[row] = <<j, store.rec[j].gen>> BY <2>1, <2>2, Zenon DEF HasRow
  <2> QED BY ONLY <1>3, <2>1, <2>3
<1>9. Rows(rec1, store.tab, {<<T, row>>})
  <2>1. ASSUME NEW j \in Indices, rec1[j].alive PROVE HasRow(rec1, store.tab, j)
    <3>1. j # i /\ rec1[j] = store.rec[j] BY <1>6, <2>1
    <3>2. HasRow(store.rec, store.tab, j) BY <1>2, <2>1, <3>1 DEF Rows
    <3> QED BY <3>1, <3>2, Zenon DEF HasRow
  <2>2. ASSUME NEW U \in DOMAIN store.tab, NEW k \in DOMAIN store.tab[U].ents, <<U, k>> # <<T, row>>
        PROVE  AtRow(rec1, store.tab, U, k)
    <3> DEFINE e == store.tab[U].ents[k]
    <3>1. AtRow(store.rec, store.tab, U, k) BY <1>2 DEF Rows
    <3>2. e[1] \in Indices BY <1>3, RowFacts
    <3>3. e[1] # i BY <2>2, <3>1 DEF AtRow, T, row
    <3>4. rec1[e[1]] = store.rec[e[1]] BY <1>6, <3>2, <3>3
    <3> QED BY <3>1, <3>4, Zenon DEF AtRow, AliveIn
  <2>3. \A U \in DOMAIN store.tab : Sized(U, store.tab[U]) BY <1>2 DEF Rows
  <2> QED BY <2>1, <2>2, <2>3 DEF Rows
<1> HIDE DEF rec1, es
<1>10. Rows(x.rec, x.tab, {})
  BY ONLY <1>3, <1>4, <1>5, <1>6, <1>7, <1>8, <1>9, RowsDeleted
<1>11. Root \in DOMAIN x.tab BY <1>2, <1>4, <1>5 DEF OnlyTable
<1> QED BY <1>1, <1>5, <1>10, <1>11, IdleState DEF RowsInv

LEMMA MoveBeginRows ==
  ASSUME RowsInv, NEW i \in Indices, NEW T \in Types, MoveBegin(i, T)
  PROVE  RowsInv'
<1> DEFINE s == Ensure(store, T)
           e == <<i, s.rec[i].gen>>
           n == Len(s.tab[T].ents)
           size == SizeFor(s, T)
           a == AppendRows(s, T, <<e>>, <<Raw>>, size)
           o == [kind |-> "move", index |-> i, dst |-> T]
<1>1. op = Idle /\ op' = o /\ store' = a /\ store.rec[i].alive /\ store.rec[i].table # T
  BY DEF MoveBegin, Becomes
<1>2. IsStore(store) /\ Root \in DOMAIN store.tab /\ Rows(store.rec, store.tab, {})
  BY <1>1, IdleFacts
<1>3. /\ IsStore(s) /\ s.rec = store.rec /\ T \in DOMAIN s.tab /\ Rows(s.rec, s.tab, {})
      /\ Sized(T, s.tab[T]) /\ Root \in DOMAIN s.tab /\ IsTab(s.tab)
  BY <1>2, EnsuredState DEF IsStore
<1>4. e \in Ent
  <2>1. s.rec \in [Indices -> RecType] BY <1>3 DEF IsStore
  <2> QED BY <1>3, <2>1 DEF Ent, RecType
<1> HIDE DEF e, s
<1>5. size \in Nat /\ size >= n + 1 BY <1>3, SizeForBound
<1> HIDE DEF size
<1>6. AppendEffect(s, a, T, <<e>>, <<Raw>>, size)
  <2>1. <<e>> \in Seq(Ent) /\ <<Raw>> \in Seq(Value) BY <1>4 DEF Value
  <2> QED BY ONLY <1>3, <1>5, <2>1, AppendedFields
<1> HIDE DEF a
<1>7. /\ IsStore(a) /\ a.rec = s.rec /\ OnlyTable(s.tab, a.tab, T)
      /\ a.tab[T].ents = s.tab[T].ents \o <<e>>
      /\ a.tab[T].cols = Extended(T, s.tab[T].cols, <<Raw>>) /\ a.tab[T].size = size
  BY <1>6 DEF AppendEffect
<1>8. n + 1 <= a.tab[T].size
  <2>1. n \in Nat BY <1>3, TableIn
  <2> HIDE DEF n
  <2> QED BY <1>5, <1>7, <2>1
<1>9. /\ Rows(a.rec, a.tab, {<<T, Len(a.tab[T].ents)>>})
      /\ Len(a.tab[T].ents) > 0 /\ a.tab[T].ents[Len(a.tab[T].ents)] = e
  <2>1. Begun(a.rec, a.tab, T, e)
    BY ONLY <1>3, <1>4, <1>7, <1>8, RowsBegun DEF n
  <2> QED BY <2>1 DEF Begun
<1>10. OpInv(a, o)
  <2>1. T \in DOMAIN a.tab BY <1>3, <1>7 DEF OnlyTable
  <2>2. o \in Ops BY DEF Ops
  <2> QED BY <1>1, <1>3, <1>7, <1>9, <2>1, <2>2 DEF OpInv, e
<1>11. Moving(a, o) = {<<T, Len(a.tab[T].ents)>>} BY DEF Moving
<1>12. Root \in DOMAIN a.tab BY <1>3, <1>7 DEF OnlyTable
<1> HIDE DEF o
<1> QED BY <1>1, <1>7, <1>9, <1>10, <1>11, <1>12 DEF RowsInv, RowsState

\* What the second half of a move does: m is the store before the row of the
\* source is deleted.
MoveEffect(s, i, dst, m, d) ==
  LET src == s.rec[i].table
      row == s.rec[i].row
      e == <<i, s.rec[i].gen>>
      t == s.tab[dst]
      n == Len(t.ents)
      q == m.tab[dst]
  IN  /\ i \in Indices /\ s.rec[i].alive /\ dst \in DOMAIN s.tab /\ src \in DOMAIN s.tab
      /\ src # dst /\ row \in DOMAIN s.tab[src].ents /\ s.tab[src].ents[row] = e
      /\ e \in Ent /\ n \in DOMAIN t.ents /\ n > 0 /\ t.ents[n] = e
      /\ Rows(s.rec, s.tab, {<<dst, n>>}) /\ IsStore(s) /\ IsStore(m)
      /\ OnlyTable(s.tab, m.tab, dst) /\ m.ids = s.ids /\ m.fast = s.fast
      /\ m.rec[i] = Record(e, dst, n) /\ \A j \in Indices \ {i} : m.rec[j] = s.rec[j]
      /\ q.id = t.id /\ q.version = t.version /\ q.mem = t.mem /\ q.ents = t.ents /\ q.size = t.size
      /\ \A c \in dst : /\ q.cols[c] \in Seq(Value) /\ Len(q.cols[c]) = n /\ q.cols[c][n] = e
                        /\ \A k \in 1..n - 1 : q.cols[c][k] = t.cols[c][k]
      /\ DeleteEffect(m, d, src, row)

LEMMA MovedFields ==
  ASSUME RowsInv, MoveEnd
  PROVE  \E m : MoveEffect(store, op.index, op.dst, m, store')
<1> DEFINE i == op.index
           dst == op.dst
           src == store.rec[i].table
           row == store.rec[i].row
           e == <<i, store.rec[i].gen>>
           ents == store.tab[dst].ents
           n == Len(ents)
           cols == [c \in dst |-> [store.tab[dst].cols[c] EXCEPT
                      ![n] = IF c \in src THEN store.tab[src].cols[c][row] ELSE e]]
           t == [store.tab[dst] EXCEPT !.cols = cols]
           m == [store EXCEPT
                   !.tab[dst].cols =
                      [c \in dst |-> [@[c] EXCEPT
                         ![n] = IF c \in src THEN store.tab[src].cols[c][row] ELSE e]],
                   !.rec[i] = Record(e, dst, n)]
           d == DeleteRow(m, src, row)
<1>1. op.kind = "move" /\ op' = Idle /\ store' = d
  BY Zenon DEF MoveEnd, Becomes
<1>2. /\ IsStore(store) /\ IsTab(store.tab) /\ Root \in DOMAIN store.tab
      /\ store.rec \in [Indices -> RecType]
      /\ Rows(store.rec, store.tab, {<<dst, n>>}) /\ i \in Indices /\ dst \in Types
      /\ dst \in DOMAIN store.tab /\ store.rec[i].alive /\ src # dst
      /\ n > 0 /\ ents[n] = e
  BY <1>1, Zenon DEF RowsInv, RowsState, Moving, OpInv, Ops, IsStore
<1>3. /\ src \in DOMAIN store.tab /\ row \in DOMAIN store.tab[src].ents
      /\ store.tab[src].ents[row] = e /\ Sized(src, store.tab[src]) /\ Sized(dst, store.tab[dst])
  BY <1>2, Zenon DEF Rows, HasRow
<1>4. AtRow(store.rec, store.tab, src, row) BY <1>2, <1>3, Zenon DEF Rows
<1>5. /\ IsTable(dst, store.tab[dst]) /\ ents \in Seq(Ent) /\ n \in Nat /\ n \in DOMAIN ents
      /\ store.tab[dst].cols \in [dst -> Seq(Value)] /\ e \in Ent
  <2>1. /\ IsTable(dst, store.tab[dst]) /\ ents \in Seq(Ent)
        /\ store.tab[dst].cols \in [dst -> Seq(Value)]
    BY ONLY <1>2, TableIn
  <2>2. n \in Nat /\ n \in DOMAIN ents BY <1>2, <2>1
  <2>3. ents[n] \in Ent BY <2>1, <2>2
  <2> QED BY <1>2, <2>1, <2>2, <2>3
<1> HIDE DEF i, dst, src, row, e
<1>6. \A c \in dst : /\ cols[c] \in Seq(Value) /\ Len(cols[c]) = n /\ cols[c][n] = e
                     /\ \A k \in 1..n - 1 : cols[c][k] = store.tab[dst].cols[c][k]
  <2> TAKE c \in dst
  <2> DEFINE q == store.tab[dst].cols[c]
             v == IF c \in src THEN store.tab[src].cols[c][row] ELSE e
  <2>1. v = e BY <1>3, <1>4 DEF AtRow
  <2>2. q \in Seq(Value) /\ Len(q) = n BY <1>3, <1>5 DEF Sized
  <2>3. e \in Value BY <1>5 DEF Value
  <2>4. cols[c] = [q EXCEPT ![n] = e] BY <2>1
  <2>5. n \in Nat /\ n > 0 BY <1>2, <1>5
  <2> DEFINE w == [q EXCEPT ![n] = e]
  <2>6. cols[c] = w BY <2>4
  <2> HIDE DEF v, n, cols
  <2>7. w \in Seq(Value) /\ Len(w) = n /\ w[n] = e /\ \A k \in 1..n - 1 : w[k] = q[k]
    <3> HIDE DEF q
    <3> QED BY ONLY <2>2, <2>3, <2>5
  <2> HIDE DEF w
  <2> QED BY ONLY <2>6, <2>7
<1>7. /\ t.id = store.tab[dst].id /\ t.version = store.tab[dst].version
      /\ t.mem = store.tab[dst].mem /\ t.ents = ents /\ t.cols = cols
      /\ t.size = store.tab[dst].size /\ IsTable(dst, t)
  <2>1. cols \in [dst -> Seq(Value)] BY <1>6
  <2> HIDE DEF cols
  <2> QED BY <1>5, <2>1 DEF IsTable
<1>8. /\ m.rec = [store.rec EXCEPT ![i] = Record(e, dst, n)] /\ m.tab = [store.tab EXCEPT ![dst] = t]
      /\ m.fast = store.fast /\ m.ids = store.ids
      /\ m \in [rec : {m.rec}, tab : {m.tab}, fast : {m.fast}, ids : {m.ids}]
  BY <1>2 DEF IsStore
<1> HIDE DEF t, m, cols
<1>9. IsTab(m.tab) /\ m.tab[dst] = t /\ OnlyTable(store.tab, m.tab, dst)
  BY <1>2, <1>7, <1>8, TableReplaced DEF OnlyTable
<1>10. m.rec \in [Indices -> RecType] /\ m.rec[i] = Record(e, dst, n)
       /\ \A j \in Indices \ {i} : m.rec[j] = store.rec[j]
  <2>1. Record(e, dst, n) \in RecType BY <1>2, <1>5 DEF Record, RecType, Ent
  <2> QED BY <1>2, <1>8, <2>1
<1>11. IsStore(m) BY <1>2, <1>8, <1>9, <1>10 DEF IsStore
<1>12. m.tab[src] = store.tab[src] /\ src \in DOMAIN m.tab BY <1>2, <1>3, <1>9 DEF OnlyTable
<1>13. DeleteEffect(m, d, src, row) BY ONLY <1>3, <1>11, <1>12, RowDeletedFields
<1> HIDE DEF d
<1> WITNESS m
<1>14. /\ i \in Indices /\ store.rec[i].alive /\ dst \in DOMAIN store.tab
       /\ src \in DOMAIN store.tab /\ src # dst /\ row \in DOMAIN store.tab[src].ents
       /\ store.tab[src].ents[row] = e /\ e \in Ent /\ n \in DOMAIN ents /\ n > 0 /\ ents[n] = e
       /\ Rows(store.rec, store.tab, {<<dst, n>>}) /\ IsStore(store) /\ IsStore(m)
       /\ OnlyTable(store.tab, m.tab, dst) /\ m.ids = store.ids /\ m.fast = store.fast
       /\ m.rec[i] = Record(e, dst, n) /\ \A j \in Indices \ {i} : m.rec[j] = store.rec[j]
  BY ONLY <1>2, <1>3, <1>5, <1>8, <1>9, <1>10, <1>11
<1>15. /\ m.tab[dst].id = store.tab[dst].id /\ m.tab[dst].version = store.tab[dst].version
       /\ m.tab[dst].mem = store.tab[dst].mem /\ m.tab[dst].ents = ents
       /\ m.tab[dst].size = store.tab[dst].size
       /\ \A c \in dst : /\ m.tab[dst].cols[c] \in Seq(Value) /\ Len(m.tab[dst].cols[c]) = n
                         /\ m.tab[dst].cols[c][n] = e
                         /\ \A k \in 1..n - 1 : m.tab[dst].cols[c][k] = store.tab[dst].cols[c][k]
  BY ONLY <1>6, <1>7, <1>9
<1>16. MoveEffect(store, i, dst, m, d)
  BY ONLY <1>13, <1>14, <1>15, Zenon DEF MoveEffect, src, row, e
<1> QED BY ONLY <1>1, <1>16 DEF i, dst

LEMMA MoveEndRows ==
  ASSUME RowsInv, MoveEnd
  PROVE  RowsInv'
<1> DEFINE i == op.index
           dst == op.dst
           src == store.rec[i].table
           row == store.rec[i].row
           e == <<i, store.rec[i].gen>>
           ents == store.tab[dst].ents
           n == Len(ents)
           d == store'
<1>1. op.kind = "move" /\ op' = Idle BY Zenon DEF MoveEnd
<1> PICK m : MoveEffect(store, i, dst, m, d) BY MovedFields
<1>2. /\ IsStore(store) /\ IsTab(store.tab) /\ Root \in DOMAIN store.tab
      /\ store.rec \in [Indices -> RecType]
      /\ Rows(store.rec, store.tab, {<<dst, n>>}) /\ i \in Indices
      /\ dst \in DOMAIN store.tab /\ store.rec[i].alive /\ src # dst
      /\ n > 0 /\ ents[n] = e
  BY Zenon DEF RowsInv, RowsState, MoveEffect, IsStore
<1>3. /\ src \in DOMAIN store.tab /\ row \in DOMAIN store.tab[src].ents
      /\ store.tab[src].ents[row] = e
      /\ Sized(src, store.tab[src]) /\ Sized(dst, store.tab[dst])
  BY <1>2, Zenon DEF MoveEffect, Rows
<1>5. ents \in Seq(Ent) /\ n \in Nat /\ n \in DOMAIN ents /\ e \in Ent
  <2>1. ents \in Seq(Ent) BY <1>2, TableIn
  <2>2. n \in DOMAIN ents /\ e \in Ent BY Zenon DEF MoveEffect
  <2> QED BY <2>1, <2>2
<1>6. \A c \in dst : /\ m.tab[dst].cols[c] \in Seq(Value)
                     /\ Len(m.tab[dst].cols[c]) = n /\ m.tab[dst].cols[c][n] = e
                     /\ \A k \in 1..n - 1 : m.tab[dst].cols[c][k] = store.tab[dst].cols[c][k]
  BY Zenon DEF MoveEffect
<1>9. /\ IsTab(m.tab) /\ OnlyTable(store.tab, m.tab, dst)
      /\ m.tab[dst].ents = ents /\ m.tab[dst].size = store.tab[dst].size
  BY Zenon DEF MoveEffect, IsStore
<1>10. m.rec \in [Indices -> RecType] /\ m.rec[i] = Record(e, dst, n)
       /\ \A j \in Indices \ {i} : m.rec[j] = store.rec[j]
  BY Zenon DEF MoveEffect, IsStore
<1>15. DeleteEffect(m, d, src, row) BY Zenon DEF MoveEffect
<1> HIDE DEF i, dst, src, row, e, d
<1>12. Rows(m.rec, m.tab, {<<src, row>>})
  <2>1. \A U \in DOMAIN store.tab : U \in DOMAIN m.tab /\ m.tab[U].ents = store.tab[U].ents
    BY <1>9 DEF OnlyTable
  <2>2. ASSUME NEW j \in Indices, m.rec[j].alive PROVE HasRow(m.rec, m.tab, j)
    <3>1. CASE j = i
      <4>1. m.rec[i].table = dst /\ m.rec[i].row = n /\ m.rec[i].gen = e[2] /\ e = <<i, e[2]>>
        BY <1>10 DEF Record, e
      <4>2. m.tab[dst].ents = ents /\ dst \in DOMAIN m.tab BY <1>2, <2>1
      <4> QED BY ONLY <1>2, <1>5, <3>1, <4>1, <4>2 DEF HasRow
    <3>2. CASE j # i
      <4>1. m.rec[j] = store.rec[j] BY <1>10, <3>2
      <4>2. HasRow(store.rec, store.tab, j) BY <1>2, <2>2, <4>1 DEF Rows
      <4> QED BY <2>1, <4>1, <4>2, Zenon DEF HasRow
    <3> QED BY <3>1, <3>2
  <2>3. ASSUME NEW U \in DOMAIN m.tab PROVE Sized(U, m.tab[U])
    <3>1. CASE U = dst BY <1>3, <1>6, <1>9, <3>1 DEF Sized
    <3>2. CASE U # dst BY <1>2, <1>9, <3>2 DEF Rows, OnlyTable
    <3> QED BY <3>1, <3>2
  <2>4. ASSUME NEW U \in DOMAIN m.tab, NEW k \in DOMAIN m.tab[U].ents, <<U, k>> # <<src, row>>
        PROVE  AtRow(m.rec, m.tab, U, k)
    <3> DEFINE f == store.tab[U].ents[k]
    <3>1. U \in DOMAIN store.tab /\ k \in DOMAIN store.tab[U].ents /\ m.tab[U].ents[k] = f
      BY <1>9, <2>1 DEF OnlyTable
    <3>2. CASE U = dst /\ k = n
      <4>1. f = e /\ e[1] = i BY <1>2, <3>2 DEF e
      <4>2. \A c \in dst : m.tab[dst].cols[c][n] = e BY <1>6, <1>9
      <4> QED BY <1>10, <3>1, <3>2, <4>1, <4>2, SMTT(20) DEF AtRow, AliveIn, Record
    <3>3. CASE <<U, k>> # <<dst, n>>
      <4>1. AtRow(store.rec, store.tab, U, k) BY <1>2, <3>1, <3>3 DEF Rows
      <4>2. f[1] \in Indices BY <1>2, <3>1, RowFacts
      <4>3. f[1] # i BY <2>4, <4>1 DEF AtRow, src, row
      <4>4. m.rec[f[1]] = store.rec[f[1]] BY <1>10, <4>2, <4>3
      <4>5. ASSUME NEW c \in U PROVE m.tab[U].cols[c][k] = f
        <5>1. store.tab[U].cols[c][k] = f BY <4>1 DEF AtRow
        <5>2. CASE U = dst
          <6>1. k \in 1..n - 1 BY <1>5, <3>1, <3>3, <5>2
          <6> QED BY <1>6, <1>9, <5>1, <5>2, <6>1
        <5>3. CASE U # dst BY <1>9, <3>1, <5>1, <5>3 DEF OnlyTable
        <5> QED BY <5>2, <5>3
      <4>6. AliveIn(store.rec, f) /\ store.rec[f[1]].table = U /\ store.rec[f[1]].row = k
        BY <4>1 DEF AtRow
      <4> HIDE DEF f
      <4> QED BY ONLY <3>1, <4>4, <4>5, <4>6 DEF AtRow, AliveIn
    <3> QED BY <3>2, <3>3
  <2> QED BY <2>2, <2>3, <2>4 DEF Rows
<1>13. NoneAt(m.rec, src, row)
  <2> SUFFICES ASSUME NEW j \in Indices, m.rec[j].alive, m.rec[j].table = src, m.rec[j].row = row
               PROVE  FALSE
    BY DEF NoneAt
  <2>1. j # i BY <1>2, <1>10 DEF Record
  <2>2. m.rec[j] = store.rec[j] BY <1>10, <2>1
  <2>3. HasRow(store.rec, store.tab, j) BY <1>2, <2>2 DEF Rows
  <2>4. store.tab[src].ents[row] = <<j, store.rec[j].gen>> BY <2>2, <2>3, Zenon DEF HasRow
  <2> QED BY <1>3, <2>1, <2>4 DEF e
<1>14. m.tab[src] = store.tab[src] /\ src \in DOMAIN m.tab BY <1>2, <1>3, <1>9 DEF OnlyTable
<1>16. Rows(d.rec, d.tab, {})
  <2>1. /\ d.rec = LastMoved(m.rec, m.tab[src].ents, row) /\ OnlyTable(m.tab, d.tab, src)
        /\ d.tab[src].ents = SwapRemove(m.tab[src].ents, row)
        /\ d.tab[src].cols = Shortened(src, m.tab[src].cols, row)
        /\ d.tab[src].size = m.tab[src].size
    BY <1>15 DEF DeleteEffect
  <2> QED BY ONLY <1>3, <1>9, <1>10, <1>12, <1>13, <1>14, <2>1, RowsDeleted
<1>17. IsStore(d) /\ Root \in DOMAIN d.tab
  BY <1>2, <1>9, <1>15 DEF DeleteEffect, OnlyTable
<1> QED BY <1>1, <1>16, <1>17, IdleState DEF RowsInv, d

LEMMA CleanBeginRows ==
  ASSUME RowsInv, NEW kind \in {"remove", "delete"}, NEW c \in Comps, CleanBegin(kind, c)
  PROVE  RowsInv'
<1> DEFINE o == [kind |-> kind, comp |-> c, todo |-> Occupied(c)]
<1>1. op = Idle /\ op' = o /\ store' = store BY DEF CleanBegin
<1>2. IsStore(store) /\ Root \in DOMAIN store.tab /\ Rows(store.rec, store.tab, {})
  BY <1>1, IdleFacts
<1>3. Occupied(c) \subseteq Types BY <1>2 DEF Occupied, IsStore, IsTab
<1>4. o \in Ops /\ o.kind # "move" /\ o.comp = c /\ o.todo = Occupied(c) BY <1>3 DEF Ops
<1> HIDE DEF o
<1>5. OpInv(store, o) /\ Moving(store, o) = {} BY <1>4 DEF OpInv, Occupied, Moving
<1> QED BY <1>1, <1>2, <1>5 DEF RowsInv, RowsState

\* A removal or deletion that goes on.
LEMMA CleanState ==
  ASSUME RowsInv, op.kind \in {"remove", "delete"}, NEW T \in op.todo
  PROVE  LET o == [op EXCEPT !.todo = @ \ {T}] IN
         /\ IsStore(store) /\ Root \in DOMAIN store.tab /\ Rows(store.rec, store.tab, {})
         /\ T \in DOMAIN store.tab /\ T \in Types /\ op.comp \in T
         /\ \A U \in op.todo : U \in DOMAIN store.tab /\ op.comp \in U
         /\ \A U \in DOMAIN store.tab : op.comp \in U /\ U \notin op.todo => store.tab[U].ents = <<>>
         /\ o \in Ops /\ o.kind = op.kind /\ o.comp = op.comp /\ o.todo = op.todo \ {T}
<1>1. op \in [kind : {"remove", "delete"}, comp : Comps, todo : SUBSET Types]
  BY DEF RowsInv, RowsState, OpInv, Ops
<1>2. /\ IsStore(store) /\ Root \in DOMAIN store.tab /\ Rows(store.rec, store.tab, {})
      /\ \A U \in op.todo : U \in DOMAIN store.tab /\ op.comp \in U
      /\ \A U \in DOMAIN store.tab : op.comp \in U /\ U \notin op.todo => store.tab[U].ents = <<>>
  BY DEF RowsInv, RowsState, OpInv, Moving
<1> QED BY <1>1, <1>2 DEF Ops

LEMMA ClearEntitiesRows ==
  ASSUME RowsInv, NEW T \in Types, ClearEntities(T)
  PROVE  RowsInv'
<1> DEFINE d == ClearTable(store, T)
           o == [op EXCEPT !.todo = @ \ {T}]
<1>1. op.kind = "delete" /\ T \in op.todo /\ store' = d /\ op' = o
  BY DEF ClearEntities, Becomes
<1>2. /\ IsStore(store) /\ Root \in DOMAIN store.tab /\ Rows(store.rec, store.tab, {})
      /\ T \in DOMAIN store.tab
      /\ \A U \in op.todo : U \in DOMAIN store.tab /\ op.comp \in U
      /\ \A U \in DOMAIN store.tab : op.comp \in U /\ U \notin op.todo => store.tab[U].ents = <<>>
      /\ o \in Ops /\ o.kind = op.kind /\ o.comp = op.comp /\ o.todo = op.todo \ {T}
  BY <1>1, CleanState
<1>3. ClearEffect(store, d, T) BY ONLY <1>2, ClearedFields
<1> HIDE DEF d, o
<1>4. Rows(d.rec, d.tab, {})
  <2>1. store.rec \in [Indices -> RecType] /\ IsTab(store.tab) /\ store.tab[T].size \in Nat
    BY <1>2, TableIn DEF IsStore
  <2>2. /\ d.rec = Forgotten(store.rec, store.tab[T].ents) /\ OnlyTable(store.tab, d.tab, T)
        /\ d.tab[T].ents = <<>> /\ d.tab[T].cols = NoRows(T) /\ d.tab[T].size \in Nat
    BY <1>3, <2>1 DEF ClearEffect
  <2>3. Rows(Forgotten(store.rec, store.tab[T].ents), d.tab, {})
    BY ONLY <1>2, <2>1, <2>2, RowsCleared
  <2> QED BY <2>2, <2>3
<1>5. OpInv(d, o) /\ Moving(d, o) = {}
  BY <1>1, <1>2, <1>3 DEF ClearEffect, OnlyTable, OpInv, Moving
<1>6. IsStore(d) /\ Root \in DOMAIN d.tab BY <1>2, <1>3 DEF ClearEffect, OnlyTable
<1> QED BY <1>1, <1>4, <1>5, <1>6 DEF RowsInv, RowsState

LEMMA RemoveFromTableRows ==
  ASSUME RowsInv, NEW T \in Types, RemoveFromTable(T)
  PROVE  RowsInv'
<1> DEFINE dst == T \ {op.comp}
           s == Ensure(store, dst)
           d == Merge(s, dst, T)
           o == [op EXCEPT !.todo = @ \ {T}]
<1>1. op.kind = "remove" /\ T \in op.todo /\ store' = d /\ op' = o
  BY DEF RemoveFromTable, Becomes
<1>2. /\ IsStore(store) /\ Root \in DOMAIN store.tab /\ Rows(store.rec, store.tab, {})
      /\ T \in DOMAIN store.tab /\ op.comp \in T
      /\ \A U \in op.todo : U \in DOMAIN store.tab /\ op.comp \in U
      /\ \A U \in DOMAIN store.tab : op.comp \in U /\ U \notin op.todo => store.tab[U].ents = <<>>
      /\ o \in Ops /\ o.kind = op.kind /\ o.comp = op.comp /\ o.todo = op.todo \ {T}
  BY <1>1, CleanState
<1>3. dst \in Types /\ dst # T /\ dst \subseteq T /\ op.comp \notin dst BY <1>2 DEF Types
<1> HIDE DEF dst
<1>4. /\ IsStore(s) /\ s.rec = store.rec /\ dst \in DOMAIN s.tab /\ Rows(s.rec, s.tab, {})
      /\ DOMAIN s.tab = DOMAIN store.tab \cup {dst}
      /\ \A U \in DOMAIN store.tab : s.tab[U] = store.tab[U]
  BY <1>2, <1>3, EnsuredState, ZenonT(30)
<1> HIDE DEF s
<1>5. T \in DOMAIN s.tab /\ Sized(dst, s.tab[dst]) /\ Sized(T, s.tab[T])
  BY <1>2, <1>4 DEF Rows
<1>6. MergeEffect(s, d, dst, T) BY ONLY <1>3, <1>4, <1>5, MergedFields
<1> HIDE DEF d, o
<1>7. Rows(d.rec, d.tab, {})
  <2> DEFINE n == Len(s.tab[dst].ents)
             m == Len(s.tab[T].ents)
  <2>1. s.rec \in [Indices -> RecType] /\ IsTab(s.tab) /\ n \in Nat /\ m \in Nat
    BY <1>4, <1>5, TableIn DEF IsStore
  <2>2. d.tab[dst].size \in Nat
    <3>1. IsStore(d) /\ dst \in DOMAIN d.tab BY <1>4, <1>6 DEF MergeEffect
    <3> QED BY <3>1, TableIn
  <2>3. /\ d.rec = MovedRec(s.rec, s.tab[T].ents, dst, n)
        /\ DOMAIN d.tab = DOMAIN s.tab
        /\ \A U \in DOMAIN s.tab \ {dst, T} : d.tab[U] = s.tab[U]
        /\ d.tab[dst].ents = s.tab[dst].ents \o s.tab[T].ents
        /\ d.tab[dst].cols = Joined(dst, s.tab[dst].cols, s.tab[T].cols)
        /\ d.tab[dst].size >= n + m
        /\ d.tab[T].ents = <<>> /\ d.tab[T].cols = NoRows(T) /\ d.tab[T].size = 0
    BY <1>6 DEF MergeEffect
  <2>4. n + m <= d.tab[dst].size
    <3> HIDE DEF n, m
    <3> QED BY <2>1, <2>2, <2>3
  <2>5. Rows(MovedRec(s.rec, s.tab[T].ents, dst, n), d.tab, {})
    BY ONLY <1>3, <1>4, <1>5, <2>1, <2>3, <2>4, RowsMerged
  <2> QED BY <2>3, <2>5
<1>8. /\ IsStore(d) /\ DOMAIN d.tab = DOMAIN s.tab /\ d.tab[T].ents = <<>>
      /\ \A U \in DOMAIN s.tab \ {dst, T} : d.tab[U] = s.tab[U]
  BY <1>6 DEF MergeEffect
<1>9. OpInv(d, o) /\ Moving(d, o) = {}
  BY <1>1, <1>2, <1>3, <1>4, <1>8 DEF OpInv, Moving
<1>10. Root \in DOMAIN d.tab BY <1>2, <1>4, <1>8
<1> QED BY <1>1, <1>7, <1>8, <1>9, <1>10 DEF RowsInv, RowsState

LEMMA TypesFinite ==
  ASSUME NEW S \in SUBSET Types
  PROVE  IsFiniteSet(S) /\ Cardinality(S) \in Nat
<1>1. IsFiniteSet(Types) BY FS_SUBSET, ConstantsAssumption DEF Types
<1> QED BY <1>1, FS_Subset, FS_CardinalityType

\* Empty tables are deleted.
LEMMA FinishedState ==
  ASSUME NEW s, IsStore(s), Root \in DOMAIN s.tab, Rows(s.rec, s.tab, {}),
         NEW tables \in SUBSET (DOMAIN s.tab \ {Root}), \A T \in tables : s.tab[T].ents = <<>>,
         NEW order \in Seq(tables)
  PROVE  LET d == FiniAll(s, tables, order) IN
         IsStore(d) /\ Root \in DOMAIN d.tab /\ Rows(d.rec, d.tab, {})
<1> DEFINE d == FiniAll(s, tables, order)
<1>1. FiniEffect(s, d, tables, order) BY FinishedFields
<1> HIDE DEF d
<1>2. /\ IsStore(d) /\ d.rec = s.rec /\ DOMAIN d.tab = DOMAIN s.tab \ tables
      /\ \A U \in DOMAIN s.tab \ tables : d.tab[U] = s.tab[U]
  BY <1>1 DEF FiniEffect
<1>3. \A T \in DOMAIN d.tab : /\ d.tab[T].ents = s.tab[T].ents /\ d.tab[T].cols = s.tab[T].cols
                              /\ Len(s.tab[T].ents) <= d.tab[T].size
  BY <1>2 DEF Rows, Sized
<1>4. Rows(s.rec, d.tab, {})
  <2>1. DOMAIN d.tab \subseteq DOMAIN s.tab BY <1>2
  <2>2. \A T \in DOMAIN s.tab \ DOMAIN d.tab : s.tab[T].ents = <<>> BY <1>2
  <2> QED BY ONLY Rows(s.rec, s.tab, {}), <1>3, <2>1, <2>2, RowsKept
<1> QED BY <1>2, <1>4 DEF d

LEMMA ShrunkState ==
  ASSUME NEW s, IsStore(s), Root \in DOMAIN s.tab, Rows(s.rec, s.tab, {}),
         NEW tables \in SUBSET DOMAIN s.tab
  PROVE  LET d == ShrinkAll(s, tables) IN
         /\ IsStore(d) /\ DOMAIN d.tab = DOMAIN s.tab /\ Rows(d.rec, d.tab, {})
         /\ \A T \in DOMAIN s.tab : d.tab[T].ents = s.tab[T].ents
<1> DEFINE d == ShrinkAll(s, tables)
<1>1. ShrinkEffect(s, d, tables) BY ShrunkFields
<1> HIDE DEF d
<1>2. /\ IsStore(d) /\ d.rec = s.rec /\ DOMAIN d.tab = DOMAIN s.tab
      /\ \A T \in DOMAIN s.tab \ Loose(s, tables) : d.tab[T] = s.tab[T]
      /\ \A T \in Loose(s, tables) : /\ d.tab[T].ents = s.tab[T].ents
                                     /\ d.tab[T].cols = s.tab[T].cols
                                     /\ d.tab[T].size = Len(s.tab[T].ents)
  BY <1>1 DEF ShrinkEffect
<1>3. ASSUME NEW T \in DOMAIN d.tab
      PROVE  /\ d.tab[T].ents = s.tab[T].ents /\ d.tab[T].cols = s.tab[T].cols
             /\ Len(s.tab[T].ents) <= d.tab[T].size
  <2>1. CASE T \in Loose(s, tables)
    <3>1. Len(s.tab[T].ents) \in Nat BY <1>2, TableIn
    <3> QED BY <1>2, <2>1, <3>1
  <2>2. CASE T \notin Loose(s, tables) BY <1>2, <2>2 DEF Rows, Sized
  <2> QED BY <2>1, <2>2
<1>4. Rows(s.rec, d.tab, {})
  BY ONLY Rows(s.rec, s.tab, {}), <1>2, <1>3, RowsKept
<1> QED BY <1>2, <1>3, <1>4 DEF d

LEMMA CleanEndRows ==
  ASSUME RowsInv, CleanEnd
  PROVE  RowsInv'
<1> DEFINE tables == {T \in DOMAIN store.tab : op.comp \in T /\ Deletable(T)}
<1>1. PICK order \in SetToSeqs(tables) :
        store' = FiniAll(store, tables, order) /\ op' = Idle /\ op.kind # "move"
  BY DEF CleanEnd, Becomes
<1>2. IsStore(store) /\ Root \in DOMAIN store.tab /\ Rows(store.rec, store.tab, {})
  BY <1>1 DEF RowsInv, RowsState, Moving
<1>3. tables \in SUBSET (DOMAIN store.tab \ {Root}) /\ \A T \in tables : store.tab[T].ents = <<>>
  BY DEF Deletable
<1>4. tables \in SUBSET Types BY <1>2 DEF IsStore, IsTab
<1> HIDE DEF tables
<1>5. order \in Seq(tables)
  <2>1. order \in [1..Cardinality(tables) -> tables] BY DEF SetToSeqs
  <2>2. Cardinality(tables) \in Nat BY <1>4, TypesFinite
  <2> QED BY <2>1, <2>2
<1>6. IsStore(store') /\ Root \in DOMAIN store'.tab /\ Rows(store'.rec, store'.tab, {})
  BY <1>1, <1>2, <1>3, <1>5, FinishedState
<1>7. RowsState(store', Idle) BY <1>6, IdleState
<1> QED BY <1>1, <1>7 DEF RowsInv

LEMMA ShrinkRows ==
  ASSUME RowsInv, Shrink
  PROVE  RowsInv'
<1> DEFINE full == {T \in DOMAIN store.tab : store.tab[T].ents # <<>>} \cup {Root}
           tables == {T \in DOMAIN store.tab : Deletable(T)}
           shrunk == ShrinkAll(store, full)
           left == FiniAll(shrunk, tables, <<>>)
           d == [left EXCEPT !.ids.free = <<>>]
<1>1. op = Idle /\ op' = Idle /\ store' = d BY DEF Shrink, Becomes
<1>2. IsStore(store) /\ Root \in DOMAIN store.tab /\ Rows(store.rec, store.tab, {})
  BY <1>1, IdleFacts
<1>3. full \in SUBSET DOMAIN store.tab BY <1>2
<1>4. tables \in SUBSET (DOMAIN store.tab \ {Root}) /\ \A T \in tables : store.tab[T].ents = <<>>
  BY DEF Deletable
<1> HIDE DEF full, tables
<1>5. /\ IsStore(shrunk) /\ DOMAIN shrunk.tab = DOMAIN store.tab
      /\ Rows(shrunk.rec, shrunk.tab, {})
      /\ \A T \in DOMAIN store.tab : shrunk.tab[T].ents = store.tab[T].ents
  BY <1>2, <1>3, ShrunkState
<1> HIDE DEF shrunk
<1>6. IsStore(left) /\ Root \in DOMAIN left.tab /\ Rows(left.rec, left.tab, {})
  <2>1. tables \in SUBSET (DOMAIN shrunk.tab \ {Root})
        /\ \A T \in tables : shrunk.tab[T].ents = <<>>
    BY <1>4, <1>5
  <2>2. <<>> \in Seq(tables) /\ Root \in DOMAIN shrunk.tab BY <1>2, <1>5
  <2> QED BY <1>5, <2>1, <2>2, FinishedState, Zenon
<1> HIDE DEF left
<1>7. IsStore(d) /\ d.tab = left.tab /\ d.rec = left.rec
  <2>1. /\ d.ids = [left.ids EXCEPT !.free = <<>>]
        /\ d.tab = left.tab /\ d.rec = left.rec /\ d.fast = left.fast
        /\ d \in [rec : {d.rec}, tab : {d.tab}, fast : {d.fast}, ids : {d.ids}]
    BY <1>6 DEF IsStore
  <2> HIDE DEF d
  <2>2. IsIds(d.ids)
    <3>1. left.ids \in [next : Nat, free : Seq(Nat \X Nat)] BY <1>6 DEF IsStore, IsIds
    <3>2. <<>> \in Seq(Nat \X Nat) OBVIOUS
    <3>3. d.ids = [left.ids EXCEPT !.free = <<>>] BY <2>1
    <3>4. d.ids \in [next : Nat, free : Seq(Nat \X Nat)] BY ONLY <3>1, <3>2, <3>3
    <3> QED BY ONLY <3>4 DEF IsIds
  <2> QED BY <1>6, <2>1, <2>2 DEF IsStore
<1> HIDE DEF d
<1>8. RowsState(d, Idle) BY <1>6, <1>7, IdleState
<1> QED BY <1>1, <1>8 DEF RowsInv

LEMMA DeleteEmptyTableRows ==
  ASSUME RowsInv, NEW T \in Types, DeleteEmptyTable(T)
  PROVE  RowsInv'
<1>1. /\ op = Idle /\ op' = Idle /\ T \in DOMAIN store.tab /\ T # Root /\ store.tab[T].ents = <<>>
      /\ store' = FiniAll(store, {T}, <<T>>) \/ store' = ShrinkAll(store, {T})
  BY DEF DeleteEmptyTable, Becomes, Deletable
<1>2. IsStore(store) /\ Root \in DOMAIN store.tab /\ Rows(store.rec, store.tab, {})
  BY <1>1, IdleFacts
<1>3. IsStore(store') /\ Root \in DOMAIN store'.tab /\ Rows(store'.rec, store'.tab, {})
  <2>1. CASE store' = FiniAll(store, {T}, <<T>>)
    <3>1. /\ {T} \in SUBSET (DOMAIN store.tab \ {Root}) /\ <<T>> \in Seq({T})
          /\ \A U \in {T} : store.tab[U].ents = <<>>
      BY <1>1
    <3> QED BY <1>2, <2>1, <3>1, FinishedState
  <2>2. CASE store' = ShrinkAll(store, {T})
    <3>1. {T} \in SUBSET DOMAIN store.tab BY <1>1
    <3> QED BY <1>2, <2>2, <3>1, ShrunkState
  <2> QED BY <1>1, <2>1, <2>2
<1>4. RowsState(store', Idle) BY <1>3, IdleState
<1> QED BY <1>1, <1>4 DEF RowsInv

LEMMA SwapRowsRows ==
  ASSUME RowsInv, NEW T \in Types, NEW j, NEW k, SwapRows(T, j, k)
  PROVE  RowsInv'
<1> DEFINE ents == store.tab[T].ents
           a == ents[j][1]
           b == ents[k][1]
           rec2 == [store.rec EXCEPT ![a].row = k, ![b].row = j]
           t == [store.tab[T] EXCEPT !.ents = Exchange(@, j, k),
                                     !.cols = [c \in T |-> Exchange(@[c], j, k)]]
           x == [store EXCEPT !.rec[a].row = k, !.rec[b].row = j,
                              !.tab[T].ents = Exchange(@, j, k),
                              !.tab[T].cols = [c \in T |-> Exchange(@[c], j, k)]]
           d == Dirty(x, T)
<1>1. /\ op = Idle /\ op' = Idle /\ store' = d /\ T \in DOMAIN store.tab
      /\ j \in DOMAIN ents /\ k \in DOMAIN ents /\ j < k
  BY Zenon DEF SwapRows, Becomes
<1>2. IsStore(store) /\ Root \in DOMAIN store.tab /\ Rows(store.rec, store.tab, {})
  BY <1>1, IdleFacts
<1>3. /\ IsTab(store.tab) /\ IsTable(T, store.tab[T]) /\ ents \in Seq(Ent)
      /\ store.tab[T].cols \in [T -> Seq(Value)] /\ store.rec \in [Indices -> RecType]
      /\ j \in Nat /\ k \in Nat /\ j # k /\ Sized(T, store.tab[T])
  <2>1. /\ IsTab(store.tab) /\ IsTable(T, store.tab[T]) /\ ents \in Seq(Ent)
        /\ store.tab[T].cols \in [T -> Seq(Value)]
    BY ONLY <1>1, <1>2, TableIn, Zenon
  <2>2. store.rec \in [Indices -> RecType] BY <1>2 DEF IsStore
  <2>3. j \in Nat /\ k \in Nat /\ j # k BY <1>1, <2>1, SMTT(20)
  <2>4. Sized(T, store.tab[T]) BY <1>1, <1>2 DEF Rows
  <2> QED BY <2>1, <2>2, <2>3, <2>4
<1>4. a \in Indices /\ b \in Indices BY <1>1, <1>3, RowFacts, Zenon
<1>5. /\ x.rec = rec2 /\ x.ids = store.ids /\ x.fast = store.fast
      /\ x.tab = [store.tab EXCEPT ![T] = t]
      /\ x \in [rec : {x.rec}, tab : {x.tab}, fast : {x.fast}, ids : {x.ids}]
  BY <1>1, <1>2, Zenon DEF IsStore
<1>6. rec2 \in [Indices -> RecType]
  <2> HIDE DEF a, b
  <2> QED BY <1>3, <1>4, Zenon DEF RecType
<1>7. /\ t.id = store.tab[T].id /\ t.version = store.tab[T].version /\ t.size = store.tab[T].size
      /\ t.ents = Exchange(ents, j, k) /\ t.cols = Swapped(T, store.tab[T].cols, j, k)
      /\ IsTable(T, t)
  <2>1. Exchange(ents, j, k) \in Seq(Ent) BY ONLY <1>1, <1>3, Exchanged
  <2>2. Swapped(T, store.tab[T].cols, j, k) \in [T -> Seq(Value)]
    <3>1. ASSUME NEW c \in T PROVE Exchange(store.tab[T].cols[c], j, k) \in Seq(Value)
      <4> DEFINE q == store.tab[T].cols[c]
      <4>1. q \in Seq(Value) BY ONLY <1>3, <3>1
      <4>2. Len(q) = Len(ents) BY ONLY <1>3, <3>1 DEF Sized
      <4>3. DOMAIN q = 1..Len(q) /\ DOMAIN ents = 1..Len(ents) BY ONLY <1>3, <4>1, LenProperties
      <4>4. j \in DOMAIN q /\ k \in DOMAIN q BY ONLY <1>1, <4>2, <4>3
      <4> HIDE DEF q
      <4>5. Exchange(q, j, k) \in Seq(Value) BY ONLY <1>3, <4>1, <4>4, Exchanged
      <4> QED BY <4>5 DEF q
    <3> QED BY <3>1 DEF Swapped
  <2>3. /\ t.ents = Exchange(ents, j, k) /\ t.cols = Swapped(T, store.tab[T].cols, j, k)
        /\ t.id = store.tab[T].id /\ t.version = store.tab[T].version
        /\ t.size = store.tab[T].size
        /\ t \in [id : {t.id}, version : {t.version}, ents : {t.ents}, cols : {t.cols},
                  size : {t.size}, mem : {t.mem}]
    BY <1>3, Zenon DEF IsTable, Swapped
  <2>4. t.id \in Nat \X Nat /\ t.version \in Nat /\ t.size \in Nat BY <1>1, <1>2, <2>3, TableIn, Zenon
  <2> HIDE DEF t
  <2>5. IsTable(T, t) BY <2>1, <2>2, <2>3, <2>4, TableWith
  <2> QED BY <2>3, <2>5
<1> HIDE DEF t, x, rec2
<1>8. /\ IsStore(d) /\ d.rec = x.rec /\ d.ids = store.ids
      /\ OnlyTable(store.tab, d.tab, T) /\ Bumped(store, d, T)
      /\ d.tab[T].ents = t.ents /\ d.tab[T].cols = t.cols
      /\ d.tab[T].size = t.size /\ d.tab[T].mem = t.mem
  BY ONLY <1>1, <1>2, <1>5, <1>6, <1>7, EditedFields
<1> HIDE DEF d
<1>9. Rows(d.rec, d.tab, {})
  <2>1. /\ d.tab[T].ents = Exchange(ents, j, k) /\ d.tab[T].size = store.tab[T].size
        /\ d.tab[T].cols = Swapped(T, store.tab[T].cols, j, k) /\ d.rec = SwappedRecs(store.rec, ents, j, k)
    BY <1>5, <1>7, <1>8, Zenon DEF rec2, SwappedRecs
  <2>2. store.rec \in [Indices -> RecType] /\ IsTab(store.tab) /\ Rows(store.rec, store.tab, {})
    BY <1>2, <1>3
  <2>3. T \in DOMAIN store.tab /\ j \in DOMAIN ents /\ k \in DOMAIN ents /\ j # k BY <1>1, <1>3
  <2>4. OnlyTable(store.tab, d.tab, T) BY <1>8
  <2> QED BY ONLY <2>1, <2>2, <2>3, <2>4, RowsSwapped, SMTT(30)
<1>10. RowsState(d, Idle) BY <1>2, <1>8, <1>9, IdleState DEF OnlyTable
<1> QED BY <1>1, <1>10 DEF RowsInv

LEMMA InitRows == Init => RowsInv
<1> SUFFICES ASSUME Init PROVE RowsInv OBVIOUS
<1> DEFINE r == [gen |-> 1, alive |-> FALSE, table |-> Root, row |-> 0]
           t == EmptyTable(Root, RootId)
<1>1. /\ store.rec = [i \in Indices |-> r] /\ store.tab = [T \in {Root} |-> t] /\ op = Idle
      /\ store.ids = [next |-> 1, free |-> <<>>]
      /\ store \in [rec : {store.rec}, tab : {store.tab}, fast : {store.fast}, ids : {store.ids}]
  BY DEF Init
<1>2. Root \in Types /\ r \in RecType BY DEF Root, Types, RecType
<1>3. IsTable(Root, t) /\ t.ents = <<>> /\ t.size = 0 BY DEF IsTable, EmptyTable, RootId, Root
<1> HIDE DEF t
<1>4. IsTab(store.tab) BY <1>1, <1>2, <1>3 DEF IsTab
<1>5. IsStore(store)
  <2>1. store.rec \in [Indices -> RecType] BY <1>1, <1>2
  <2>2. IsIds(store.ids) BY <1>1 DEF IsIds
  <2> QED BY <1>1, <1>4, <2>1, <2>2 DEF IsStore
<1>6. Rows(store.rec, store.tab, {}) BY <1>1, <1>3 DEF Rows, Sized, Root
<1> QED BY <1>1, <1>5, <1>6, IdleState DEF RowsInv

LEMMA NextRows == RowsInv /\ [Next]_vars => RowsInv'
<1> SUFFICES ASSUME RowsInv, [Next]_vars PROVE RowsInv' OBVIOUS
<1>1. ASSUME store' = store, op' = op PROVE RowsInv' BY <1>1 DEF RowsInv
<1>2. CASE UNCHANGED vars BY <1>1, <1>2 DEF vars
<1>3. ASSUME NEW i \in Indices, NEW T \in Types, NewEntity(i, T) PROVE RowsInv'
  BY <1>3, NewEntityRows
<1>4. ASSUME NEW i \in Indices, NEW T \in Types, MoveBegin(i, T) PROVE RowsInv'
  BY <1>4, MoveBeginRows
<1>5. ASSUME NEW i \in Indices, NEW j \in Indices, NEW T \in Types, BulkNew(i, j, T) PROVE RowsInv'
  BY <1>5, BulkNewRows
<1>6. ASSUME NEW i \in Indices, Delete(i) PROVE RowsInv' BY <1>6, DeleteRows
<1>7. CASE MoveEnd BY <1>7, MoveEndRows
<1>8. ASSUME NEW kind \in {"remove", "delete"}, NEW c \in Comps, CleanBegin(kind, c) PROVE RowsInv'
  BY <1>8, CleanBeginRows
<1>9. ASSUME NEW T \in Types, RemoveFromTable(T) PROVE RowsInv' BY <1>9, RemoveFromTableRows
<1>10. ASSUME NEW T \in Types, ClearEntities(T) PROVE RowsInv' BY <1>10, ClearEntitiesRows
<1>11. ASSUME NEW T \in Types, DeleteEmptyTable(T) PROVE RowsInv' BY <1>11, DeleteEmptyTableRows
<1>12. CASE CleanEnd BY <1>12, CleanEndRows
<1>13. CASE Shrink BY <1>13, ShrinkRows
<1>14. ASSUME NEW T \in Types, NEW j, NEW k, SwapRows(T, j, k) PROVE RowsInv'
  BY <1>14, SwapRowsRows
<1>15. ASSUME NEW r, NEW i, NEW c, RefInit(r, i, c) PROVE RowsInv' BY <1>1, <1>15 DEF RefInit
<1>16. ASSUME NEW r, RefGet(r) PROVE RowsInv' BY <1>1, <1>16 DEF RefGet
<1> QED BY <1>2, <1>3, <1>4, <1>5, <1>6, <1>7, <1>8, <1>9, <1>10, <1>11, <1>12, <1>13, <1>14,
           <1>15, <1>16 DEF Next

\* Records, rows and columns stay in step through every operation, whichever
\* entities, components and bounds there are.
THEOREM StorageStaysConsistent == Spec => []StorageConsistent
<1>1. RowsInv => StorageConsistent
  <2> SUFFICES ASSUME RowsInv PROVE StorageConsistent OBVIOUS
  <2>1. Rows(store.rec, store.tab, Moving(store, op)) BY DEF RowsInv, RowsState
  <2>2. \A T \in DOMAIN store.tab : \A row \in DOMAIN store.tab[T].ents :
          ~InTransit(T, row) => <<T, row>> \notin Moving(store, op)
    BY DEF InTransit, Moving
  <2>3. \A i \in Indices : store.rec[i].alive => HasRow(store.rec, store.tab, i)
    BY <2>1 DEF Rows
  <2>4. \A T \in DOMAIN store.tab : Sized(T, store.tab[T]) BY <2>1 DEF Rows
  <2>5. \A T \in DOMAIN store.tab : \A row \in DOMAIN store.tab[T].ents :
          ~InTransit(T, row) => AtRow(store.rec, store.tab, T, row)
    BY <2>1, <2>2 DEF Rows
  <2>6. ASSUME NEW i \in Indices, store.rec[i].alive
        PROVE  LET r == store.rec[i]
               IN  /\ r.table \in DOMAIN store.tab
                   /\ r.row \in DOMAIN store.tab[r.table].ents
                   /\ store.tab[r.table].ents[r.row] = <<i, r.gen>>
    BY <2>3, <2>6 DEF HasRow
  <2>7. ASSUME NEW T \in DOMAIN store.tab
        PROVE  LET t == store.tab[T] IN
               /\ Len(t.ents) <= t.size
               /\ \A c \in T : Len(t.cols[c]) = Len(t.ents)
               /\ \A row \in DOMAIN t.ents : ~InTransit(T, row) =>
                    /\ Alive(t.ents[row])
                    /\ store.rec[t.ents[row][1]].table = T /\ store.rec[t.ents[row][1]].row = row
                    /\ \A c \in T : t.cols[c][row] = t.ents[row]
    <3>1. \A row \in DOMAIN store.tab[T].ents : ~InTransit(T, row) =>
            LET e == store.tab[T].ents[row] IN
            /\ Alive(e) /\ store.rec[e[1]].table = T /\ store.rec[e[1]].row = row
            /\ \A c \in T : store.tab[T].cols[c][row] = e
      BY ONLY <2>5, T \in DOMAIN store.tab, Zenon DEF AtRow, AliveIn, Alive
    <3> QED BY <2>4, <3>1 DEF Sized
  <2> QED BY ONLY <2>6, <2>7, Zenon DEF StorageConsistent
<1> QED BY InitRows, NextRows, <1>1, PTL DEF Spec

-----------------------------------------------------------------------------
(* The inductive invariant of the references.                              *)

IdsInv(s) ==
  /\ Root \in DOMAIN s.tab /\ s.tab[Root].id = RootId
  /\ \A T \in DOMAIN s.tab :
       /\ s.tab[T].id[1] < s.ids.next
       /\ \A U \in DOMAIN s.tab : s.tab[U].id[1] = s.tab[T].id[1] => U = T
  /\ \A k \in DOMAIN s.ids.free :
       /\ s.ids.free[k][1] < s.ids.next
       /\ \A T \in DOMAIN s.tab : s.tab[T].id[1] # s.ids.free[k][1]
       /\ \A j \in DOMAIN s.ids.free : s.ids.free[j][1] = s.ids.free[k][1] => j = k

\* A table's own counter is at most the one it shares with others.
VersionsInv(s) ==
  /\ s.fast \in [0..VersionSlots - 1 -> Nat]
  /\ \A T \in DOMAIN s.tab : s.tab[T].version \in 1..s.fast[Slot(s.tab[T].id)] + 1

FastBound(s, n) == \A k \in 0..VersionSlots - 1 : s.fast[k] <= n

\* What every store satisfies, with n a bound of the counters.
Sound(s, n) == IsStore(s) /\ IdsInv(s) /\ VersionsInv(s) /\ FastBound(s, n)

ResolveIn(s, e, c) ==
  LET r == s.rec[e[1]] IN
  IF AliveIn(s.rec, e) /\ c \in r.table
  THEN [mem |-> s.tab[r.table].mem, comp |-> {c}, row |-> r.row]
  ELSE Null

\* What a reference remembers is the version that T has.
Matches(s, ref, T) == s.tab[T].id = ref.tid /\ s.tab[T].version = ref.version

\* The tables whose entities a removal has already moved: nothing marked them
\* dirty, and they are deleted when it ends.
Left(s, o) ==
  IF o.kind = "remove" THEN {T \in DOMAIN s.tab : o.comp \in T /\ T \notin o.todo} ELSE {}

IsCleared(ref) == ref.tid = RootId /\ ref.version = 0 /\ ref.ptr = Null

IsRef(ref) ==
  ref \in [ent : Ent, comp : Comps, tid : Nat \X Nat, fast : Nat, version : Nat, ptr : {ref.ptr}]

\* A reference that remembers the version of a table gives what is there; left
\* are tables that it must not be used for.
PtrInv(s, ref, left) ==
  \A T \in DOMAIN s.tab \ left : Matches(s, ref, T) =>
    /\ AliveIn(s.rec, ref.ent) /\ s.rec[ref.ent[1]].table = T
    /\ ref.ptr = ResolveIn(s, ref.ent, ref.comp)

\* One that remembers the counter of the slot remembers the version of a table,
\* or was cleared.
FastInv(s, ref) ==
  /\ ref.fast <= s.fast[Slot(ref.tid)]
  /\ ref.fast = s.fast[Slot(ref.tid)] =>
       \/ \E T \in DOMAIN s.tab : Matches(s, ref, T)
       \/ IsCleared(ref) /\ s.rec[ref.ent[1]].gen > ref.ent[2]

\* An entity that is not alive never is again.
EntInv(s, ref) ==
  /\ s.rec[ref.ent[1]].gen >= ref.ent[2]
  /\ s.rec[ref.ent[1]].gen = ref.ent[2] => s.rec[ref.ent[1]].alive

\* What it remembers of a table is not ahead of the tables there are and will be.
TidInv(s, ref) ==
  /\ ref.tid[1] < s.ids.next
  /\ \A T \in DOMAIN s.tab :
       s.tab[T].id[1] = ref.tid[1] =>
         /\ s.tab[T].id[2] >= ref.tid[2]
         /\ s.tab[T].id[2] = ref.tid[2] => s.tab[T].version >= ref.version
  /\ \A k \in DOMAIN s.ids.free :
       s.ids.free[k][1] = ref.tid[1] => s.ids.free[k][2] > ref.tid[2]

RefInv(s, ref, left) ==
  PtrInv(s, ref, left) /\ FastInv(s, ref) /\ EntInv(s, ref) /\ TidInv(s, ref)

RefsOK(rs, s, left) ==
  \A r \in Refs : \A ref \in rs[r] : IsRef(ref) /\ RefInv(s, ref, left)

RefsInv ==
  /\ IdsInv(store) /\ VersionsInv(store) /\ FastBound(store, MaxFast)
  /\ DOMAIN refs = Refs /\ refs = [r \in Refs |-> refs[r]]
  /\ RefsOK(refs, store, Left(store, op))

\* The bounds of the counters are below those of their types, an array of
\* uint32_t and a uint16_t, no table is kept once it is empty, and no observer
\* of a removal uses a reference.
NoWrap ==
  /\ MaxFast + 4 * Cardinality(Types) < FastMod /\ MaxFast + 2 < VersionMod
  /\ Kept = {} /\ ~ObserversRead

-----------------------------------------------------------------------------
(* What a change may do without making a reference stale.                  *)

\* No record but those of the entities in tables changed, no entity came back.
RecsKept(rec, rec2, tables) ==
  \A i \in Indices :
    /\ rec[i].alive /\ rec[i].table \notin tables => rec2[i] = rec[i]
    /\ rec[i].gen <= rec2[i].gen
    /\ rec[i].alive /\ rec[i].gen = rec2[i].gen => rec2[i].alive

SameStamp(s, d, T) == d.tab[T].id = s.tab[T].id /\ d.tab[T].version = s.tab[T].version

\* Nothing of T changed.
Unmoved(s, d, T) ==
  /\ T \in DOMAIN d.tab /\ SameStamp(s, d, T) /\ d.tab[T].mem = s.tab[T].mem
  /\ \A i \in Indices : s.rec[i].alive /\ s.rec[i].table = T => d.rec[i] = s.rec[i]

\* T changed or is gone, and its counters show it.
Shown(s, d, T) ==
  /\ d.fast[Slot(s.tab[T].id)] > s.fast[Slot(s.tab[T].id)]
  /\ T \in DOMAIN d.tab => d.tab[T].id = s.tab[T].id /\ d.tab[T].version > s.tab[T].version

NewId(s, id) == id[1] >= s.ids.next \/ \E k \in DOMAIN s.ids.free : id = s.ids.free[k]

\* src are tables whose entities moved without a trace.
Evolves(s, d, src) ==
  /\ \A i \in Indices : /\ s.rec[i].gen <= d.rec[i].gen
                        /\ s.rec[i].alive /\ s.rec[i].gen = d.rec[i].gen => d.rec[i].alive
  /\ \A n \in 0..VersionSlots - 1 : s.fast[n] <= d.fast[n]
  /\ s.ids.next <= d.ids.next
  /\ \A T \in DOMAIN s.tab :
       Unmoved(s, d, T) \/ Shown(s, d, T) \/ (T \in src \cap DOMAIN d.tab /\ SameStamp(s, d, T))
  /\ \A T \in DOMAIN d.tab \ DOMAIN s.tab : NewId(s, d.tab[T].id)
  /\ \A k \in DOMAIN d.ids.free :
       \/ \E j \in DOMAIN s.ids.free : d.ids.free[k] = s.ids.free[j]
       \/ \E T \in DOMAIN s.tab : d.ids.free[k] = NextGen(s.tab[T].id)

LEMMA SlotIn ==
  ASSUME NEW id \in Nat \X Nat
  PROVE  Slot(id) \in 0..VersionSlots - 1
<1>1. id[1] \in Nat /\ VersionSlots \in Nat \ {0} BY ConstantsAssumption
<1> QED BY <1>1 DEF Slot

LEMMA FreeIn ==
  ASSUME NEW s, IsStore(s), NEW k \in DOMAIN s.ids.free
  PROVE  s.ids.free[k] \in Nat \X Nat
<1>1. s.ids.free \in Seq(Nat \X Nat) BY DEF IsStore, IsIds
<1> QED BY <1>1

\* Two ids are the same if their parts are.
LEMMA SameId ==
  ASSUME NEW a \in Nat \X Nat, NEW b \in Nat \X Nat, a[1] = b[1], a[2] = b[2]
  PROVE  a = b
OBVIOUS

LEMMA SmallMod ==
  ASSUME NEW a \in Nat, NEW b \in Nat, a < b
  PROVE  a % b = a
OBVIOUS

LEMMA LessAtMost ==
  ASSUME NEW a \in Nat, NEW b \in Nat, NEW c \in Nat, a < b, b <= c
  PROVE  a < c
OBVIOUS

LEMMA TailAt ==
  ASSUME NEW S, NEW q \in Seq(S), q # <<>>
  PROVE  \A k \in DOMAIN Tail(q) : k \in Nat /\ k + 1 \in DOMAIN q /\ Tail(q)[k] = q[k + 1]
OBVIOUS

LEMMA RefEvolves ==
  ASSUME NEW s, IsStore(s), VersionsInv(s), NEW d, IsStore(d), VersionsInv(d), NEW src, Evolves(s, d, src),
         NEW left, NEW left2, src \subseteq left2, left \cap DOMAIN d.tab \subseteq left2,
         NEW ref, IsRef(ref), RefInv(s, ref, left)
  PROVE  RefInv(d, ref, left2)
<1>1. /\ ref.tid \in Nat \X Nat /\ ref.fast \in Nat /\ ref.version \in Nat
      /\ ref.ent \in Ent /\ ref.ent[1] \in Indices /\ ref.ent[2] \in Nat
      /\ ref.tid[1] \in Nat /\ ref.tid[2] \in Nat
  BY DEF IsRef, Ent
<1>2. Slot(ref.tid) \in 0..VersionSlots - 1 BY <1>1, SlotIn
<1> DEFINE n == Slot(ref.tid)
           i == ref.ent[1]
<1>3. s.fast[n] \in Nat /\ d.fast[n] \in Nat /\ s.fast[n] <= d.fast[n]
  <2>1. s.fast[n] <= d.fast[n] BY <1>2 DEF Evolves
  <2>2. s.fast[n] \in Nat /\ d.fast[n] \in Nat BY <1>2 DEF VersionsInv
  <2> QED BY <2>1, <2>2
<1>4. /\ s.rec[i] \in RecType /\ d.rec[i] \in RecType
      /\ s.rec[i].gen <= d.rec[i].gen
      /\ s.rec[i].alive /\ s.rec[i].gen = d.rec[i].gen => d.rec[i].alive
  BY <1>1 DEF IsStore, Evolves
<1>5. s.ids.next \in Nat /\ d.ids.next \in Nat /\ s.ids.next <= d.ids.next
  BY DEF IsStore, IsIds, Evolves
\* A table that is new never had the id the reference remembers.
<1>6. ASSUME NEW id \in Nat \X Nat, NewId(s, id), id[1] = ref.tid[1] PROVE id[2] > ref.tid[2]
  <2>1. ref.tid[1] < s.ids.next BY DEF RefInv, TidInv
  <2>2. ~(id[1] >= s.ids.next) BY <1>1, <1>5, <1>6, <2>1
  <2>3. PICK k \in DOMAIN s.ids.free : id = s.ids.free[k] BY <1>6, <2>2 DEF NewId
  <2> QED BY <1>6, <2>3 DEF RefInv, TidInv
<1>7. ASSUME NEW T \in DOMAIN d.tab, T \notin DOMAIN s.tab, d.tab[T].id[1] = ref.tid[1]
      PROVE  d.tab[T].id[2] > ref.tid[2]
  <2>1. NewId(s, d.tab[T].id) BY <1>7 DEF Evolves
  <2>2. d.tab[T].id \in Nat \X Nat BY TableIn
  <2> QED BY <1>6, <1>7, <2>1, <2>2
<1>8. ASSUME NEW T \in DOMAIN s.tab, s.tab[T].id = ref.tid, Shown(s, d, T)
      PROVE  d.fast[n] > s.fast[n]
  BY <1>8 DEF Shown
<1>9. PtrInv(d, ref, left2)
  <2> SUFFICES ASSUME NEW T \in DOMAIN d.tab \ left2, Matches(d, ref, T)
               PROVE  /\ AliveIn(d.rec, ref.ent) /\ d.rec[i].table = T
                      /\ ref.ptr = ResolveIn(d, ref.ent, ref.comp)
    BY DEF PtrInv
  <2>1. d.tab[T].id = ref.tid /\ d.tab[T].version = ref.version BY DEF Matches
  <2>2. T \in DOMAIN s.tab BY <1>1, <1>7, <2>1
  <2>3. ~Shown(s, d, T)
    <3> SUFFICES ASSUME Shown(s, d, T) PROVE FALSE OBVIOUS
    <3>1. s.tab[T].id = ref.tid /\ d.tab[T].version > s.tab[T].version BY <2>1 DEF Shown
    <3>2. s.tab[T].version >= ref.version BY <1>1, <2>2, <3>1 DEF RefInv, TidInv
    <3>3. s.tab[T].version \in Nat BY <2>2, TableIn
    <3> QED BY <1>1, <2>1, <3>1, <3>2, <3>3
  <2>4. T \notin src OBVIOUS
  <2>5. Unmoved(s, d, T) BY <2>2, <2>3, <2>4 DEF Evolves
  <2>6. Matches(s, ref, T) BY <2>1, <2>5 DEF Unmoved, SameStamp, Matches
  <2>7. /\ AliveIn(s.rec, ref.ent) /\ s.rec[i].table = T
        /\ ref.ptr = ResolveIn(s, ref.ent, ref.comp)
    BY <2>2, <2>6 DEF RefInv, PtrInv
  <2>8. d.rec[i] = s.rec[i] BY <1>1, <2>5, <2>7 DEF Unmoved, AliveIn
  <2>9. d.tab[T].mem = s.tab[T].mem BY <2>5 DEF Unmoved
  <2> QED BY <2>7, <2>8, <2>9 DEF AliveIn, ResolveIn
<1>10. FastInv(d, ref)
  <2>1. ref.fast <= s.fast[n] BY DEF RefInv, FastInv
  <2>2. ref.fast <= d.fast[n] BY <1>1, <1>3, <2>1
  <2>3. ASSUME ref.fast = d.fast[n]
        PROVE  (\E T \in DOMAIN d.tab : Matches(d, ref, T)) \/ (IsCleared(ref) /\ d.rec[i].gen > ref.ent[2])
    <3>1. ref.fast = s.fast[n] /\ d.fast[n] = s.fast[n] BY <1>1, <1>3, <2>1, <2>3
    <3>2. CASE IsCleared(ref) /\ s.rec[i].gen > ref.ent[2]
      <4>1. d.rec[i].gen > ref.ent[2] BY <1>1, <1>4, <3>2 DEF RecType
      <4> QED BY <3>2, <4>1
    <3>3. ASSUME NEW T \in DOMAIN s.tab, Matches(s, ref, T)
          PROVE  T \in DOMAIN d.tab /\ Matches(d, ref, T)
      <4>1. s.tab[T].id = ref.tid BY <3>3 DEF Matches
      <4>2. ~Shown(s, d, T) BY <1>3, <1>8, <3>1, <4>1
      <4>3. T \in DOMAIN d.tab /\ SameStamp(s, d, T) BY <4>2 DEF Evolves, Unmoved
      <4> QED BY <3>3, <4>3 DEF SameStamp, Matches
    <3> QED BY <3>1, <3>2, <3>3 DEF RefInv, FastInv
  <2> QED BY <2>2, <2>3 DEF FastInv
<1>11. EntInv(d, ref)
  <2>1. s.rec[i].gen >= ref.ent[2] /\ (s.rec[i].gen = ref.ent[2] => s.rec[i].alive)
    BY DEF RefInv, EntInv
  <2>2. s.rec[i].gen \in Nat /\ d.rec[i].gen \in Nat BY <1>4 DEF RecType
  <2> QED BY <1>1, <1>4, <2>1, <2>2 DEF EntInv
<1>12. TidInv(d, ref)
  <2>1. ref.tid[1] < d.ids.next BY <1>1, <1>5 DEF RefInv, TidInv
  <2>2. ASSUME NEW T \in DOMAIN s.tab, s.tab[T].id[1] = ref.tid[1]
        PROVE  s.tab[T].id[2] >= ref.tid[2] /\ s.tab[T].id[2] \in Nat
    <3>1. s.tab[T].id \in Nat \X Nat BY TableIn
    <3> QED BY <2>2, <3>1 DEF RefInv, TidInv
  <2>3. ASSUME NEW T \in DOMAIN d.tab, d.tab[T].id[1] = ref.tid[1]
        PROVE  /\ d.tab[T].id[2] >= ref.tid[2]
               /\ d.tab[T].id[2] = ref.tid[2] => d.tab[T].version >= ref.version
    <3>1. CASE T \notin DOMAIN s.tab
      <4>1. d.tab[T].id \in Nat \X Nat BY TableIn
      <4> QED BY <1>1, <1>7, <2>3, <3>1, <4>1
    <3>2. CASE T \in DOMAIN s.tab
      <4>1. d.tab[T].id = s.tab[T].id /\ d.tab[T].version >= s.tab[T].version
        <5>1. s.tab[T].version \in Nat /\ d.tab[T].version \in Nat BY <3>2, TableIn
        <5>2. CASE Shown(s, d, T) BY <5>1, <5>2 DEF Shown
        <5>3. CASE ~Shown(s, d, T)
          <6>1. SameStamp(s, d, T) BY <3>2, <5>3 DEF Evolves, Unmoved
          <6> QED BY <5>1, <6>1 DEF SameStamp
        <5> QED BY <5>2, <5>3
      <4>2. s.tab[T].version \in Nat /\ d.tab[T].version \in Nat BY <3>2, TableIn
      <4>3. s.tab[T].id[2] >= ref.tid[2] BY <2>2, <2>3, <3>2, <4>1
      <4>4. s.tab[T].id[2] = ref.tid[2] => s.tab[T].version >= ref.version
        BY <2>3, <3>2, <4>1 DEF RefInv, TidInv
      <4> QED BY <1>1, <4>1, <4>2, <4>3, <4>4
    <3> QED BY <3>1, <3>2
  <2>4. ASSUME NEW k \in DOMAIN d.ids.free, d.ids.free[k][1] = ref.tid[1]
        PROVE  d.ids.free[k][2] > ref.tid[2]
    <3>1. CASE \E j \in DOMAIN s.ids.free : d.ids.free[k] = s.ids.free[j]
      BY <2>4, <3>1 DEF RefInv, TidInv
    <3>2. CASE \E T \in DOMAIN s.tab : d.ids.free[k] = NextGen(s.tab[T].id)
      <4>1. PICK T \in DOMAIN s.tab : d.ids.free[k] = NextGen(s.tab[T].id) BY <3>2
      <4>2. s.tab[T].id \in Nat \X Nat BY TableIn
      <4>3. d.ids.free[k][1] = s.tab[T].id[1] /\ d.ids.free[k][2] = s.tab[T].id[2] + 1
        BY <4>1 DEF NextGen
      <4>4. s.tab[T].id[2] >= ref.tid[2] /\ s.tab[T].id[2] \in Nat BY <2>2, <2>4, <4>3
      <4> QED BY <1>1, <4>3, <4>4
    <3> QED BY <3>1, <3>2 DEF Evolves
  <2> QED BY <2>1, <2>3, <2>4 DEF TidInv
<1> QED BY <1>9, <1>10, <1>11, <1>12 DEF RefInv

LEMMA RefsEvolve ==
  ASSUME NEW s, NEW n, Sound(s, n), NEW d, NEW n2, Sound(d, n2), NEW src, Evolves(s, d, src),
         NEW left, NEW left2, src \subseteq left2, left \cap DOMAIN d.tab \subseteq left2,
         NEW rs, RefsOK(rs, s, left)
  PROVE  RefsOK(rs, d, left2)
<1> SUFFICES ASSUME NEW r \in Refs, NEW ref \in rs[r]
             PROVE  IsRef(ref) /\ RefInv(d, ref, left2)
  BY DEF RefsOK
<1>1. IsRef(ref) /\ RefInv(s, ref, left) BY DEF RefsOK
<1>2. IsStore(s) /\ VersionsInv(s) /\ IsStore(d) /\ VersionsInv(d) BY DEF Sound
<1> QED BY <1>1, <1>2, RefEvolves

-----------------------------------------------------------------------------
(* Each kind of change is one that a reference survives.                   *)

\* A new table: it takes an id that was given back, or one that never was.
LEMMA EnsureEvolves ==
  ASSUME NEW s, NEW n, Sound(s, n), NEW T \in Types
  PROVE  Sound(Ensure(s, T), n) /\ Evolves(s, Ensure(s, T), {})
<1> DEFINE d == Ensure(s, T)
<1>1. IsStore(s) /\ IdsInv(s) /\ VersionsInv(s) /\ FastBound(s, n) BY DEF Sound
<1>2. /\ IsStore(d) /\ d.rec = s.rec /\ d.fast = s.fast
      /\ DOMAIN d.tab = DOMAIN s.tab \cup {T}
      /\ \A U \in DOMAIN s.tab : d.tab[U] = s.tab[U]
      /\ T \in DOMAIN s.tab => d = s
      /\ T \notin DOMAIN s.tab => d.tab[T].version = 1 /\ Issued(s, d, d.tab[T].id)
  BY <1>1, EnsuredFields
<1> HIDE DEF d
<1>3. s.ids.next \in Nat /\ s.ids.free \in Seq(Nat \X Nat) BY <1>1 DEF IsStore, IsIds
<1>4. \A i \in Indices : s.rec[i].gen <= d.rec[i].gen
  <2>1. \A i \in Indices : s.rec[i].gen \in Nat BY <1>1 DEF IsStore, RecType
  <2> QED BY <1>2, <2>1
<1>5. \A m \in 0..VersionSlots - 1 : s.fast[m] <= d.fast[m]
  <2>1. \A m \in 0..VersionSlots - 1 : s.fast[m] \in Nat BY <1>1 DEF VersionsInv
  <2> QED BY <1>2, <2>1
<1>6. \A U \in DOMAIN s.tab : Unmoved(s, d, U) BY <1>2 DEF Unmoved, SameStamp
<1>7. FastBound(d, n) BY <1>1, <1>2 DEF FastBound
<1>8. CASE T \in DOMAIN s.tab
  <2>1. d = s BY <1>2, <1>8
  <2>2. \A k \in DOMAIN d.ids.free : \E j \in DOMAIN s.ids.free : d.ids.free[k] = s.ids.free[j]
    BY <2>1
  <2> QED BY <1>3, <1>4, <1>5, <1>6, <2>1, <2>2 DEF Evolves, d
<1>9. CASE T \notin DOMAIN s.tab
  <2> DEFINE id == d.tab[T].id
  <2>1. id \in Nat \X Nat
    <3>1. T \in DOMAIN d.tab BY <1>2
    <3> QED BY <1>2, <3>1, TableIn
  <2>2. d.tab[T].version = 1 /\ Issued(s, d, id) BY <1>2, <1>9
  <2> HIDE DEF id
  <2>3. /\ s.ids.next <= d.ids.next /\ NewId(s, id) /\ id[1] < d.ids.next
        /\ \A U \in DOMAIN s.tab : s.tab[U].id[1] # id[1]
        /\ \A k \in DOMAIN d.ids.free : \E j \in DOMAIN s.ids.free :
             d.ids.free[k] = s.ids.free[j] /\ s.ids.free[j][1] # id[1]
        /\ \A k, l \in DOMAIN d.ids.free : d.ids.free[k][1] = d.ids.free[l][1] => k = l
    <3>1. CASE s.ids.free # <<>>
      <4> DEFINE q == s.ids.free
      <4>1. id = q[1] /\ d.ids.free = Tail(q) /\ d.ids.next = s.ids.next /\ 1 \in DOMAIN q
        BY <1>3, <2>2, <3>1 DEF Issued
      <4>2. \A k \in DOMAIN d.ids.free : k + 1 \in DOMAIN q /\ k + 1 # 1 /\ d.ids.free[k] = q[k + 1]
        <5>1. q \in Seq(Nat \X Nat) /\ q # <<>> BY <1>3, <3>1
        <5> HIDE DEF q
        <5>2. \A k \in DOMAIN Tail(q) : k \in Nat /\ k + 1 \in DOMAIN q /\ Tail(q)[k] = q[k + 1]
          BY ONLY <5>1, TailAt
        <5>3. ASSUME NEW k \in Nat, k + 1 = 1, k \in DOMAIN Tail(q) PROVE FALSE
          <6>1. Tail(q) \in Seq(Nat \X Nat) BY <5>1
          <6> QED BY <5>3, <6>1
        <5> QED BY <4>1, <5>2, <5>3
      <4>3. \A k \in DOMAIN q : /\ q[k][1] < s.ids.next
                                /\ \A U \in DOMAIN s.tab : s.tab[U].id[1] # q[k][1]
                                /\ \A j \in DOMAIN q : q[j][1] = q[k][1] => j = k
        BY <1>1 DEF IdsInv
      <4> HIDE DEF q
      <4>4. \A k \in DOMAIN d.ids.free : k \in Nat BY <1>2, <4>1 DEF IsStore, IsIds
      <4>5. NewId(s, id) BY <4>1 DEF NewId, q
      <4>6. \A k, l \in DOMAIN d.ids.free : d.ids.free[k][1] = d.ids.free[l][1] => k = l
        <5> SUFFICES ASSUME NEW k \in DOMAIN d.ids.free, NEW l \in DOMAIN d.ids.free,
                            d.ids.free[k][1] = d.ids.free[l][1]
                     PROVE  k = l
          OBVIOUS
        <5>1. k + 1 = l + 1 BY <4>2, <4>3
        <5> QED BY <5>1, <4>4
      <4>7. \A k \in DOMAIN d.ids.free : \E j \in DOMAIN q : d.ids.free[k] = q[j] /\ q[j][1] # id[1]
        <5> SUFFICES ASSUME NEW k \in DOMAIN d.ids.free
                     PROVE  d.ids.free[k] = q[k + 1] /\ q[k + 1][1] # q[1][1] /\ k + 1 \in DOMAIN q
          BY <4>1
        <5>1. d.ids.free[k] = q[k + 1] /\ k + 1 # 1 /\ k + 1 \in DOMAIN q BY <4>2
        <5>2. q[k + 1][1] = q[1][1] => k + 1 = 1 BY ONLY <4>1, <4>3, <5>1
        <5> QED BY <5>1, <5>2
      <4>8. id[1] < d.ids.next /\ \A U \in DOMAIN s.tab : s.tab[U].id[1] # id[1]
        BY ONLY <4>1, <4>3
      <4>9. s.ids.next <= d.ids.next BY <1>3, <4>1
      <4> QED BY ONLY <4>5, <4>6, <4>7, <4>8, <4>9 DEF q
    <3>2. CASE s.ids.free = <<>>
      <4>1. id = <<s.ids.next, 0>> /\ d.ids.free = <<>> /\ d.ids.next = s.ids.next + 1
        BY <2>2, <3>2 DEF Issued
      <4>2. \A U \in DOMAIN s.tab : s.tab[U].id[1] # id[1]
        <5> SUFFICES ASSUME NEW U \in DOMAIN s.tab PROVE s.tab[U].id[1] # s.ids.next BY <4>1
        <5>1. s.tab[U].id[1] < s.ids.next BY <1>1 DEF IdsInv
        <5> QED BY <1>3, <5>1
      <4> QED BY <1>3, <4>1, <4>2 DEF NewId
    <3> QED BY <3>1, <3>2
  <2>4. IdsInv(d)
    <3>1. Root \in DOMAIN d.tab /\ d.tab[Root].id = RootId BY <1>1, <1>2 DEF IdsInv
    <3>2. ASSUME NEW U \in DOMAIN d.tab
          PROVE  /\ d.tab[U].id[1] < d.ids.next
                 /\ \A V \in DOMAIN d.tab : d.tab[V].id[1] = d.tab[U].id[1] => V = U
      <4>1. CASE U = T BY <1>2, <2>3, <4>1 DEF id
      <4>2. CASE U # T
        <5>1. U \in DOMAIN s.tab /\ d.tab[U] = s.tab[U] BY <1>2, <4>2
        <5>2. s.tab[U].id[1] < s.ids.next /\ s.tab[U].id[1] \in Nat BY <1>1, <5>1, TableIn DEF IdsInv
        <5>3. d.ids.next \in Nat BY <1>2 DEF IsStore, IsIds
        <5>4. d.tab[U].id[1] < d.ids.next BY <1>3, <2>3, <5>1, <5>2, <5>3
        <5>5. \A V \in DOMAIN s.tab : s.tab[V].id[1] = s.tab[U].id[1] => V = U
          BY <1>1, <5>1 DEF IdsInv
        <5> QED BY <1>2, <2>3, <5>1, <5>4, <5>5 DEF id
      <4> QED BY <4>1, <4>2
    <3>3. ASSUME NEW k \in DOMAIN d.ids.free
          PROVE  /\ d.ids.free[k][1] < d.ids.next
                 /\ \A U \in DOMAIN d.tab : d.tab[U].id[1] # d.ids.free[k][1]
      <4>1. PICK j \in DOMAIN s.ids.free : d.ids.free[k] = s.ids.free[j] /\ s.ids.free[j][1] # id[1]
        BY <2>3
      <4>2. s.ids.free[j][1] < s.ids.next /\ s.ids.free[j][1] \in Nat
        BY <1>1, FreeIn DEF IdsInv
      <4>3. d.ids.next \in Nat BY <1>2 DEF IsStore, IsIds
      <4>4. \A U \in DOMAIN s.tab : s.tab[U].id[1] # s.ids.free[j][1] BY <1>1 DEF IdsInv
      <4>5. d.ids.free[k][1] < d.ids.next
        <5>1. s.ids.next <= d.ids.next BY <2>3
        <5>2. d.ids.free[k][1] = s.ids.free[j][1] BY <4>1
        <5> QED BY ONLY <1>3, <4>2, <4>3, <5>1, <5>2, LessAtMost
      <4>6. \A U \in DOMAIN d.tab : d.tab[U].id[1] # d.ids.free[k][1]
        <5>1. d.tab[T].id[1] # d.ids.free[k][1] BY <4>1 DEF id
        <5> QED BY <1>2, <4>1, <4>4, <5>1
      <4> QED BY <4>5, <4>6
    <3> QED BY <2>3, <3>1, <3>2, <3>3 DEF IdsInv
  <2>5. VersionsInv(d)
    <3>1. d.fast \in [0..VersionSlots - 1 -> Nat] BY <1>1, <1>2 DEF VersionsInv
    <3>2. ASSUME NEW U \in DOMAIN d.tab PROVE d.tab[U].version \in 1..d.fast[Slot(d.tab[U].id)] + 1
      <4>1. CASE U = T
        <5>1. Slot(id) \in 0..VersionSlots - 1 BY <2>1, SlotIn
        <5>2. d.fast[Slot(id)] \in Nat BY <3>1, <5>1, Zenon
        <5> QED BY <2>2, <4>1, <5>2 DEF id
      <4>2. CASE U # T BY <1>1, <1>2, <4>2 DEF VersionsInv
      <4> QED BY <4>1, <4>2
    <3> QED BY <3>1, <3>2 DEF VersionsInv
  <2>6. Evolves(s, d, {})
    <3>1. \A U \in DOMAIN d.tab \ DOMAIN s.tab : NewId(s, d.tab[U].id) BY <1>2, <2>3 DEF id
    <3>2. \A i \in Indices : s.rec[i].alive /\ s.rec[i].gen = d.rec[i].gen => d.rec[i].alive
      BY <1>2
    <3> QED BY <1>4, <1>5, <1>6, <2>3, <3>1, <3>2 DEF Evolves
  <2> QED BY <1>2, <1>7, <2>4, <2>5, <2>6 DEF Sound, d
<1> QED BY <1>1, <1>8, <1>9 DEF Sound, d

\* One table was marked dirty; the entities of src moved into it.
Touched(s, d, T, src) ==
  /\ d.ids = s.ids /\ DOMAIN d.tab = DOMAIN s.tab /\ T \in DOMAIN s.tab \ src
  /\ Bumped(s, d, T)
  /\ \A U \in DOMAIN s.tab \ {T} :
       SameStamp(s, d, U) /\ (U \notin src => d.tab[U].mem = s.tab[U].mem)
  /\ RecsKept(s.rec, d.rec, {T} \cup src)

LEMMA TouchEvolves ==
  ASSUME NEW s, NEW n \in Nat, Sound(s, n), n + 1 < FastMod, n + 2 < VersionMod,
         NEW d, IsStore(d), NEW T, NEW src, Touched(s, d, T, src)
  PROVE  Sound(d, n + 1) /\ Evolves(s, d, src)
<1> DEFINE m == Slot(s.tab[T].id)
           v == s.tab[T].version
<1>1. IsStore(s) /\ IdsInv(s) /\ VersionsInv(s) /\ FastBound(s, n) BY DEF Sound
<1>2. T \in DOMAIN s.tab /\ d.ids = s.ids /\ DOMAIN d.tab = DOMAIN s.tab /\ T \notin src
  BY DEF Touched
<1>3. m \in 0..VersionSlots - 1
  <2>1. s.tab[T].id \in Nat \X Nat BY <1>1, <1>2, TableIn
  <2> QED BY <2>1, SlotIn
<1>4. s.fast[m] \in Nat /\ s.fast[m] <= n /\ v \in 1..s.fast[m] + 1
      /\ s.fast \in [0..VersionSlots - 1 -> Nat]
  BY <1>1, <1>2, <1>3 DEF VersionsInv, FastBound
<1>5. d.tab[T].id = s.tab[T].id /\ d.tab[T].version = v + 1
      /\ d.fast = [s.fast EXCEPT ![m] = s.fast[m] + 1]
  <2>1. /\ d.tab[T].id = s.tab[T].id /\ d.tab[T].version = (v + 1) % VersionMod
        /\ d.fast = [s.fast EXCEPT ![m] = (s.fast[m] + 1) % FastMod]
    <3>1. Bumped(s, d, T) BY DEF Touched
    <3> QED BY <1>3, <1>4, <3>1 DEF Bumped
  <2>2. VersionMod \in Nat /\ FastMod \in Nat BY ConstantsAssumption
  <2> HIDE DEF m, v
  <2>3. (v + 1) % VersionMod = v + 1 /\ (s.fast[m] + 1) % FastMod = s.fast[m] + 1
    <3>1. v + 1 \in Nat /\ v + 1 < VersionMod /\ s.fast[m] + 1 < FastMod BY <1>4, <2>2
    <3>2. (v + 1) % VersionMod = v + 1 BY ONLY <2>2, <3>1, SmallMod
    <3>3. s.fast[m] + 1 \in Nat BY <1>4
    <3>4. (s.fast[m] + 1) % FastMod = s.fast[m] + 1 BY ONLY <2>2, <3>1, <3>3, SmallMod
    <3> QED BY <3>2, <3>4
  <2> QED BY <2>1, <2>3
<1> HIDE DEF m, v
<1>6. d.fast \in [0..VersionSlots - 1 -> Nat] /\ d.fast[m] = s.fast[m] + 1
      /\ \A k \in (0..VersionSlots - 1) \ {m} : d.fast[k] = s.fast[k]
  <2>1. s.fast[m] + 1 \in Nat BY <1>4
  <2> QED BY ONLY <1>3, <1>4, <1>5, <2>1
<1>7. \A k \in 0..VersionSlots - 1 : s.fast[k] <= d.fast[k] /\ d.fast[k] <= n + 1
  <2> SUFFICES ASSUME NEW k \in 0..VersionSlots - 1 PROVE s.fast[k] <= d.fast[k] /\ d.fast[k] <= n + 1
    OBVIOUS
  <2>1. s.fast[k] \in Nat /\ s.fast[k] <= n BY <1>1, <1>4 DEF FastBound
  <2>2. d.fast[k] = s.fast[k] \/ d.fast[k] = s.fast[k] + 1 BY <1>6
  <2> QED BY <2>1, <2>2
<1>8. \A U \in DOMAIN s.tab : d.tab[U].id = s.tab[U].id
  BY <1>5 DEF Touched, SameStamp
<1>9. IdsInv(d) BY <1>1, <1>2, <1>8 DEF IdsInv
<1>10. VersionsInv(d)
  <2> SUFFICES ASSUME NEW U \in DOMAIN s.tab PROVE d.tab[U].version \in 1..d.fast[Slot(s.tab[U].id)] + 1
    BY <1>2, <1>6, <1>8 DEF VersionsInv
  <2> DEFINE k == Slot(s.tab[U].id)
  <2>1. s.tab[U].version \in 1..s.fast[k] + 1 BY <1>1 DEF VersionsInv
  <2>2. k \in 0..VersionSlots - 1
    <3>1. s.tab[U].id \in Nat \X Nat BY <1>1, TableIn
    <3> QED BY <3>1, SlotIn
  <2>3. s.fast[k] \in Nat /\ d.fast[k] \in Nat /\ s.fast[k] <= d.fast[k] BY <1>4, <1>6, <1>7, <2>2
  <2> HIDE DEF k
  <2>4. CASE U = T 
    <3>1. d.tab[T].version \in 1..d.fast[m] + 1 BY <1>4, <1>5, <1>6
    <3> QED BY <2>4, <3>1 DEF k, m
  <2>5. CASE U # T
    <3>1. d.tab[U].version = s.tab[U].version BY <2>5 DEF Touched, SameStamp
    <3> QED BY <2>1, <2>3, <3>1 DEF k
  <2> QED BY <2>4, <2>5 DEF k
<1>11. Evolves(s, d, src)
  <2>1. RecsKept(s.rec, d.rec, {T} \cup src) BY DEF Touched
  <2>2. \A i \in Indices : /\ s.rec[i].gen <= d.rec[i].gen
                           /\ s.rec[i].alive /\ s.rec[i].gen = d.rec[i].gen => d.rec[i].alive
    BY <2>1 DEF RecsKept
  <2>3. ASSUME NEW U \in DOMAIN s.tab
        PROVE  Unmoved(s, d, U) \/ Shown(s, d, U) \/ (U \in src \cap DOMAIN d.tab /\ SameStamp(s, d, U))
    <3>1. CASE U = T
      <4>1. d.fast[m] > s.fast[m] /\ d.tab[T].version > v BY <1>4, <1>5, <1>6
      <4> QED BY <1>5, <3>1, <4>1 DEF Shown, m, v
    <3>2. CASE U \in src BY <1>2, <3>2 DEF Touched
    <3>3. CASE U # T /\ U \notin src
      <4>1. SameStamp(s, d, U) /\ d.tab[U].mem = s.tab[U].mem BY <3>3 DEF Touched
      <4>2. \A i \in Indices : s.rec[i].alive /\ s.rec[i].table = U => d.rec[i] = s.rec[i]
        BY <2>1, <3>3 DEF RecsKept
      <4> QED BY <1>2, <4>1, <4>2 DEF Unmoved
    <3> QED BY <3>1, <3>2, <3>3
  <2>4. s.ids.next <= d.ids.next BY <1>1, <1>2 DEF IsStore, IsIds
  <2>5. \A k \in DOMAIN d.ids.free : \E j \in DOMAIN s.ids.free : d.ids.free[k] = s.ids.free[j]
    BY <1>2
  <2> QED BY <1>2, <1>7, <2>2, <2>3, <2>4, <2>5 DEF Evolves
<1> QED BY <1>7, <1>9, <1>10, <1>11 DEF Sound, FastBound

\* As long as they do not wrap around, counters only grow, and those of the
\* tables that were marked do.
LEMMA MarkedGrow ==
  ASSUME NEW s, NEW n \in Nat, Sound(s, n), NEW tables \in SUBSET DOMAIN s.tab, NEW k \in {1, 2},
         n + 2 * Cardinality(Types) < FastMod
  PROVE  LET f == Marked(s, tables, k) IN
         /\ f \in [0..VersionSlots - 1 -> Nat]
         /\ \A m \in 0..VersionSlots - 1 :
              s.fast[m] <= f[m] /\ f[m] <= n + 2 * Cardinality(Types)
         /\ \A T \in tables : f[Slot(s.tab[T].id)] > s.fast[Slot(s.tab[T].id)]
<1> DEFINE f == Marked(s, tables, k)
           At(m) == {T \in tables : Slot(s.tab[T].id) = m}
           C == Cardinality(Types)
<1>1. /\ s.fast \in [0..VersionSlots - 1 -> Nat] /\ tables \subseteq Types
      /\ \A m \in 0..VersionSlots - 1 : s.fast[m] <= n
  BY DEF Sound, VersionsInv, IsStore, IsTab, FastBound
<1>2. IsFiniteSet(Types) /\ C \in Nat BY TypesFinite
<1>3. FastMod \in Nat BY ConstantsAssumption
<1>4. \A m \in 0..VersionSlots - 1 : f[m] = (s.fast[m] + k * Cardinality(At(m))) % FastMod
  BY <1>1 DEF Marked
<1>5. ASSUME NEW m \in 0..VersionSlots - 1
      PROVE  /\ f[m] \in Nat /\ s.fast[m] <= f[m] /\ f[m] <= n + 2 * C
             /\ At(m) # {} => f[m] > s.fast[m]
  <2> DEFINE c == Cardinality(At(m))
             x == s.fast[m]
  <2>1. At(m) \in SUBSET Types BY <1>1
  <2>2. c \in Nat /\ c <= C BY <1>2, <2>1, FS_Subset, TypesFinite
  <2>3. At(m) # {} => c # 0 BY <2>1, TypesFinite, FS_EmptySet
  <2>4. x \in Nat /\ x <= n BY <1>1
  <2>5. f[m] = (x + k * c) % FastMod BY <1>4
  <2> HIDE DEF c, x, C, f
  <2>6. k * c \in Nat /\ k * c <= 2 * C /\ c <= k * c
    <3>1. CASE k = 1 BY <1>2, <2>2, <3>1
    <3>2. CASE k = 2 BY <1>2, <2>2, <3>2
    <3> QED BY <3>1, <3>2
  <2> DEFINE y == k * c
  <2>7. y \in Nat /\ y <= 2 * C /\ c <= y BY <2>6
  <2>8. f[m] = (x + y) % FastMod BY <2>5
  <2> HIDE DEF y
  <2>9. x + y \in Nat /\ x + y < FastMod
    <3>1. n + 2 * C < FastMod BY DEF C
    <3> QED BY ONLY n \in Nat, <1>2, <1>3, <2>4, <2>7, <3>1
  <2>10. f[m] = x + y BY ONLY <1>3, <2>8, <2>9, SmallMod
  <2>11. f[m] \in Nat /\ x <= f[m] /\ f[m] <= n + 2 * C
    BY ONLY n \in Nat, <1>2, <2>4, <2>7, <2>10
  <2>12. c # 0 => f[m] > x BY ONLY <2>2, <2>4, <2>7, <2>10
  <2> QED BY <2>3, <2>11, <2>12 DEF x
<1>6. f \in [0..VersionSlots - 1 -> Nat]
  <2>1. f = [m \in 0..VersionSlots - 1 |-> f[m]] BY <1>1 DEF Marked
  <2> HIDE DEF f
  <2> QED BY <1>5, <2>1
<1>7. ASSUME NEW T \in tables
      PROVE  f[Slot(s.tab[T].id)] > s.fast[Slot(s.tab[T].id)]
  <2>1. s.tab[T].id \in Nat \X Nat BY TableIn DEF Sound
  <2>2. Slot(s.tab[T].id) \in 0..VersionSlots - 1 BY <2>1, SlotIn
  <2>3. At(Slot(s.tab[T].id)) # {} OBVIOUS
  <2> HIDE DEF f, At
  <2> QED BY <1>5, <2>2, <2>3
<1> HIDE DEF f
<1> QED BY <1>5, <1>6, <1>7 DEF f

\* Tables go, and their ids are given back, each once.
LEMMA FiniEvolves ==
  ASSUME NEW s, NEW n \in Nat, Sound(s, n), NEW tables \in SUBSET (DOMAIN s.tab \ {Root}),
         NEW order \in Seq(tables), \A j, k \in DOMAIN order : order[j] = order[k] => j = k,
         n + 2 * Cardinality(Types) < FastMod, NEW d, FiniEffect(s, d, tables, order)
  PROVE  Sound(d, n + 2 * Cardinality(Types)) /\ Evolves(s, d, {})
<1>1. IsStore(s) /\ IdsInv(s) /\ VersionsInv(s) /\ FastBound(s, n) BY DEF Sound
<1>2. /\ IsStore(d) /\ d.rec = s.rec /\ DOMAIN d.tab = DOMAIN s.tab \ tables
      /\ \A U \in DOMAIN s.tab \ tables : d.tab[U] = s.tab[U]
      /\ d.ids.next = s.ids.next /\ d.fast = Marked(s, tables, 2)
  BY DEF FiniEffect
<1>3. /\ d.fast \in [0..VersionSlots - 1 -> Nat]
      /\ \A m \in 0..VersionSlots - 1 :
           s.fast[m] <= d.fast[m] /\ d.fast[m] <= n + 2 * Cardinality(Types)
      /\ \A T \in tables : d.fast[Slot(s.tab[T].id)] > s.fast[Slot(s.tab[T].id)]
  BY <1>2, MarkedGrow
<1> DEFINE new == [k \in DOMAIN order |-> NextGen(s.tab[order[k]].id)]
           free == s.ids.free
           N == Len(order)
<1>4. free \in Seq(Nat \X Nat) /\ s.ids.next \in Nat BY <1>1 DEF IsStore, IsIds
<1>5. \A k \in DOMAIN order : order[k] \in tables /\ order[k] \in DOMAIN s.tab OBVIOUS
<1>6. DOMAIN order = 1..N /\ N \in Nat OBVIOUS
<1>7. new \in Seq(Nat \X Nat) /\ Len(new) = N
  <2>1. ASSUME NEW k \in DOMAIN order PROVE NextGen(s.tab[order[k]].id) \in Nat \X Nat
    <3>1. s.tab[order[k]].id \in Nat \X Nat BY <1>1, <1>5, TableIn
    <3> QED BY <3>1 DEF NextGen
  <2> QED BY <1>6, <2>1, IsASeq
<1>8. d.ids.free = new \o free BY DEF FiniEffect
<1>9. \A k \in DOMAIN order : new[k] = NextGen(s.tab[order[k]].id) /\ new[k][1] = s.tab[order[k]].id[1]
  BY DEF NextGen
<1> HIDE DEF new, free, N
\* The first of the stack are the ids of the tables that went.
<1>10. ASSUME NEW k \in DOMAIN d.ids.free
       PROVE  \/ k \in DOMAIN order /\ d.ids.free[k] = new[k]
              \/ k \in Nat /\ k > N /\ k - N \in DOMAIN free /\ d.ids.free[k] = free[k - N]
  <2>1. k \in 1..N + Len(free) BY <1>4, <1>7, <1>8
  <2>2. CASE k <= N BY <1>4, <1>6, <1>7, <1>8, <2>1, <2>2
  <2>3. CASE k > N BY <1>4, <1>6, <1>7, <1>8, <2>1, <2>3
  <2> QED BY <1>6, <2>1, <2>2, <2>3
<1>11. \A j, k \in DOMAIN s.tab : s.tab[j].id[1] = s.tab[k].id[1] => j = k BY <1>1 DEF IdsInv
<1>12. \A j \in DOMAIN free : /\ free[j][1] < s.ids.next
                              /\ \A T \in DOMAIN s.tab : s.tab[T].id[1] # free[j][1]
                              /\ \A k \in DOMAIN free : free[k][1] = free[j][1] => k = j
  BY <1>1 DEF IdsInv, free
<1>13. \A T \in DOMAIN s.tab : s.tab[T].id[1] < s.ids.next BY <1>1 DEF IdsInv
<1>14. IdsInv(d)
  <2>1. Root \in DOMAIN d.tab /\ d.tab[Root].id = RootId BY <1>1, <1>2 DEF IdsInv
  <2>2. ASSUME NEW T \in DOMAIN d.tab
        PROVE  /\ d.tab[T].id[1] < d.ids.next
               /\ \A U \in DOMAIN d.tab : d.tab[U].id[1] = d.tab[T].id[1] => U = T
    BY <1>2, <1>11, <1>13
  <2>3. ASSUME NEW k \in DOMAIN d.ids.free
        PROVE  /\ d.ids.free[k][1] < d.ids.next
               /\ \A T \in DOMAIN d.tab : d.tab[T].id[1] # d.ids.free[k][1]
    <3>1. CASE k \in DOMAIN order /\ d.ids.free[k] = new[k]
      <4>1. d.ids.free[k][1] = s.tab[order[k]].id[1] BY <1>9, <3>1
      <4>2. \A T \in DOMAIN d.tab : T # order[k] /\ T \in DOMAIN s.tab /\ d.tab[T] = s.tab[T]
        BY <1>2, <1>5, <3>1
      <4> QED BY <1>2, <1>5, <1>11, <1>13, <3>1, <4>1, <4>2
    <3>2. CASE k - N \in DOMAIN free /\ d.ids.free[k] = free[k - N] BY <1>2, <1>12, <3>2
    <3> QED BY <1>10, <3>1, <3>2
  <2>4. ASSUME NEW j \in DOMAIN d.ids.free, NEW k \in DOMAIN d.ids.free,
               d.ids.free[j][1] = d.ids.free[k][1]
        PROVE  j = k
    <3>1. CASE j \in DOMAIN order /\ k \in DOMAIN order
      <4>1. d.ids.free[j] = new[j] /\ d.ids.free[k] = new[k] BY <1>6, <1>10, <3>1
      <4>2. order[j] = order[k] BY <1>5, <1>9, <1>11, <2>4, <3>1, <4>1
      <4> QED BY <3>1, <4>2
    <3>2. CASE j \notin DOMAIN order /\ k \notin DOMAIN order
      <4>1. /\ j \in Nat /\ j - N \in DOMAIN free /\ d.ids.free[j] = free[j - N]
            /\ k \in Nat /\ k - N \in DOMAIN free /\ d.ids.free[k] = free[k - N]
        BY <1>10, <3>2
      <4>2. j - N = k - N BY <1>12, <2>4, <4>1
      <4> QED BY <1>6, <4>1, <4>2
    <3>3. ASSUME NEW a \in DOMAIN order, NEW b \in DOMAIN free PROVE new[a][1] # free[b][1]
      BY <1>5, <1>9, <1>12
    <3>4. CASE j \in DOMAIN order /\ k \notin DOMAIN order
      BY <1>6, <1>10, <2>4, <3>3, <3>4
    <3>5. CASE j \notin DOMAIN order /\ k \in DOMAIN order
      BY <1>6, <1>10, <2>4, <3>3, <3>5
    <3> QED BY <3>1, <3>2, <3>4, <3>5
  <2> QED BY <2>1, <2>2, <2>3, <2>4 DEF IdsInv
<1>15. VersionsInv(d)
  <2> SUFFICES ASSUME NEW T \in DOMAIN d.tab PROVE d.tab[T].version \in 1..d.fast[Slot(d.tab[T].id)] + 1
    BY <1>3 DEF VersionsInv
  <2>1. T \in DOMAIN s.tab /\ d.tab[T] = s.tab[T] BY <1>2
  <2> DEFINE m == Slot(s.tab[T].id)
  <2>2. m \in 0..VersionSlots - 1
    <3>1. s.tab[T].id \in Nat \X Nat BY <1>1, <2>1, TableIn
    <3> QED BY <3>1, SlotIn
  <2>3. s.tab[T].version \in 1..s.fast[m] + 1 /\ s.fast[m] \in Nat
    BY <1>1, <2>1, <2>2, Zenon DEF VersionsInv
  <2>4. d.fast[m] \in Nat /\ s.fast[m] <= d.fast[m] BY <1>3, <2>2
  <2> HIDE DEF m
  <2>5. s.tab[T].version \in 1..d.fast[m] + 1 BY ONLY <2>3, <2>4
  <2> QED BY <2>1, <2>5 DEF m
<1>16. Evolves(s, d, {})
  <2>1. \A U \in DOMAIN s.tab \ tables : Unmoved(s, d, U) BY <1>2 DEF Unmoved, SameStamp
  <2>2. \A U \in tables : Shown(s, d, U) BY <1>2, <1>3 DEF Shown
  <2>3. \A i \in Indices : s.rec[i].gen \in Nat BY <1>1 DEF IsStore, RecType
  <2>4. ASSUME NEW k \in DOMAIN d.ids.free
        PROVE  \/ \E j \in DOMAIN s.ids.free : d.ids.free[k] = s.ids.free[j]
               \/ \E T \in DOMAIN s.tab : d.ids.free[k] = NextGen(s.tab[T].id)
    BY <1>5, <1>9, <1>10 DEF free
  <2>5. s.ids.next <= d.ids.next BY <1>2, <1>4
  <2>6. \A i \in Indices : /\ s.rec[i].gen <= d.rec[i].gen
                           /\ s.rec[i].alive /\ s.rec[i].gen = d.rec[i].gen => d.rec[i].alive
    BY <1>2, <2>3
  <2>7. DOMAIN d.tab \ DOMAIN s.tab = {} BY <1>2
  <2>8. \A m \in 0..VersionSlots - 1 : s.fast[m] <= d.fast[m] BY <1>3
  <2> QED BY <2>1, <2>2, <2>4, <2>5, <2>6, <2>7, <2>8 DEF Evolves
<1> QED BY <1>2, <1>3, <1>14, <1>15, <1>16 DEF Sound, FastBound

\* Tables get columns of another size.
LEMMA ShrinkEvolves ==
  ASSUME NEW s, NEW n \in Nat, Sound(s, n), NEW tables \in SUBSET DOMAIN s.tab,
         n + 2 * Cardinality(Types) < FastMod, n + 2 < VersionMod,
         NEW d, ShrinkEffect(s, d, tables)
  PROVE  Sound(d, n + 2 * Cardinality(Types)) /\ Evolves(s, d, {})
<1> DEFINE loose == Loose(s, tables)
<1>1. IsStore(s) /\ IdsInv(s) /\ VersionsInv(s) /\ FastBound(s, n) BY DEF Sound
<1>2. /\ IsStore(d) /\ d.rec = s.rec /\ d.ids = s.ids /\ DOMAIN d.tab = DOMAIN s.tab
      /\ \A T \in DOMAIN s.tab \ loose : d.tab[T] = s.tab[T]
      /\ \A T \in loose : /\ d.tab[T].id = s.tab[T].id
                          /\ d.tab[T].version = (s.tab[T].version + 1) % VersionMod
      /\ d.fast = Marked(s, loose, 1)
  BY DEF ShrinkEffect
<1>3. loose \in SUBSET DOMAIN s.tab BY DEF Loose
<1> HIDE DEF loose
<1>4. /\ d.fast \in [0..VersionSlots - 1 -> Nat]
      /\ \A m \in 0..VersionSlots - 1 :
           s.fast[m] <= d.fast[m] /\ d.fast[m] <= n + 2 * Cardinality(Types)
      /\ \A T \in loose : d.fast[Slot(s.tab[T].id)] > s.fast[Slot(s.tab[T].id)]
  BY <1>2, <1>3, MarkedGrow
<1>5. \A T \in DOMAIN s.tab : d.tab[T].id = s.tab[T].id BY <1>2
<1>6. IdsInv(d) BY <1>1, <1>2, <1>5 DEF IdsInv
<1>7. ASSUME NEW T \in DOMAIN s.tab
      PROVE  /\ d.tab[T].version \in 1..d.fast[Slot(s.tab[T].id)] + 1
             /\ T \in loose => d.tab[T].version > s.tab[T].version
  <2> DEFINE m == Slot(s.tab[T].id)
             v == s.tab[T].version
  <2>1. m \in 0..VersionSlots - 1
    <3>1. s.tab[T].id \in Nat \X Nat BY <1>1, TableIn
    <3> QED BY <3>1, SlotIn
  <2>2. v \in 1..s.fast[m] + 1 /\ s.fast[m] \in Nat /\ s.fast[m] <= n
    BY <1>1, <2>1 DEF VersionsInv, FastBound
  <2>3. d.fast[m] \in Nat /\ s.fast[m] <= d.fast[m] /\ (T \in loose => d.fast[m] > s.fast[m])
    BY <1>4, <2>1
  <2>4. CASE T \in loose
    <3>1. d.tab[T].version = (v + 1) % VersionMod BY <1>2, <2>4
    <3> HIDE DEF m, v
    <3>2. v + 1 \in Nat /\ v + 1 < VersionMod /\ VersionMod \in Nat BY <2>2, ConstantsAssumption
    <3>3. (v + 1) % VersionMod = v + 1 BY ONLY <3>2, SmallMod
    <3>4. v + 1 \in 1..d.fast[m] + 1 /\ v + 1 > v BY ONLY <2>2, <2>3, <2>4
    <3> QED BY <3>1, <3>3, <3>4 DEF m, v
  <2>5. CASE T \notin loose
    <3>1. d.tab[T].version = v BY <1>2, <2>5
    <3> HIDE DEF m, v
    <3>2. v \in 1..d.fast[m] + 1 BY ONLY <2>2, <2>3
    <3> QED BY <2>5, <3>1, <3>2 DEF m
  <2> QED BY <2>4, <2>5
<1>8. VersionsInv(d) BY <1>2, <1>4, <1>5, <1>7 DEF VersionsInv
<1>9. Evolves(s, d, {})
  <2>1. \A U \in DOMAIN s.tab \ loose : Unmoved(s, d, U) BY <1>2 DEF Unmoved, SameStamp
  <2>2. \A U \in loose : Shown(s, d, U) BY <1>3, <1>4, <1>5, <1>7 DEF Shown
  <2>3. \A i \in Indices : s.rec[i].gen \in Nat BY <1>1 DEF IsStore, RecType
  <2>4. \A k \in DOMAIN d.ids.free : \E j \in DOMAIN s.ids.free : d.ids.free[k] = s.ids.free[j]
    BY <1>2
  <2>5. s.ids.next <= d.ids.next BY <1>1, <1>2 DEF IsStore, IsIds
  <2>6. \A i \in Indices : /\ s.rec[i].gen <= d.rec[i].gen
                           /\ s.rec[i].alive /\ s.rec[i].gen = d.rec[i].gen => d.rec[i].alive
    BY <1>2, <2>3
  <2>7. DOMAIN d.tab \ DOMAIN s.tab = {} BY <1>2
  <2>8. \A m \in 0..VersionSlots - 1 : s.fast[m] <= d.fast[m] BY <1>4
  <2> QED BY <2>1, <2>2, <2>4, <2>5, <2>6, <2>7, <2>8 DEF Evolves
<1> QED BY <1>2, <1>4, <1>6, <1>8, <1>9 DEF Sound, FastBound

\* The ids that were given back are forgotten.
LEMMA ForgetEvolves ==
  ASSUME NEW s, NEW n, Sound(s, n), NEW d, IsStore(d), d.rec = s.rec, d.tab = s.tab,
         d.fast = s.fast, d.ids.next = s.ids.next, d.ids.free = <<>>
  PROVE  Sound(d, n) /\ Evolves(s, d, {})
<1>1. IsStore(s) /\ IdsInv(s) /\ VersionsInv(s) /\ FastBound(s, n) BY DEF Sound
<1>2. IdsInv(d) BY <1>1 DEF IdsInv
<1>3. VersionsInv(d) /\ FastBound(d, n) BY <1>1 DEF VersionsInv, FastBound
<1>4. Evolves(s, d, {})
  <2>1. \A U \in DOMAIN s.tab : Unmoved(s, d, U) BY DEF Unmoved, SameStamp
  <2>2. \A i \in Indices : s.rec[i].gen \in Nat BY <1>1 DEF IsStore, RecType
  <2>3. \A i \in Indices : /\ s.rec[i].gen <= d.rec[i].gen
                           /\ s.rec[i].alive /\ s.rec[i].gen = d.rec[i].gen => d.rec[i].alive
    BY <2>2
  <2>4. s.ids.next <= d.ids.next BY <1>1 DEF IsStore, IsIds
  <2>5. \A m \in 0..VersionSlots - 1 : s.fast[m] \in Nat BY <1>1, Zenon DEF VersionsInv
  <2>6. \A m \in 0..VersionSlots - 1 : s.fast[m] <= d.fast[m] BY <2>5
  <2> QED BY <2>1, <2>3, <2>4, <2>6 DEF Evolves
<1> QED BY <1>2, <1>3, <1>4 DEF Sound

-----------------------------------------------------------------------------
(* Every action keeps the invariant of the references.                     *)

LEMMA Bounds ==
  ASSUME NoWrap
  PROVE  /\ MaxFast \in Nat /\ Cardinality(Types) \in Nat /\ FastMod \in Nat /\ VersionMod \in Nat
         /\ MaxFast + 1 < FastMod /\ MaxFast + 2 < VersionMod
         /\ MaxFast + 2 * Cardinality(Types) < FastMod
         /\ (MaxFast + 2 * Cardinality(Types)) + 2 * Cardinality(Types) < FastMod
<1> DEFINE C == Cardinality(Types)
<1>1. C \in Nat /\ C # 0
  <2>1. IsFiniteSet(Types) /\ C \in Nat BY TypesFinite
  <2>2. Types # {} BY DEF Types
  <2> QED BY <2>1, <2>2, FS_EmptySet
<1>2. MaxFast \in Nat /\ FastMod \in Nat /\ VersionMod \in Nat BY ConstantsAssumption
<1>3. MaxFast + 4 * C < FastMod /\ MaxFast + 2 < VersionMod BY DEF NoWrap
<1> HIDE DEF C
<1>4. /\ MaxFast + 1 < FastMod /\ MaxFast + 2 * C < FastMod
      /\ (MaxFast + 2 * C) + 2 * C < FastMod
  BY ONLY <1>1, <1>2, <1>3
<1> QED BY <1>1, <1>2, <1>3, <1>4 DEF C

LEMMA RefsState ==
  ASSUME RowsInv, RefsInv
  PROVE  Sound(store, MaxFast) /\ RefsOK(refs, store, Left(store, op))
BY DEF RowsInv, RowsState, RefsInv, Sound

\* A step that changed the store and no reference.
LEMMA StepRefs ==
  ASSUME RefsInv, RowsInv', refs' = refs, WithinBounds(store'),
         NEW s, NEW n, Sound(s, n), NEW n2, Sound(store', n2), NEW src, Evolves(s, store', src),
         NEW left, RefsOK(refs, s, left), src \subseteq Left(store', op'),
         left \cap DOMAIN store'.tab \subseteq Left(store', op')
  PROVE  RefsInv'
<1> DEFINE d == store'
           left2 == Left(store', op')
           rs == refs
<1>1. RefsOK(rs, d, left2)
  <2> HIDE DEF d, left2, rs
  <2> QED BY RefsEvolve DEF d, left2, rs
<1>2. IdsInv(d) /\ VersionsInv(d) BY DEF Sound
<1>3. FastBound(d, MaxFast)
  <2>1. d.fast \in [0..VersionSlots - 1 -> Nat] BY <1>2 DEF VersionsInv
  <2>2. \A k \in DOMAIN d.fast : d.fast[k] <= MaxFast BY DEF WithinBounds
  <2> QED BY <2>1, <2>2 DEF FastBound
<1>4. DOMAIN refs = Refs /\ refs = [r \in Refs |-> refs[r]] BY DEF RefsInv
<1> QED BY <1>1, <1>2, <1>3, <1>4 DEF RefsInv

\* A step that ended by marking one table dirty.
LEMMA TouchRefs ==
  ASSUME NoWrap, RefsInv, RowsInv', refs' = refs, WithinBounds(store'),
         NEW s, Sound(s, MaxFast), NEW T, NEW src, Touched(s, store', T, src),
         NEW left, RefsOK(refs, s, left), src \subseteq Left(store', op'),
         left \cap DOMAIN store'.tab \subseteq Left(store', op')
  PROVE  RefsInv'
<1>1. IsStore(store') BY DEF RowsInv, RowsState
<1>2. MaxFast \in Nat /\ MaxFast + 1 < FastMod /\ MaxFast + 2 < VersionMod BY Bounds
<1>3. Sound(store', MaxFast + 1) /\ Evolves(s, store', src) BY <1>1, <1>2, TouchEvolves
<1> QED BY <1>3, StepRefs

\* A store with a table for T.
LEMMA EnsureRefs ==
  ASSUME RowsInv, RefsInv, NEW T \in Types
  PROVE  LET s == Ensure(store, T) IN
         /\ Sound(s, MaxFast) /\ RefsOK(refs, s, Left(store, op))
         /\ IsStore(s) /\ s.rec = store.rec
         /\ DOMAIN s.tab = DOMAIN store.tab \cup {T}
<1> DEFINE s == Ensure(store, T)
           left == Left(store, op)
           rs == refs
<1>1. Sound(store, MaxFast) /\ RefsOK(rs, store, left) BY RefsState
<1>2. Sound(s, MaxFast) /\ Evolves(store, s, {}) BY <1>1, EnsureEvolves
<1>3. IsStore(s) /\ s.rec = store.rec /\ DOMAIN s.tab = DOMAIN store.tab \cup {T}
  BY <1>1, EnsuredFields DEF Sound
<1>4. RefsOK(rs, s, left)
  <2> HIDE DEF s, left, rs
  <2> QED BY <1>1, <1>2, RefsEvolve
<1> QED BY <1>2, <1>3, <1>4

\* What an idle world is left with.
LEMMA IdleLeft ==
  ASSUME op = Idle
  PROVE  Left(store, op) = {}
BY DEF Left, Idle

LEMMA NewEntityRefs ==
  ASSUME NoWrap, RowsInv, RowsInv', RefsInv, NEW i \in Indices, NEW T \in Types, NewEntity(i, T)
  PROVE  RefsInv'
<1> DEFINE e == NextEntity(i)
           s == Ensure(store, T)
           size == SizeFor(s, T)
           a == AppendRows(s, T, <<e>>, <<e>>, size)
           d == [a EXCEPT !.rec[i] = Record(e, T, Len(a.tab[T].ents))]
<1>1. /\ op = Idle /\ op' = Idle /\ store' = d /\ ~store.rec[i].alive
      /\ WithinBounds(store') /\ refs' = refs
  BY DEF NewEntity, Becomes
<1>2. /\ Sound(s, MaxFast) /\ RefsOK(refs, s, Left(store, op)) /\ IsStore(s) /\ s.rec = store.rec
      /\ DOMAIN s.tab = DOMAIN store.tab \cup {T}
  BY EnsureRefs
<1>3. IsStore(store) /\ Rows(store.rec, store.tab, {}) BY <1>1, IdleFacts
<1>4. Sized(T, s.tab[T]) /\ T \in DOMAIN s.tab BY <1>3, EnsuredState
<1>5. /\ e = <<i, s.rec[i].gen>> /\ e \in Ent /\ s.rec \in [Indices -> RecType]
  <2>1. s.rec \in [Indices -> RecType] BY <1>2 DEF IsStore
  <2> QED BY <1>2, <2>1 DEF NextEntity, Ent, RecType
<1> HIDE DEF e, s
<1>6. size \in Nat BY <1>2, <1>4, SizeForBound
<1> HIDE DEF size
<1>7. AppendEffect(s, a, T, <<e>>, <<e>>, size)
  <2>1. <<e>> \in Seq(Ent) /\ <<e>> \in Seq(Value) BY <1>5 DEF Value
  <2> QED BY ONLY <1>2, <1>4, <1>6, <2>1, AppendedFields
<1> HIDE DEF a
<1>8. d.rec = [s.rec EXCEPT ![i] = Record(e, T, Len(a.tab[T].ents))]
      /\ d.tab = a.tab /\ d.fast = a.fast /\ d.ids = a.ids
  <2>1. IsStore(a) /\ a.rec = s.rec BY <1>7 DEF AppendEffect
  <2> QED BY <2>1 DEF IsStore
<1> HIDE DEF d
<1>9. RecsKept(s.rec, d.rec, {T})
  <2> SUFFICES ASSUME NEW j \in Indices
               PROVE  /\ s.rec[j].alive /\ s.rec[j].table \notin {T} => d.rec[j] = s.rec[j]
                      /\ s.rec[j].gen <= d.rec[j].gen
                      /\ s.rec[j].alive /\ s.rec[j].gen = d.rec[j].gen => d.rec[j].alive
    BY DEF RecsKept
  <2>1. s.rec[j].gen \in Nat BY <1>5 DEF RecType
  <2>2. CASE j = i
    <3>1. d.rec[i].gen = s.rec[i].gen BY <1>5, <1>8 DEF Record
    <3> QED BY <1>1, <1>2, <2>1, <2>2, <3>1
  <2>3. CASE j # i
    <3>1. d.rec[j] = s.rec[j] BY <1>5, <1>8, <2>3
    <3> QED BY <2>1, <3>1
  <2> QED BY <2>2, <2>3
<1>10. Touched(s, d, T, {})
  <2>1. d.ids = s.ids /\ OnlyTable(s.tab, d.tab, T) /\ Bumped(s, d, T)
    BY <1>7, <1>8 DEF AppendEffect, Bumped
  <2> QED BY <1>4, <1>9, <2>1 DEF Touched, OnlyTable, SameStamp
<1> QED BY <1>1, <1>2, <1>10, IdleLeft, TouchRefs

LEMMA BulkNewRefs ==
  ASSUME NoWrap, RowsInv, RowsInv', RefsInv,
         NEW i \in Indices, NEW j \in Indices, NEW T \in Types, BulkNew(i, j, T)
  PROVE  RefsInv'
<1> DEFINE es == <<NextEntity(i), NextEntity(j)>>
           s == Ensure(store, T)
           n == Len(s.tab[T].ents)
           size == IF n + 2 = s.tab[T].size THEN n + 2 ELSE NextPow(n + 2)
           a == AppendRows(s, T, es, es, size)
           d == [a EXCEPT !.rec[i] = Record(es[1], T, n + 1), !.rec[j] = Record(es[2], T, n + 2)]
<1>1. /\ op = Idle /\ op' = Idle /\ store' = d /\ i # j
      /\ ~store.rec[i].alive /\ ~store.rec[j].alive
      /\ WithinBounds(store') /\ refs' = refs
  BY Zenon DEF BulkNew, Becomes
<1>2. /\ Sound(s, MaxFast) /\ RefsOK(refs, s, Left(store, op)) /\ IsStore(s) /\ s.rec = store.rec
      /\ DOMAIN s.tab = DOMAIN store.tab \cup {T}
  BY EnsureRefs
<1>3. T \in DOMAIN s.tab BY <1>2
<1>4. /\ es \in Seq(Ent) /\ es[1][2] = s.rec[i].gen /\ es[2][2] = s.rec[j].gen
      /\ s.rec \in [Indices -> RecType]
  <2>1. s.rec \in [Indices -> RecType] BY <1>2 DEF IsStore
  <2> QED BY <1>2, <2>1 DEF NextEntity, Ent, RecType
<1> HIDE DEF es, s
<1>5. n \in Nat /\ size \in Nat
  <2>1. n \in Nat BY <1>2, <1>3, TableIn
  <2> HIDE DEF n
  <2>2. NextPow(n + 2) \in Nat BY <2>1, NextPowBound
  <2> QED BY ONLY <2>1, <2>2
<1> HIDE DEF size
<1>6. AppendEffect(s, a, T, es, es, size)
  <2>1. es \in Seq(Value) BY <1>4 DEF Value
  <2> QED BY ONLY <1>2, <1>3, <1>4, <1>5, <2>1, AppendedFields
<1> HIDE DEF a, n
<1>7. d.rec = [s.rec EXCEPT ![i] = Record(es[1], T, n + 1), ![j] = Record(es[2], T, n + 2)]
      /\ d.tab = a.tab /\ d.fast = a.fast /\ d.ids = a.ids
  <2>1. IsStore(a) /\ a.rec = s.rec BY <1>6 DEF AppendEffect
  <2> QED BY <2>1 DEF IsStore
<1> HIDE DEF d
<1>8. RecsKept(s.rec, d.rec, {T})
  <2> SUFFICES ASSUME NEW k \in Indices
               PROVE  /\ s.rec[k].alive /\ s.rec[k].table \notin {T} => d.rec[k] = s.rec[k]
                      /\ s.rec[k].gen <= d.rec[k].gen
                      /\ s.rec[k].alive /\ s.rec[k].gen = d.rec[k].gen => d.rec[k].alive
    BY DEF RecsKept
  <2>1. s.rec[k].gen \in Nat BY <1>4 DEF RecType
  <2>2. CASE k = i \/ k = j
    <3>1. d.rec[k].gen = s.rec[k].gen BY <1>1, <1>4, <1>7, <2>2 DEF Record
    <3>2. ~s.rec[k].alive BY <1>1, <1>2, <2>2
    <3> QED BY <2>1, <3>1, <3>2
  <2>3. CASE k # i /\ k # j
    <3>1. d.rec[k] = s.rec[k] BY <1>4, <1>7, <2>3
    <3> QED BY <2>1, <3>1
  <2> QED BY <2>2, <2>3
<1>9. Touched(s, d, T, {})
  <2>1. d.ids = s.ids /\ OnlyTable(s.tab, d.tab, T) /\ Bumped(s, d, T)
    BY <1>6, <1>7 DEF AppendEffect, Bumped
  <2> QED BY <1>3, <1>8, <2>1 DEF Touched, OnlyTable, SameStamp
<1> QED BY <1>1, <1>2, <1>9, IdleLeft, TouchRefs

LEMMA MoveBeginRefs ==
  ASSUME NoWrap, RowsInv, RowsInv', RefsInv, NEW i \in Indices, NEW T \in Types, MoveBegin(i, T)
  PROVE  RefsInv'
<1> DEFINE s == Ensure(store, T)
           e == <<i, s.rec[i].gen>>
           size == SizeFor(s, T)
           a == AppendRows(s, T, <<e>>, <<Raw>>, size)
<1>1. /\ op = Idle /\ op'.kind = "move" /\ store' = a /\ WithinBounds(store') /\ refs' = refs
  BY DEF MoveBegin, Becomes
<1>2. /\ Sound(s, MaxFast) /\ RefsOK(refs, s, Left(store, op)) /\ IsStore(s) /\ s.rec = store.rec
      /\ DOMAIN s.tab = DOMAIN store.tab \cup {T}
  BY EnsureRefs
<1>3. IsStore(store) /\ Rows(store.rec, store.tab, {}) BY <1>1, IdleFacts
<1>4. Sized(T, s.tab[T]) /\ T \in DOMAIN s.tab BY <1>3, EnsuredState
<1>5. e \in Ent /\ s.rec \in [Indices -> RecType]
  <2>1. s.rec \in [Indices -> RecType] BY <1>2 DEF IsStore
  <2> QED BY <2>1 DEF Ent, RecType
<1> HIDE DEF e, s
<1>6. size \in Nat BY <1>2, <1>4, SizeForBound
<1> HIDE DEF size
<1>7. AppendEffect(s, a, T, <<e>>, <<Raw>>, size)
  <2>1. <<e>> \in Seq(Ent) /\ <<Raw>> \in Seq(Value) BY <1>5 DEF Value
  <2> QED BY ONLY <1>2, <1>4, <1>6, <2>1, AppendedFields
<1> HIDE DEF a
<1>8. RecsKept(s.rec, a.rec, {T})
  <2>1. a.rec = s.rec BY <1>7 DEF AppendEffect
  <2>2. \A j \in Indices : s.rec[j].gen \in Nat BY <1>5 DEF RecType
  <2> QED BY <2>1, <2>2 DEF RecsKept
<1>9. Touched(s, a, T, {})
  BY <1>4, <1>7, <1>8 DEF Touched, OnlyTable, SameStamp, AppendEffect
<1>10. Left(store, op) = {} BY <1>1, IdleLeft
<1> QED BY <1>1, <1>2, <1>9, <1>10, TouchRefs

\* A step that marked one table of the store dirty.
LEMMA TouchStoreRefs ==
  ASSUME NoWrap, RowsInv, RowsInv', RefsInv, refs' = refs, WithinBounds(store'),
         NEW T, NEW src, Touched(store, store', T, src), src \subseteq Left(store', op'),
         Left(store, op) \cap DOMAIN store'.tab \subseteq Left(store', op')
  PROVE  RefsInv'
<1>1. Sound(store, MaxFast) /\ RefsOK(refs, store, Left(store, op)) BY RefsState
<1> QED BY <1>1, TouchRefs

LEMMA DeleteRefs ==
  ASSUME NoWrap, RowsInv, RowsInv', RefsInv, NEW i \in Indices, Delete(i)
  PROVE  RefsInv'
<1> DEFINE g == store.rec[i].gen
           T == store.rec[i].table
           row == store.rec[i].row
           es == <<<<i, g>>>>
           d == DeleteRow(store, T, row)
           x == [d EXCEPT !.rec = Forgotten(@, es)]
           last == store.tab[T].ents[Len(store.tab[T].ents)][1]
<1>1. /\ op = Idle /\ op' = Idle /\ store' = x /\ store.rec[i].alive
      /\ WithinBounds(store') /\ refs' = refs
  BY DEF Delete, Becomes
<1>2. IsStore(store) /\ IsTab(store.tab) /\ Rows(store.rec, store.tab, {})
      /\ store.rec \in [Indices -> RecType]
  BY <1>1, IdleFacts DEF IsStore
<1>3. T \in DOMAIN store.tab /\ row \in DOMAIN store.tab[T].ents /\ Sized(T, store.tab[T])
  BY <1>1, <1>2, Zenon DEF Rows, HasRow
<1>4. row \in Nat /\ Len(store.tab[T].ents) \in DOMAIN store.tab[T].ents BY <1>2, <1>3, RowFacts
<1> HIDE DEF row
<1>5. DeleteEffect(store, d, T, row) BY ONLY <1>2, <1>3, RowDeletedFields
<1> HIDE DEF d, T
<1>6. x.rec = Forgotten(d.rec, es) /\ x.tab = d.tab /\ x.fast = d.fast /\ x.ids = d.ids
  <2>1. IsStore(d) BY <1>5 DEF DeleteEffect
  <2> QED BY <2>1 DEF IsStore
<1> HIDE DEF x
\* The entity that moved is one of T.
<1>7. last \in Indices /\ store.rec[last].table = T
      /\ \A j \in Indices : d.rec[j] = IF j = last /\ row # Len(store.tab[T].ents)
                                       THEN [store.rec[j] EXCEPT !.row = row] ELSE store.rec[j]
  <2>1. last \in Indices /\ d.rec = LastMoved(store.rec, store.tab[T].ents, row)
    BY <1>5 DEF DeleteEffect
  <2>2. AtRow(store.rec, store.tab, T, Len(store.tab[T].ents)) BY <1>2, <1>3, <1>4 DEF Rows
  <2>3. store.rec[last].table = T BY <2>2 DEF AtRow
  <2> DEFINE ents == store.tab[T].ents
  <2> HIDE DEF ents
  <2>4. \A j \in Indices : LastMoved(store.rec, ents, row)[j] =
          IF j = ents[Len(ents)][1] /\ row # Len(ents)
          THEN [store.rec[j] EXCEPT !.row = row] ELSE store.rec[j]
    <3>1. ents[Len(ents)][1] \in Indices BY <2>1 DEF ents
    <3> QED BY ONLY <1>2, <1>4, <3>1, LastMovedAt
  <2> QED BY <2>1, <2>3, <2>4 DEF ents
<1>8. RecsKept(store.rec, x.rec, {T})
  <2> SUFFICES ASSUME NEW j \in Indices
               PROVE  /\ store.rec[j].alive /\ store.rec[j].table \notin {T} => x.rec[j] = store.rec[j]
                      /\ store.rec[j].gen <= x.rec[j].gen
                      /\ store.rec[j].alive /\ store.rec[j].gen = x.rec[j].gen => x.rec[j].alive
    BY DEF RecsKept
  <2>1. store.rec[j] \in RecType /\ store.rec[j].gen \in Nat BY <1>2 DEF RecType
  <2>2. x.rec[j] = IF j = i THEN ForgottenRec(d.rec[i]) ELSE d.rec[j] BY <1>6, ForgottenOne
  <2>3. d.rec[j].gen = store.rec[j].gen /\ d.rec[j].alive = store.rec[j].alive
        /\ (store.rec[j].table # T => d.rec[j] = store.rec[j])
    BY <1>7, <2>1, Zenon DEF RecType
  <2>4. CASE j = i
    <3>1. x.rec[j].gen = store.rec[j].gen + 1 BY <2>2, <2>3, <2>4 DEF ForgottenRec
    <3>2. store.rec[j].table = T BY <2>4 DEF T
    <3> QED BY <2>1, <3>1, <3>2
  <2>5. CASE j # i BY <2>1, <2>2, <2>3, <2>5
  <2> QED BY <2>4, <2>5
<1>9. Touched(store, x, T, {})
  BY <1>3, <1>5, <1>6, <1>8 DEF Touched, OnlyTable, SameStamp, DeleteEffect, Bumped
<1>10. Left(store, op) = {} BY <1>1, IdleLeft
<1> QED BY <1>1, <1>9, <1>10, TouchStoreRefs

LEMMA SwapRowsRefs ==
  ASSUME NoWrap, RowsInv, RowsInv', RefsInv, NEW T \in Types, NEW j, NEW k, SwapRows(T, j, k)
  PROVE  RefsInv'
<1> DEFINE ents == store.tab[T].ents
           a == ents[j][1]
           b == ents[k][1]
           rec2 == [store.rec EXCEPT ![a].row = k, ![b].row = j]
           x == [store EXCEPT !.rec[a].row = k, !.rec[b].row = j,
                              !.tab[T].ents = Exchange(@, j, k),
                              !.tab[T].cols = [c \in T |-> Exchange(@[c], j, k)]]
<1>1. /\ op = Idle /\ op' = Idle /\ store' = Dirty(x, T) /\ T \in DOMAIN store.tab
      /\ j \in DOMAIN ents /\ k \in DOMAIN ents /\ j < k
      /\ WithinBounds(store') /\ refs' = refs
  BY Zenon DEF SwapRows, Becomes
<1>2. IsStore(store) /\ IsTab(store.tab) /\ Rows(store.rec, store.tab, {})
      /\ store.rec \in [Indices -> RecType]
  BY <1>1, IdleFacts, Zenon DEF IsStore
<1>3. a \in Indices /\ b \in Indices /\ store.rec[a].table = T /\ store.rec[b].table = T
  BY <1>1, <1>2, RowFacts, Zenon DEF Rows, AtRow
<1>4. /\ x.rec = rec2 /\ x.ids = store.ids /\ x.fast = store.fast
      /\ x.tab = [store.tab EXCEPT ![T].ents = Exchange(ents, j, k),
                                   ![T].cols = [c \in T |-> Exchange(@[c], j, k)]]
      /\ x \in [rec : {x.rec}, tab : {x.tab}, fast : {x.fast}, ids : {x.ids}]
  BY <1>1, <1>2, Zenon DEF IsStore
<1> HIDE DEF x, rec2
<1> DEFINE d == Dirty(x, T)
<1>5. /\ OnlyTable(store.tab, x.tab, T)
      /\ x.tab[T].id = store.tab[T].id /\ x.tab[T].version = store.tab[T].version
  <2>1. IsTable(T, store.tab[T]) BY <1>1, <1>2, TableIn
  <2>2. DOMAIN x.tab = DOMAIN store.tab /\ \A U \in DOMAIN store.tab \ {T} : x.tab[U] = store.tab[U]
    BY <1>4
  <2>3. x.tab[T] = [store.tab[T] EXCEPT !.ents = Exchange(ents, j, k),
                                        !.cols = [c \in T |-> Exchange(@[c], j, k)]]
    BY <1>1, <1>4
  <2>4. x.tab[T].id = store.tab[T].id /\ x.tab[T].version = store.tab[T].version
    BY <2>1, <2>3 DEF IsTable
  <2> QED BY <2>2, <2>4 DEF OnlyTable
<1>6. /\ d.rec = x.rec /\ d.ids = x.ids /\ OnlyTable(store.tab, d.tab, T) /\ Bumped(store, d, T)
  <2>2. d = [x EXCEPT !.tab[T].version = (@ + 1) % VersionMod,
                      !.fast[Slot(x.tab[T].id)] = (@ + 1) % FastMod]
    BY ZenonT(30) DEF Dirty
  <2>3. /\ d.rec = x.rec /\ d.ids = x.ids
        /\ d.tab = [x.tab EXCEPT ![T].version = (@ + 1) % VersionMod]
        /\ d.fast = [x.fast EXCEPT ![Slot(x.tab[T].id)] = (@ + 1) % FastMod]
    <3> HIDE DEF d
    <3> QED BY ONLY <1>4, <2>2, Zenon
  <2> HIDE DEF d
  <2>4. T \in DOMAIN x.tab BY <1>1, <1>5 DEF OnlyTable
  <2>5. x.tab[T] \in [id : {x.tab[T].id}, version : {x.tab[T].version}, ents : {x.tab[T].ents},
                      cols : {x.tab[T].cols}, size : {x.tab[T].size}, mem : {x.tab[T].mem}]
    <3>1. IsTable(T, store.tab[T]) BY <1>1, <1>2, TableIn
    <3>2. x.tab[T] = [store.tab[T] EXCEPT !.ents = Exchange(ents, j, k),
                                          !.cols = [c \in T |-> Exchange(@[c], j, k)]]
      BY <1>1, <1>4
    <3> QED BY <3>1, <3>2 DEF IsTable
  <2>6. /\ d.tab[T].id = x.tab[T].id /\ d.tab[T].version = (x.tab[T].version + 1) % VersionMod
        /\ DOMAIN d.tab = DOMAIN x.tab /\ \A U \in DOMAIN x.tab \ {T} : d.tab[U] = x.tab[U]
    BY ONLY <2>3, <2>4, <2>5
  <2> QED BY <1>4, <1>5, <2>3, <2>6, Zenon DEF OnlyTable, Bumped
<1> HIDE DEF d
<1>7. RecsKept(store.rec, d.rec, {T})
  <2> SUFFICES ASSUME NEW i \in Indices
               PROVE  /\ store.rec[i].alive /\ store.rec[i].table \notin {T} => d.rec[i] = store.rec[i]
                      /\ store.rec[i].gen <= d.rec[i].gen
                      /\ store.rec[i].alive /\ store.rec[i].gen = d.rec[i].gen => d.rec[i].alive
    BY DEF RecsKept
  <2>1. d.rec = rec2 BY <1>4, <1>6
  <2>2. store.rec[i] \in RecType BY <1>2
  <2> HIDE DEF a, b
  <2>3. rec2[i].gen = store.rec[i].gen /\ rec2[i].alive = store.rec[i].alive
    BY <1>2, <1>3, <2>2 DEF rec2, RecType
  <2>4. i # a /\ i # b => rec2[i] = store.rec[i] BY <1>2, <1>3 DEF rec2
  <2>5. store.rec[i].gen \in Nat BY <2>2 DEF RecType
  <2> QED BY <1>3, <2>1, <2>3, <2>4, <2>5
<1>8. Touched(store, d, T, {})
  BY <1>1, <1>4, <1>6, <1>7 DEF Touched, OnlyTable, SameStamp
<1>9. Left(store, op) = {} BY <1>1, IdleLeft
<1> QED BY <1>1, <1>8, <1>9, TouchStoreRefs DEF d

LEMMA MoveEndRefs ==
  ASSUME NoWrap, RowsInv, RowsInv', RefsInv, MoveEnd
  PROVE  RefsInv'
<1> DEFINE i == op.index
           dst == op.dst
           src == store.rec[i].table
           row == store.rec[i].row
           e == <<i, store.rec[i].gen>>
           n == Len(store.tab[dst].ents)
           ents == store.tab[src].ents
           last == ents[Len(ents)][1]
           d == store'
<1>1. op.kind = "move" /\ op' = Idle /\ WithinBounds(store') /\ refs' = refs
  BY Zenon DEF MoveEnd, Becomes
<1> PICK m : MoveEffect(store, i, dst, m, d) BY MovedFields
<1>2. /\ IsStore(store) /\ IsTab(store.tab) /\ store.rec \in [Indices -> RecType]
      /\ Rows(store.rec, store.tab, {<<dst, n>>}) /\ i \in Indices
      /\ dst \in DOMAIN store.tab /\ store.rec[i].alive /\ src # dst
      /\ src \in DOMAIN store.tab /\ row \in DOMAIN ents
  BY Zenon DEF MoveEffect, IsStore
<1>3. /\ IsStore(m) /\ OnlyTable(store.tab, m.tab, dst) /\ m.ids = store.ids /\ m.fast = store.fast
      /\ m.rec[i] = Record(e, dst, n) /\ \A j \in Indices \ {i} : m.rec[j] = store.rec[j]
      /\ SameStamp(store, m, dst) /\ m.tab[dst].mem = store.tab[dst].mem
      /\ DeleteEffect(m, d, src, row)
  BY Zenon DEF MoveEffect, SameStamp
<1> HIDE DEF i, dst, d
<1>4. m.tab[src] = store.tab[src] /\ DOMAIN m.tab = DOMAIN store.tab BY <1>2, <1>3 DEF OnlyTable
<1>5. Len(ents) \in DOMAIN ents /\ last \in Indices /\ row \in Nat BY <1>2, RowFacts, SMTT(20)
<1>6. store.rec[last].table = src
  <2>1. AtRow(store.rec, store.tab, src, Len(ents)) BY <1>2, <1>5 DEF Rows
  <2> QED BY <2>1, Zenon DEF AtRow
<1>7. d.rec = LastMoved(m.rec, ents, row) BY <1>3, <1>4 DEF DeleteEffect
<1>8. \A j \in Indices : d.rec[j] = IF j = last /\ row # Len(ents)
                                    THEN [m.rec[j] EXCEPT !.row = row] ELSE m.rec[j]
  <2>1. m.rec \in [Indices -> RecType] BY <1>3 DEF IsStore
  <2> HIDE DEF ents, row
  <2> QED BY <1>5, <1>7, <2>1, LastMovedAt
<1>9. RecsKept(store.rec, d.rec, {src})
  <2> SUFFICES ASSUME NEW j \in Indices
               PROVE  /\ store.rec[j].alive /\ store.rec[j].table \notin {src} => d.rec[j] = store.rec[j]
                      /\ store.rec[j].gen <= d.rec[j].gen
                      /\ store.rec[j].alive /\ store.rec[j].gen = d.rec[j].gen => d.rec[j].alive
    BY DEF RecsKept
  <2>1. store.rec[j] \in RecType /\ m.rec[j] \in RecType BY <1>2, <1>3 DEF IsStore
  <2>2. d.rec[j].gen = m.rec[j].gen /\ d.rec[j].alive = m.rec[j].alive
        /\ (j # last => d.rec[j] = m.rec[j])
    BY <1>8, <2>1 DEF RecType
  <2>3. store.rec[j].gen \in Nat BY <2>1 DEF RecType
  <2>4. CASE j = i
    <3>1. m.rec[i].gen = store.rec[i].gen /\ m.rec[i].alive = TRUE BY <1>3 DEF Record, e
    <3> QED BY <1>2, <2>2, <2>3, <2>4, <3>1
  <2>5. CASE j # i
    <3>1. m.rec[j] = store.rec[j] BY <1>3, <2>5
    <3> HIDE DEF src, last
    <3> QED BY <1>6, <2>2, <2>3, <3>1
  <2> QED BY <2>4, <2>5
<1>10. Touched(store, d, src, {})
  <2>1. d.ids = m.ids /\ OnlyTable(m.tab, d.tab, src) /\ Bumped(m, d, src)
    BY <1>3 DEF DeleteEffect
  <2>2. Bumped(store, d, src) BY <1>3, <1>4, <2>1, Zenon DEF Bumped
  <2>3. ASSUME NEW U \in DOMAIN store.tab \ {src}
        PROVE  SameStamp(store, d, U) /\ d.tab[U].mem = store.tab[U].mem
    <3>1. d.tab[U] = m.tab[U] BY <1>4, <2>1, <2>3 DEF OnlyTable
    <3>2. CASE U = dst BY <1>3, <3>1, <3>2 DEF SameStamp
    <3>3. CASE U # dst BY <1>3, <3>1, <3>3 DEF OnlyTable, SameStamp
    <3> QED BY <3>2, <3>3
  <2>4. DOMAIN d.tab = DOMAIN store.tab BY <1>4, <2>1 DEF OnlyTable
  <2> HIDE DEF src
  <2> QED BY <1>2, <1>3, <1>9, <2>1, <2>2, <2>3, <2>4 DEF Touched
<1>11. Left(store, op) = {} BY <1>1 DEF Left
<1> QED BY <1>1, <1>10, <1>11, TouchStoreRefs DEF d

LEMMA CleanBeginRefs ==
  ASSUME NoWrap, RowsInv, RowsInv', RefsInv,
         NEW kind \in {"remove", "delete"}, NEW c \in Comps, CleanBegin(kind, c)
  PROVE  RefsInv'
<1>1. op = Idle /\ store' = store /\ refs' = refs BY DEF CleanBegin
<1>2. Left(store, op) = {} BY <1>1, IdleLeft
<1>3. RefsOK(refs, store, Left(store, op')) BY <1>2 DEF RefsInv, RefsOK, RefInv, PtrInv
<1> QED BY <1>1, <1>3 DEF RefsInv

LEMMA ClearEntitiesRefs ==
  ASSUME NoWrap, RowsInv, RowsInv', RefsInv, NEW T \in Types, ClearEntities(T)
  PROVE  RefsInv'
<1> DEFINE es == store.tab[T].ents
           d == store'
<1>1. op.kind = "delete" /\ T \in op.todo /\ store' = ClearTable(store, T)
      /\ WithinBounds(store') /\ refs' = refs
  BY DEF ClearEntities, Becomes
<1>2. /\ IsStore(store) /\ IsTab(store.tab) /\ store.rec \in [Indices -> RecType]
      /\ Rows(store.rec, store.tab, {}) /\ T \in DOMAIN store.tab
  BY <1>1, CleanState DEF IsStore
<1>3. ClearEffect(store, d, T) BY <1>1, <1>2, ClearedFields
<1> HIDE DEF d
<1>4. RecsKept(store.rec, d.rec, {T})
  <2> SUFFICES ASSUME NEW j \in Indices
               PROVE  /\ store.rec[j].alive /\ store.rec[j].table \notin {T} => d.rec[j] = store.rec[j]
                      /\ store.rec[j].gen <= d.rec[j].gen
                      /\ store.rec[j].alive /\ store.rec[j].gen = d.rec[j].gen => d.rec[j].alive
    BY DEF RecsKept
  <2>1. store.rec[j].gen \in Nat BY <1>2 DEF RecType
  <2>2. d.rec = Forgotten(store.rec, es) BY <1>3 DEF ClearEffect
  <2>3. CASE \E k \in DOMAIN es : es[k][1] = j
    <3>1. PICK k \in DOMAIN es : es[k][1] = j BY <2>3
    <3>2. AtRow(store.rec, store.tab, T, k) BY <1>2 DEF Rows
    <3>3. store.rec[j].table = T BY <3>1, <3>2 DEF AtRow
    <3>4. d.rec[j].gen = store.rec[j].gen + 1 BY <2>2, <2>3 DEF Forgotten
    <3> QED BY <2>1, <3>3, <3>4
  <2>4. CASE ~ \E k \in DOMAIN es : es[k][1] = j
    <3>1. d.rec[j] = store.rec[j] BY <2>2, <2>4 DEF Forgotten
    <3> QED BY <2>1, <3>1
  <2> QED BY <2>3, <2>4
<1>5. Touched(store, d, T, {})
  BY <1>2, <1>3, <1>4 DEF Touched, OnlyTable, SameStamp, ClearEffect
<1>6. Left(store, op) = {} BY <1>1 DEF Left
<1> QED BY <1>1, <1>5, <1>6, TouchStoreRefs DEF d

LEMMA RemoveFromTableRefs ==
  ASSUME NoWrap, RowsInv, RowsInv', RefsInv, NEW T \in Types, RemoveFromTable(T)
  PROVE  RefsInv'
<1> DEFINE dst == T \ {op.comp}
           s == Ensure(store, dst)
           d == store'
           es == s.tab[T].ents
           left == Left(store, op)
           left2 == Left(store', op')
<1>1. /\ op.kind = "remove" /\ T \in op.todo /\ store' = Merge(s, dst, T)
      /\ op' = [op EXCEPT !.todo = @ \ {T}]
      /\ WithinBounds(store') /\ refs' = refs
  BY DEF RemoveFromTable, Becomes
<1>2. /\ IsStore(store) /\ Rows(store.rec, store.tab, {}) /\ T \in DOMAIN store.tab /\ op.comp \in T
      /\ op'.kind = op.kind /\ op'.comp = op.comp /\ op'.todo = op.todo \ {T}
  BY <1>1, CleanState
<1>3. dst \in Types /\ dst # T /\ dst \subseteq T /\ op.comp \notin dst BY <1>2 DEF Types
<1> HIDE DEF dst
<1>4. /\ IsStore(s) /\ dst \in DOMAIN s.tab /\ Rows(s.rec, s.tab, {})
      /\ DOMAIN s.tab = DOMAIN store.tab \cup {dst}
  BY <1>2, <1>3, EnsuredState
<1>5. Sound(s, MaxFast) /\ RefsOK(refs, s, left) BY <1>3, EnsureRefs
<1>6. d = Merge(s, dst, T) BY <1>1
<1> HIDE DEF s, d
<1>7. T \in DOMAIN s.tab /\ Sized(dst, s.tab[dst]) /\ Sized(T, s.tab[T])
      /\ s.rec \in [Indices -> RecType]
  BY <1>2, <1>4 DEF Rows, IsStore
<1>8. MergeEffect(s, d, dst, T) BY <1>3, <1>4, <1>6, <1>7, MergedFields
<1>9. RecsKept(s.rec, d.rec, {dst} \cup {T})
  <2> SUFFICES ASSUME NEW j \in Indices
               PROVE  /\ s.rec[j].alive /\ s.rec[j].table \notin {dst} \cup {T} => d.rec[j] = s.rec[j]
                      /\ s.rec[j].gen <= d.rec[j].gen
                      /\ s.rec[j].alive /\ s.rec[j].gen = d.rec[j].gen => d.rec[j].alive
    BY DEF RecsKept
  <2> DEFINE n == Len(s.tab[dst].ents)
  <2>1. s.rec[j] \in RecType /\ s.rec[j].gen \in Nat BY <1>7 DEF RecType
  <2>2. d.rec = MovedRec(s.rec, es, dst, n) BY <1>8 DEF MergeEffect
  <2> HIDE DEF n
  <2>3. CASE \E k \in DOMAIN es : es[k][1] = j
    <3>1. PICK k \in DOMAIN es : es[k][1] = j BY <2>3
    <3>2. AtRow(s.rec, s.tab, T, k) BY <1>4, <1>7 DEF Rows
    <3>3. s.rec[j].table = T BY <3>1, <3>2 DEF AtRow
    <3>4. d.rec[j] = [s.rec[j] EXCEPT !.table = dst, !.row = n + @] BY <2>2, <2>3, Zenon DEF MovedRec
    <3>5. d.rec[j].gen = s.rec[j].gen /\ d.rec[j].alive = s.rec[j].alive
      BY <2>1, <3>4 DEF RecType
    <3> QED BY <2>1, <3>3, <3>5
  <2>4. CASE ~ \E k \in DOMAIN es : es[k][1] = j
    <3>1. d.rec[j] = s.rec[j] BY <2>2, <2>4, Zenon DEF MovedRec
    <3> QED BY <2>1, <3>1
  <2> QED BY <2>3, <2>4
<1>10. Touched(s, d, dst, {T})
  <2>1. /\ d.ids = s.ids /\ DOMAIN d.tab = DOMAIN s.tab /\ Bumped(s, d, dst) /\ SameStamp(s, d, T)
        /\ \A U \in DOMAIN s.tab \ {dst, T} : d.tab[U] = s.tab[U]
    BY <1>8 DEF MergeEffect, SameStamp
  <2>2. ASSUME NEW U \in DOMAIN s.tab \ {dst}
        PROVE  SameStamp(s, d, U) /\ (U \notin {T} => d.tab[U].mem = s.tab[U].mem)
    <3>1. CASE U = T BY <2>1, <3>1
    <3>2. CASE U # T BY <2>1, <2>2, <3>2 DEF SameStamp
    <3> QED BY <3>1, <3>2
  <2>3. dst \in DOMAIN s.tab \ {T} BY <1>3, <1>4
  <2> QED BY ONLY <1>9, <2>1, <2>2, <2>3 DEF Touched
\* T joins the tables that were left.
<1>11. {T} \subseteq left2 /\ left \cap DOMAIN d.tab \subseteq left2
  <2>1. DOMAIN d.tab = DOMAIN s.tab BY <1>8 DEF MergeEffect
  <2>2. left = {U \in DOMAIN store.tab : op.comp \in U /\ U \notin op.todo} BY <1>1 DEF Left
  <2>3. left2 = {U \in DOMAIN d.tab : op.comp \in U /\ U \notin op.todo \ {T}}
    BY <1>1, <1>2 DEF Left, d
  <2> QED BY <1>2, <1>4, <1>7, <2>1, <2>2, <2>3
<1> HIDE DEF left, left2
<1>12. Touched(s, store', dst, {T}) BY <1>10 DEF d
<1>13. {T} \subseteq Left(store', op') /\ left \cap DOMAIN store'.tab \subseteq Left(store', op')
  BY <1>11 DEF d, left2
<1> QED BY <1>1, <1>5, <1>12, <1>13, TouchRefs

\* Every table that was left is deleted when the removal ends.
LEMMA CleanEndRefs ==
  ASSUME NoWrap, RowsInv, RowsInv', RefsInv, CleanEnd
  PROVE  RefsInv'
<1> DEFINE tables == {T \in DOMAIN store.tab : op.comp \in T /\ Deletable(T)}
           d == store'
           n2 == MaxFast + 2 * Cardinality(Types)
<1>1. PICK order \in SetToSeqs(tables) :
        /\ store' = FiniAll(store, tables, order) /\ op' = Idle
        /\ op.kind \in {"remove", "delete"} /\ op.todo = {} /\ WithinBounds(store') /\ refs' = refs
  BY DEF CleanEnd, Becomes
<1>2. Sound(store, MaxFast) /\ RefsOK(refs, store, Left(store, op)) BY RefsState
<1>3. tables \in SUBSET (DOMAIN store.tab \ {Root}) BY DEF Deletable
<1>4. IsStore(store) /\ tables \in SUBSET Types BY <1>2 DEF Sound, IsStore, IsTab
<1>5. \A T \in DOMAIN store.tab : op.comp \in T => T \in tables
  <2>1. \A T \in DOMAIN store.tab : op.comp \in T => store.tab[T].ents = <<>>
    BY <1>1 DEF RowsInv, RowsState, OpInv
  <2>2. \A T : op.comp \in T => T # Root BY DEF Root
  <2> QED BY <2>1, <2>2 DEF Deletable, NoWrap
<1> HIDE DEF tables
<1>6. order \in Seq(tables) /\ \A j, k \in DOMAIN order : order[j] = order[k] => j = k
  <2>1. order \in [1..Cardinality(tables) -> tables]
        /\ \A j, k \in 1..Cardinality(tables) : j # k => order[j] # order[k]
    BY <1>1 DEF SetToSeqs
  <2>2. Cardinality(tables) \in Nat BY <1>4, TypesFinite
  <2> QED BY <2>1, <2>2
<1>7. FiniEffect(store, d, tables, order) BY <1>1, <1>3, <1>4, <1>6, FinishedFields
<1> HIDE DEF d
<1>8. Sound(d, n2) /\ Evolves(store, d, {})
  <2>1. MaxFast \in Nat /\ MaxFast + 2 * Cardinality(Types) < FastMod BY Bounds
  <2> QED BY <1>2, <1>3, <1>6, <1>7, <2>1, FiniEvolves
<1>9. Left(store, op) \cap DOMAIN d.tab = {}
  <2>1. DOMAIN d.tab = DOMAIN store.tab \ tables BY <1>7 DEF FiniEffect
  <2> QED BY <1>5, <2>1 DEF Left
<1>10. Sound(store', n2) /\ Evolves(store, store', {})
       /\ Left(store, op) \cap DOMAIN store'.tab \subseteq Left(store', op')
  BY <1>8, <1>9 DEF d
<1> HIDE DEF n2
<1> QED BY <1>1, <1>2, <1>10, StepRefs

LEMMA ShrinkRefs ==
  ASSUME NoWrap, RowsInv, RowsInv', RefsInv, Shrink
  PROVE  RefsInv'
<1> DEFINE full == {T \in DOMAIN store.tab : store.tab[T].ents # <<>>} \cup {Root}
           tables == {T \in DOMAIN store.tab : Deletable(T)}
           s1 == ShrinkAll(store, full)
           s2 == FiniAll(s1, tables, <<>>)
           d == [s2 EXCEPT !.ids.free = <<>>]
           n1 == MaxFast + 2 * Cardinality(Types)
           n2 == n1 + 2 * Cardinality(Types)
           rs == refs
<1>1. op = Idle /\ op' = Idle /\ store' = d /\ WithinBounds(store') /\ refs' = refs
  BY DEF Shrink, Becomes
<1>2. Sound(store, MaxFast) /\ RefsOK(rs, store, {}) BY <1>1, RefsState, IdleLeft
<1>3. /\ MaxFast \in Nat /\ MaxFast + 2 * Cardinality(Types) < FastMod /\ MaxFast + 2 < VersionMod
      /\ n1 \in Nat /\ n1 + 2 * Cardinality(Types) < FastMod
  BY Bounds
<1>4. IsStore(store) /\ Root \in DOMAIN store.tab BY <1>2 DEF Sound, IdsInv
<1>5. full \in SUBSET DOMAIN store.tab /\ tables \in SUBSET (DOMAIN store.tab \ {Root})
  BY <1>4 DEF Deletable
<1> HIDE DEF full, tables
<1>6. ShrinkEffect(store, s1, full) BY <1>4, <1>5, ShrunkFields
<1> HIDE DEF s1
<1>7. Sound(s1, n1) /\ Evolves(store, s1, {}) BY <1>2, <1>3, <1>5, <1>6, ShrinkEvolves
<1> HIDE DEF rs
<1>8. RefsOK(rs, s1, {}) BY ONLY <1>2, <1>7, RefsEvolve
<1>9. tables \in SUBSET (DOMAIN s1.tab \ {Root}) BY <1>5, <1>6 DEF ShrinkEffect
<1>10. /\ <<>> \in Seq(tables)
       /\ \A j, k \in DOMAIN <<>> : <<>>[j] = <<>>[k] => j = k
  OBVIOUS
<1>11. FiniEffect(s1, s2, tables, <<>>)
  <2>1. IsStore(s1) BY <1>7 DEF Sound
  <2> QED BY <1>9, <1>10, <2>1, FinishedFields
<1> HIDE DEF s2, n1
<1>12. Sound(s2, n2) /\ Evolves(s1, s2, {})
  <2> DEFINE order == <<>>
  <2>1. order \in Seq(tables) /\ \A j, k \in DOMAIN order : order[j] = order[k] => j = k BY <1>10
  <2>2. FiniEffect(s1, s2, tables, order) BY <1>11
  <2> HIDE DEF order
  <2> QED BY ONLY <1>3, <1>7, <1>9, <2>1, <2>2, FiniEvolves
<1> HIDE DEF n2
<1>13. RefsOK(rs, s2, {}) BY ONLY <1>7, <1>8, <1>12, RefsEvolve
<1>14. /\ d.rec = s2.rec /\ d.tab = s2.tab /\ d.fast = s2.fast
       /\ d.ids.next = s2.ids.next /\ d.ids.free = <<>>
  <2>1. IsStore(s2) BY <1>12 DEF Sound
  <2> QED BY <2>1 DEF IsStore, IsIds
<1>15. IsStore(d) BY <1>1 DEF RowsInv, RowsState
<1> HIDE DEF d
<1>16. Sound(d, n2) /\ Evolves(s2, d, {}) BY <1>12, <1>14, <1>15, ForgetEvolves
<1>17. Sound(store', n2) /\ Evolves(s2, store', {}) /\ RefsOK(refs, s2, {})
  BY <1>1, <1>13, <1>16 DEF rs
<1> QED BY <1>1, <1>12, <1>17, StepRefs

LEMMA DeleteEmptyTableRefs ==
  ASSUME NoWrap, RowsInv, RowsInv', RefsInv, NEW T \in Types, DeleteEmptyTable(T)
  PROVE  RefsInv'
<1> DEFINE n2 == MaxFast + 2 * Cardinality(Types)
           d == store'
<1>1. /\ op = Idle /\ op' = Idle /\ T \in DOMAIN store.tab /\ T # Root
      /\ WithinBounds(store') /\ refs' = refs
      /\ d = FiniAll(store, {T}, <<T>>) \/ d = ShrinkAll(store, {T})
  BY DEF DeleteEmptyTable, Becomes, Deletable
<1>2. Sound(store, MaxFast) /\ RefsOK(refs, store, Left(store, op)) BY RefsState
<1>3. MaxFast \in Nat /\ MaxFast + 2 * Cardinality(Types) < FastMod /\ MaxFast + 2 < VersionMod
  BY Bounds
<1>4. IsStore(store) BY <1>2 DEF Sound
<1> HIDE DEF d
<1>5. Sound(d, n2) /\ Evolves(store, d, {})
  <2>1. CASE d = FiniAll(store, {T}, <<T>>)
    <3> DEFINE order == <<T>>
               tables == {T}
    <3>1. tables \in SUBSET (DOMAIN store.tab \ {Root}) BY <1>1
    <3>2. order \in Seq(tables) /\ \A j, k \in DOMAIN order : order[j] = order[k] => j = k
      OBVIOUS
    <3>3. d = FiniAll(store, tables, order) BY <2>1
    <3> HIDE DEF order, tables
    <3>4. tables \in SUBSET DOMAIN store.tab BY <3>1
    <3>5. FiniEffect(store, d, tables, order) BY ONLY <1>4, <3>2, <3>3, <3>4, FinishedFields
    <3> QED BY ONLY <1>2, <1>3, <3>1, <3>2, <3>5, FiniEvolves
  <2>2. CASE d = ShrinkAll(store, {T})
    <3> DEFINE tables == {T}
    <3>1. tables \in SUBSET DOMAIN store.tab BY <1>1
    <3>2. d = ShrinkAll(store, tables) BY <2>2
    <3> HIDE DEF tables
    <3>3. ShrinkEffect(store, d, tables) BY ONLY <1>4, <3>1, <3>2, ShrunkFields
    <3> QED BY ONLY <1>2, <1>3, <3>1, <3>3, ShrinkEvolves
  <2> QED BY <1>1, <2>1, <2>2
<1>6. Sound(store', n2) /\ Evolves(store, store', {}) BY <1>5 DEF d
<1>7. Left(store, op) = {} BY <1>1, IdleLeft
<1> HIDE DEF n2
<1> QED BY <1>1, <1>2, <1>6, <1>7, StepRefs

\* A reference that was just taken.
LEMMA TakenOK ==
  ASSUME NEW n, Sound(store, n), NEW i \in Indices, store.rec[i].alive,
         store.rec[i].table \in DOMAIN store.tab, NEW c \in Comps, NEW left,
         NEW e, e = <<i, store.rec[i].gen>>
  PROVE  IsRef(Taken(e, c)) /\ RefInv(store, Taken(e, c), left)
<1> DEFINE ref == Taken(e, c)
           U == store.rec[i].table
           t == store.tab[U]
<1>1. IsStore(store) /\ IdsInv(store) /\ VersionsInv(store) BY DEF Sound
<1>2. /\ t.id \in Nat \X Nat /\ t.version \in Nat /\ t.id[1] \in Nat /\ t.id[2] \in Nat
      /\ store.rec[i].gen \in Nat /\ e \in Ent /\ e[1] = i /\ e[2] = store.rec[i].gen
  <2>1. t.id \in Nat \X Nat /\ t.version \in Nat BY <1>1, TableIn
  <2>2. store.rec[i].gen \in Nat BY <1>1 DEF IsStore, RecType
  <2> QED BY <2>1, <2>2 DEF Ent
<1>3. store.fast[Slot(t.id)] \in Nat BY <1>1, <1>2, SlotIn DEF VersionsInv
<1>4. /\ ref.ent = e /\ ref.comp = c /\ ref.tid = t.id /\ ref.version = t.version
      /\ ref.fast = store.fast[Slot(t.id)] /\ ref.ptr = Resolve(e, c)
      /\ ref \in [ent : {ref.ent}, comp : {ref.comp}, tid : {ref.tid}, fast : {ref.fast},
                  version : {ref.version}, ptr : {ref.ptr}]
  BY <1>2 DEF Taken
<1> HIDE DEF ref
<1>5. IsRef(ref) BY <1>2, <1>3, <1>4 DEF IsRef
<1>6. \A T \in DOMAIN store.tab : store.tab[T].id[1] = t.id[1] => T = U BY <1>1 DEF IdsInv
<1>7. PtrInv(store, ref, left)
  <2> SUFFICES ASSUME NEW T \in DOMAIN store.tab, Matches(store, ref, T)
               PROVE  /\ AliveIn(store.rec, ref.ent) /\ store.rec[ref.ent[1]].table = T
                      /\ ref.ptr = ResolveIn(store, ref.ent, ref.comp)
    BY DEF PtrInv
  <2>1. T = U BY <1>4, <1>6, Zenon DEF Matches
  <2>2. AliveIn(store.rec, e) BY <1>2 DEF AliveIn
  <2>3. store.rec[e[1]].table = T BY <1>2, <2>1
  <2>4. Resolve(e, c) = ResolveIn(store, e, c) BY DEF Resolve, ResolveIn, Alive, AliveIn
  <2>5. ref.ent = e /\ ref.comp = c /\ ref.ptr = Resolve(e, c) BY <1>4
  <2> QED BY ONLY <2>2, <2>3, <2>4, <2>5
<1>8. FastInv(store, ref)
  <2>1. Matches(store, ref, U) BY <1>4 DEF Matches
  <2>2. ref.fast = store.fast[Slot(ref.tid)] /\ ref.fast \in Nat BY <1>3, <1>4
  <2>3. ref.fast <= store.fast[Slot(ref.tid)] BY <2>2
  <2> QED BY <2>1, <2>2, <2>3 DEF FastInv
<1>9. EntInv(store, ref)
  <2>1. store.rec[ref.ent[1]] = store.rec[i] /\ ref.ent[2] = store.rec[i].gen BY <1>2, <1>4
  <2>2. store.rec[i].alive /\ store.rec[i].gen \in Nat BY <1>2
  <2>3. store.rec[i].gen >= store.rec[i].gen BY ONLY <2>2
  <2> QED BY ONLY <2>1, <2>2, <2>3 DEF EntInv
<1>10. TidInv(store, ref)
  <2>1. t.id[1] < store.ids.next /\ \A k \in DOMAIN store.ids.free : t.id[1] # store.ids.free[k][1]
    BY <1>1 DEF IdsInv
  <2>2. t.id[2] >= t.id[2] /\ t.version >= t.version BY <1>2
  <2> QED BY <1>4, <1>6, <2>1, <2>2, Zenon DEF TidInv
<1> QED BY <1>5, <1>7, <1>8, <1>9, <1>10 DEF ref, RefInv

\* A reference that is used.
LEMMA UpdatedOK ==
  ASSUME NEW n, Sound(store, n), \A i \in Indices : store.rec[i].alive => store.rec[i].table \in DOMAIN store.tab,
         NEW left, NEW ref, IsRef(ref), RefInv(store, ref, left)
  PROVE  IsRef(Updated(ref)) /\ RefInv(store, Updated(ref), left)
<1> DEFINE i == ref.ent[1]
           U == store.rec[i].table
           t == store.tab[U]
           up == Updated(ref)
<1>1. IsStore(store) /\ IdsInv(store) /\ VersionsInv(store) BY DEF Sound
<1>2. /\ ref.tid \in Nat \X Nat /\ ref.fast \in Nat /\ ref.version \in Nat
      /\ ref.ent \in Ent /\ i \in Indices /\ ref.ent[2] \in Nat /\ ref.comp \in Comps
      /\ store.rec[i].gen \in Nat /\ ref.ent = <<i, ref.ent[2]>>
  BY <1>1 DEF IsRef, Ent, IsStore, RecType
<1>3. CASE up = ref BY <1>3
<1>4. CASE up = Cleared(ref) /\ ~Alive(ref.ent)
  <2>1. /\ up.ent = ref.ent /\ up.comp = ref.comp /\ up.tid = RootId /\ up.fast = 0
        /\ up.version = 0 /\ up.ptr = Null
        /\ up \in [ent : {up.ent}, comp : {up.comp}, tid : {up.tid}, fast : {up.fast},
                   version : {up.version}, ptr : {up.ptr}]
    BY <1>4 DEF Cleared, IsRef
  <2> HIDE DEF up
  <2>2. RootId \in Nat \X Nat /\ RootId[1] = 0 /\ RootId[2] = 0 BY DEF RootId
  <2>3. IsRef(up) BY <1>2, <2>1, <2>2 DEF IsRef
  <2>4. \A T \in DOMAIN store.tab : store.tab[T].version \in Nat /\ store.tab[T].version # 0
                                    /\ store.tab[T].id \in Nat \X Nat
    <3> SUFFICES ASSUME NEW T \in DOMAIN store.tab
                 PROVE  store.tab[T].version # 0
      BY <1>1, TableIn
    <3> DEFINE m == Slot(store.tab[T].id)
    <3>1. store.tab[T].version \in 1..store.fast[m] + 1 BY <1>1 DEF VersionsInv
    <3> HIDE DEF m
    <3> QED BY <3>1
  <2>5. PtrInv(store, up, left) BY <2>1, <2>4 DEF PtrInv, Matches
  <2>6. store.rec[i].gen > ref.ent[2]
    <3>1. /\ store.rec[i].gen >= ref.ent[2]
          /\ store.rec[i].gen = ref.ent[2] => store.rec[i].alive
      BY DEF RefInv, EntInv
    <3> QED BY <1>2, <1>4, <3>1 DEF Alive
  <2>7. FastInv(store, up)
    <3>1. Slot(RootId) \in 0..VersionSlots - 1 BY <2>2, SlotIn
    <3>2. store.fast[Slot(RootId)] \in Nat BY <1>1, <3>1 DEF VersionsInv
    <3> QED BY <2>1, <2>6, <3>2 DEF FastInv, IsCleared
  <2>8. EntInv(store, up) BY <2>1 DEF RefInv, EntInv
  <2>9. TidInv(store, up)
    <3>1. Root \in DOMAIN store.tab /\ store.tab[Root].id = RootId BY <1>1 DEF IdsInv
    <3>2. RootId[1] < store.ids.next /\ \A k \in DOMAIN store.ids.free : store.ids.free[k][1] # RootId[1]
      BY <1>1, <3>1 DEF IdsInv
    <3>3. \A T \in DOMAIN store.tab : store.tab[T].id[2] >= 0 /\ store.tab[T].version >= 0
      BY <2>4
    <3> QED BY <2>1, <2>2, <3>2, <3>3 DEF TidInv
  <2> QED BY <2>3, <2>5, <2>7, <2>8, <2>9 DEF RefInv, up
<1>5. CASE Alive(ref.ent) /\ up = [ref EXCEPT !.fast = store.fast[Slot(t.id)]]
           /\ ref.tid = t.id /\ ref.version = t.version
  <2>1. /\ up.ent = ref.ent /\ up.comp = ref.comp /\ up.tid = ref.tid
        /\ up.fast = store.fast[Slot(ref.tid)] /\ up.version = ref.version /\ up.ptr = ref.ptr
        /\ up \in [ent : {up.ent}, comp : {up.comp}, tid : {up.tid}, fast : {up.fast},
                   version : {up.version}, ptr : {up.ptr}]
    BY <1>5, Zenon DEF IsRef
  <2> HIDE DEF up
  <2>2. store.fast[Slot(ref.tid)] \in Nat BY <1>1, <1>2, SlotIn DEF VersionsInv
  <2>3. IsRef(up) BY <1>2, <2>1, <2>2 DEF IsRef
  <2>4. U \in DOMAIN store.tab BY <1>2, <1>5, Zenon DEF Alive
  <2>5. FastInv(store, up)
    <3>1. Matches(store, up, U) BY <1>5, <2>1, Zenon DEF Matches
    <3>2. up.fast <= store.fast[Slot(up.tid)]
      BY <2>1, <2>2
    <3> QED BY <2>1, <2>4, <3>1, <3>2 DEF FastInv
  <2>6. PtrInv(store, up, left) BY <2>1 DEF RefInv, PtrInv, Matches
  <2>7. EntInv(store, up) BY <2>1 DEF RefInv, EntInv
  <2>8. TidInv(store, up) BY <2>1 DEF RefInv, TidInv
  <2> QED BY <2>3, <2>5, <2>6, <2>7, <2>8 DEF RefInv, up
<1>6. CASE Alive(ref.ent) /\ up = Taken(ref.ent, ref.comp)
  <2>1. store.rec[i].alive /\ U \in DOMAIN store.tab /\ ref.ent = <<i, store.rec[i].gen>>
    BY <1>2, <1>6 DEF Alive
  <2> HIDE DEF up
  <2> QED BY <1>2, <1>6, <2>1, TakenOK DEF up
<1> QED BY <1>3, <1>4, <1>5, <1>6, Zenon DEF Updated

\* Entities are in tables that exist.
LEMMA AliveHasTable ==
  ASSUME RowsInv
  PROVE  \A i \in Indices : store.rec[i].alive => store.rec[i].table \in DOMAIN store.tab
BY DEF RowsInv, RowsState, Rows, HasRow

LEMMA RefInitRefs ==
  ASSUME RowsInv, RefsInv, NEW r \in Refs, NEW i \in Indices, NEW c \in Comps, RefInit(r, i, c)
  PROVE  RefsInv'
<1> DEFINE ref == Taken(<<i, store.rec[i].gen>>, c)
<1>1. store' = store /\ op' = op /\ store.rec[i].alive /\ refs' = [refs EXCEPT ![r] = {ref}]
  BY DEF RefInit
<1>2. Sound(store, MaxFast) /\ RefsOK(refs, store, Left(store, op)) BY RefsState
<1>3. IsRef(ref) /\ RefInv(store, ref, Left(store, op)) BY <1>1, <1>2, AliveHasTable, TakenOK
<1> HIDE DEF ref
<1>4. DOMAIN refs = Refs /\ refs = [q \in Refs |-> refs[q]] BY DEF RefsInv
<1>5. DOMAIN refs' = Refs /\ refs' = [q \in Refs |-> refs'[q]] BY <1>1, <1>4
<1>6. RefsOK(refs', store, Left(store, op)) BY <1>1, <1>2, <1>3, <1>4 DEF RefsOK
<1> QED BY <1>1, <1>5, <1>6 DEF RefsInv

LEMMA RefGetRefs ==
  ASSUME RowsInv, RefsInv, NEW r \in Refs, RefGet(r)
  PROVE  RefsInv'
<1>1. store' = store /\ op' = op /\ refs' = [refs EXCEPT ![r] = {Updated(ref) : ref \in @}]
  BY DEF RefGet
<1>2. Sound(store, MaxFast) /\ RefsOK(refs, store, Left(store, op)) BY RefsState
<1>3. ASSUME NEW ref \in refs[r]
      PROVE  IsRef(Updated(ref)) /\ RefInv(store, Updated(ref), Left(store, op))
  <2>1. IsRef(ref) /\ RefInv(store, ref, Left(store, op)) BY <1>2 DEF RefsOK
  <2> QED BY <1>2, <2>1, AliveHasTable, UpdatedOK
<1>4. DOMAIN refs = Refs /\ refs = [q \in Refs |-> refs[q]] BY DEF RefsInv
<1>5. DOMAIN refs' = Refs /\ refs' = [q \in Refs |-> refs'[q]] BY <1>1, <1>4
<1>6. refs'[r] = {Updated(ref) : ref \in refs[r]} /\ \A q \in Refs \ {r} : refs'[q] = refs[q]
  BY <1>1, <1>4
<1>7. RefsOK(refs', store, Left(store, op))
  <2> SUFFICES ASSUME NEW q \in Refs, NEW ref \in refs'[q]
               PROVE  IsRef(ref) /\ RefInv(store, ref, Left(store, op))
    BY DEF RefsOK
  <2>1. CASE q = r
    <3>1. PICK old \in refs[r] : ref = Updated(old) BY <1>6, <2>1
    <3> QED BY <1>3, <3>1
  <2>2. CASE q # r BY <1>2, <1>6, <2>2 DEF RefsOK
  <2> QED BY <2>1, <2>2
<1> QED BY <1>1, <1>5, <1>7 DEF RefsInv

LEMMA InitRefs == Init => RefsInv
<1> SUFFICES ASSUME Init PROVE RefsInv OBVIOUS
<1>1. /\ store.tab = [T \in {Root} |-> EmptyTable(Root, RootId)] /\ op = Idle
      /\ store.ids = [next |-> 1, free |-> <<>>]
      /\ store.fast = [n \in 0..VersionSlots - 1 |-> 0] /\ refs = [r \in Refs |-> {}]
  BY DEF Init
<1>2. DOMAIN store.tab = {Root} /\ store.tab[Root].id = RootId /\ store.tab[Root].version = 1
  BY <1>1 DEF EmptyTable
<1>3. RootId \in Nat \X Nat /\ RootId[1] = 0 BY DEF RootId
<1>4. store.ids.next = 1 /\ DOMAIN store.ids.free = {} BY <1>1
<1>5. IdsInv(store) BY <1>2, <1>3, <1>4 DEF IdsInv
<1>6. Slot(RootId) \in 0..VersionSlots - 1 BY <1>3, SlotIn
<1>7. VersionsInv(store)
  <2>1. store.fast \in [0..VersionSlots - 1 -> Nat] /\ store.fast[Slot(RootId)] = 0 BY <1>1, <1>6
  <2> QED BY <1>2, <2>1 DEF VersionsInv
<1>8. FastBound(store, MaxFast) BY <1>1, ConstantsAssumption DEF FastBound
<1> QED BY <1>1, <1>5, <1>7, <1>8 DEF RefsInv, RefsOK

LEMMA NextRefs ==
  ASSUME NoWrap, RowsInv, RowsInv', RefsInv, [Next]_vars
  PROVE  RefsInv'
<1>1. CASE UNCHANGED vars BY <1>1 DEF vars, RefsInv
<1>2. ASSUME NEW i \in Indices, NEW T \in Types, NewEntity(i, T) PROVE RefsInv'
  BY <1>2, NewEntityRefs
<1>3. ASSUME NEW i \in Indices, NEW T \in Types, MoveBegin(i, T) PROVE RefsInv'
  BY <1>3, MoveBeginRefs
<1>4. ASSUME NEW i \in Indices, NEW j \in Indices, NEW T \in Types, BulkNew(i, j, T) PROVE RefsInv'
  BY <1>4, BulkNewRefs
<1>5. ASSUME NEW i \in Indices, Delete(i) PROVE RefsInv' BY <1>5, DeleteRefs
<1>6. CASE MoveEnd BY <1>6, MoveEndRefs
<1>7. ASSUME NEW kind \in {"remove", "delete"}, NEW c \in Comps, CleanBegin(kind, c) PROVE RefsInv'
  BY <1>7, CleanBeginRefs
<1>8. ASSUME NEW T \in Types, RemoveFromTable(T) PROVE RefsInv' BY <1>8, RemoveFromTableRefs
<1>9. ASSUME NEW T \in Types, ClearEntities(T) PROVE RefsInv' BY <1>9, ClearEntitiesRefs
<1>10. ASSUME NEW T \in Types, DeleteEmptyTable(T) PROVE RefsInv' BY <1>10, DeleteEmptyTableRefs
<1>11. CASE CleanEnd BY <1>11, CleanEndRefs
<1>12. CASE Shrink BY <1>12, ShrinkRefs
<1>13. ASSUME NEW T \in Types, NEW j, NEW k, SwapRows(T, j, k) PROVE RefsInv'
  BY <1>13, SwapRowsRefs
<1>14. ASSUME NEW r \in Refs, NEW i \in Indices, NEW c \in Comps, RefInit(r, i, c) PROVE RefsInv'
  BY <1>14, RefInitRefs
<1>15. ASSUME NEW r \in Refs, RefGet(r) PROVE RefsInv' BY <1>15, RefGetRefs
<1> QED BY <1>1, <1>2, <1>3, <1>4, <1>5, <1>6, <1>7, <1>8, <1>9, <1>10, <1>11, <1>12, <1>13, <1>14,
           <1>15 DEF Next

\* What a reference gives is where the component is, whenever references are used.
LEMMA RefsAreCurrent ==
  ASSUME NoWrap, RowsInv, RefsInv
  PROVE  RefsCurrent
<1> SUFFICES ASSUME MayRead, NEW r \in Refs, NEW ref \in refs[r]
             PROVE  Updated(ref).ptr = Resolve(ref.ent, ref.comp)
  BY DEF RefsCurrent
<1> DEFINE i == ref.ent[1]
           U == store.rec[i].table
<1>1. Left(store, op) = {} BY DEF MayRead, NoWrap, Left
<1>2. IsRef(ref) /\ RefInv(store, ref, {}) BY <1>1 DEF RefsInv, RefsOK
<1>3. i \in Indices /\ ref.ent[2] \in Nat /\ store.rec[i].gen \in Nat
  BY <1>2 DEF IsRef, Ent, RowsInv, RowsState, IsStore, RecType
<1>4. ResolveIn(store, ref.ent, ref.comp) = Resolve(ref.ent, ref.comp)
      /\ AliveIn(store.rec, ref.ent) = Alive(ref.ent)
  BY DEF ResolveIn, Resolve, AliveIn, Alive
<1>5. \A T \in DOMAIN store.tab : Matches(store, ref, T) => ref.ptr = Resolve(ref.ent, ref.comp)
  BY <1>2, <1>4 DEF RefInv, PtrInv
<1>6. ~Alive(ref.ent) => Resolve(ref.ent, ref.comp) = Null BY DEF Resolve
<1>7. CASE ref.fast = store.fast[Slot(ref.tid)]
  <2>1. Updated(ref) = ref BY <1>7 DEF Updated
  <2>2. CASE \E T \in DOMAIN store.tab : Matches(store, ref, T) BY <1>5, <2>1, <2>2
  <2>3. CASE IsCleared(ref) /\ store.rec[i].gen > ref.ent[2]
    <3>1. ~Alive(ref.ent) BY <1>3, <2>3 DEF Alive
    <3> QED BY <1>6, <2>1, <2>3, <3>1 DEF IsCleared
  <2> QED BY <1>2, <1>7, <2>2, <2>3 DEF RefInv, FastInv
<1>8. CASE ref.fast # store.fast[Slot(ref.tid)] /\ ~Alive(ref.ent)
  <2>1. Updated(ref) = Cleared(ref) BY <1>8 DEF Updated
  <2>2. Cleared(ref).ptr = Null BY <1>2 DEF Cleared, IsRef
  <2> QED BY <1>6, <1>8, <2>1, <2>2
<1>9. CASE /\ ref.fast # store.fast[Slot(ref.tid)] /\ Alive(ref.ent)
           /\ ref.tid = store.tab[U].id /\ ref.version = store.tab[U].version
  <2>1. Updated(ref).ptr = ref.ptr BY <1>2, <1>9 DEF Updated, IsRef
  <2>2. U \in DOMAIN store.tab BY <1>3, <1>9, AliveHasTable, Zenon DEF Alive
  <2>3. Matches(store, ref, U) BY <1>9 DEF Matches
  <2> QED BY <1>5, <2>1, <2>2, <2>3
<1>10. CASE /\ ref.fast # store.fast[Slot(ref.tid)] /\ Alive(ref.ent)
            /\ ~(ref.tid = store.tab[U].id /\ ref.version = store.tab[U].version)
  <2>1. Updated(ref) = Taken(ref.ent, ref.comp) BY <1>10, Zenon DEF Updated
  <2>2. Taken(ref.ent, ref.comp).ptr = Resolve(ref.ent, ref.comp) BY ONLY DEF Taken
  <2> QED BY ONLY <2>1, <2>2
<1> QED BY <1>7, <1>8, <1>9, <1>10

\* As long as no counter wraps around, no table is kept and no observer of a
\* removal uses references, a reference is never stale when it is used,
\* whichever entities, components, references and bounds there are.
THEOREM RefsStayCurrent ==
  ASSUME NoWrap
  PROVE  Spec => []RefsCurrent
<1> DEFINE Inv == RowsInv /\ RefsInv
<1>1. Init => Inv BY InitRows, InitRefs
<1>2. Inv /\ [Next]_vars => Inv'
  <2> SUFFICES ASSUME Inv, [Next]_vars PROVE Inv' OBVIOUS
  <2>1. RowsInv' BY NextRows
  <2> QED BY <2>1, NextRefs
<1>3. Inv => RefsCurrent BY RefsAreCurrent
<1> QED BY <1>1, <1>2, <1>3, PTL DEF Spec
=============================================================================
