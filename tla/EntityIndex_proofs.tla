------------------------- MODULE EntityIndex_proofs -------------------------
(***************************************************************************)
(* For any number of ids, generations and ranges: the records and dense    *)
(* are inverse to each other, ids that can be recycled are kept once and   *)
(* in their range, and no id is issued twice.  The last part shows that    *)
(* EntityIndex implements EntityIds: the dead generations of an id are a   *)
(* run that ends before the generation it has now, so a handle that was    *)
(* deleted is not issued again before all others of its id were.           *)
(***************************************************************************)
EXTENDS EntityIndex, SequenceTheorems, TLAPS

USE ConstantsAssumption

(***************************************************************************)
(* dense and the records                                                   *)
(***************************************************************************)
Inverse1(d, r) == \A k \in 1..Len(d) : r[d[k].id] = k
Inverse2(d, r) == \A i \in Ids : r[i] # 0 => d[r[i]].id = i

\* dense d with a alive entities and the records r.
Index(d, a, r) ==
  /\ d \in Seq(Handles) /\ a \in 0..Len(d) /\ r \in [Ids -> 0..Len(d)]
  /\ Inverse1(d, r) /\ Inverse2(d, r)

LEMMA HandleId == \A h \in Handles : h.id \in Ids
  BY DEF Handles

LEMMA Shape ==
  ASSUME NEW d \in Seq(Handles)
  PROVE  Len(d) \in Nat /\ DOMAIN d = 1..Len(d)
         /\ \A k \in 1..Len(d) : d[k] \in Handles /\ d[k].id \in Ids
  BY HandleId

\* An id of which no handle is in dense is added at the end.
LEMMA Appended ==
  ASSUME NEW d, NEW a, NEW r, Index(d, a, r), NEW h \in Handles, r[h.id] = 0
  PROVE  Index(Append(d, h), a, [r EXCEPT ![h.id] = Len(d) + 1])
<1> DEFINE e == Append(d, h)
           n == Len(d)
           s == [r EXCEPT ![h.id] = n + 1]
<1>1. d \in Seq(Handles) /\ n \in Nat /\ h.id \in Ids /\ r \in [Ids -> 0..n] /\ a \in 0..n
  BY Shape, HandleId DEF Index
<1>2. e \in Seq(Handles) /\ Len(e) = n + 1 /\ e[n + 1] = h /\ \A k \in 1..n : e[k] = d[k]
  BY <1>1, AppendProperties
<1>3. s \in [Ids -> 0..n + 1] /\ s[h.id] = n + 1 /\ \A i \in Ids \ {h.id} : s[i] = r[i]
  BY <1>1
<1>4. \A k \in 1..n : d[k].id \in Ids /\ r[d[k].id] = k /\ d[k].id # h.id
  <2> SUFFICES ASSUME NEW k \in 1..n PROVE d[k].id \in Ids /\ r[d[k].id] = k
    BY <1>1
  <2> QED
    BY <1>1, Shape DEF Index, Inverse1
<1> HIDE DEF e, s, n
<1>5. Inverse1(e, s)
  BY <1>1, <1>2, <1>3, <1>4 DEF Inverse1
<1>6. Inverse2(e, s)
  <2> SUFFICES ASSUME NEW i \in Ids, s[i] # 0 PROVE e[s[i]].id = i
    BY DEF Inverse2
  <2>1. CASE i = h.id
    BY <2>1, <1>2, <1>3
  <2>2. CASE i # h.id
    <3>1. r[i] \in 1..n /\ d[r[i]].id = i
      BY <2>2, <1>1, <1>3 DEF Index, Inverse2
    <3> QED
      BY <3>1, <2>2, <1>2, <1>3
  <2> QED
    BY <2>1, <2>2
<1> QED
  BY <1>1, <1>2, <1>3, <1>5, <1>6 DEF Index, e, s, n

\* The ids at two positions change places, where they may get other
\* generations.
LEMMA Exchanged ==
  ASSUME NEW d, NEW a, NEW r, Index(d, a, r),
         NEW j \in 1..Len(d), NEW k \in 1..Len(d), NEW g \in Handles, NEW h \in Handles,
         g.id = d[k].id, h.id = d[j].id
  PROVE  Index([d EXCEPT ![j] = g, ![k] = h], a, [r EXCEPT ![g.id] = j, ![h.id] = k])
<1> DEFINE e == [d EXCEPT ![j] = g, ![k] = h]
           s == [r EXCEPT ![g.id] = j, ![h.id] = k]
           n == Len(d)
<1>1. d \in Seq(Handles) /\ n \in Nat /\ g.id \in Ids /\ h.id \in Ids /\ r \in [Ids -> 0..n] /\ a \in 0..n
  BY Shape, HandleId DEF Index
<1>2. e \in Seq(Handles) /\ Len(e) = n
  BY <1>1, ExceptSeq
<1>3. e[j].id = g.id /\ e[k] = h /\ \A l \in 1..n : l # j /\ l # k => e[l] = d[l]
  <2>1. DOMAIN d = 1..n
    BY <1>1
  <2> QED
    BY <2>1
<1>4. \A l \in 1..n : d[l].id \in Ids /\ r[d[l].id] = l
  <2> SUFFICES ASSUME NEW l \in 1..n PROVE d[l].id \in Ids /\ r[d[l].id] = l
    OBVIOUS
  <2> QED
    BY <1>1, Shape DEF Index, Inverse1
<1>5. s \in [Ids -> 0..n] /\ s[g.id] = j /\ s[h.id] = k
      /\ \A i \in Ids : i # g.id /\ i # h.id => s[i] = r[i]
  <2>1. g.id = h.id => j = k
    BY <1>4
  <2> QED
    BY <1>1, <2>1
<1> HIDE DEF e, s
<1>6. Inverse1(e, s)
  <2> SUFFICES ASSUME NEW l \in 1..n PROVE s[e[l].id] = l
    BY <1>2 DEF Inverse1
  <2>1. CASE l = j \/ l = k
    BY <2>1, <1>3, <1>5
  <2>2. CASE l # j /\ l # k
    <3>1. e[l] = d[l] /\ d[l].id \in Ids /\ r[d[l].id] = l
      BY <2>2, <1>3, <1>4
    <3>2. d[l].id # g.id /\ d[l].id # h.id
      BY <2>2, <3>1, <1>4
    <3> QED
      BY <3>1, <3>2, <1>5
  <2> QED
    BY <2>1, <2>2
<1>7. Inverse2(e, s)
  <2> SUFFICES ASSUME NEW i \in Ids, s[i] # 0 PROVE e[s[i]].id = i
    BY DEF Inverse2
  <2>1. CASE i = g.id \/ i = h.id
    BY <2>1, <1>3, <1>5
  <2>2. CASE i # g.id /\ i # h.id
    <3>1. r[i] \in 1..n /\ d[r[i]].id = i /\ s[i] = r[i]
      BY <2>2, <1>1, <1>5 DEF Index, Inverse2
    <3>2. r[i] # j /\ r[i] # k
      BY <3>1, <2>2
    <3> QED
      BY <3>1, <3>2, <1>3
  <2> QED
    BY <2>1, <2>2
<1> QED
  BY <1>1, <1>2, <1>5, <1>6, <1>7 DEF Index, e, s

\* The last of dense takes the place of the last alive one, which is removed.
LEMMA Shortened ==
  ASSUME NEW d, NEW a, NEW r, Index(d, a, r), a > 0
  PROVE  Index(SubSeq([d EXCEPT ![a] = d[Len(d)]], 1, Len(d) - 1), a - 1,
               [r EXCEPT ![d[Len(d)].id] = a, ![d[a].id] = 0])
<1> DEFINE n == Len(d)
           f == [d EXCEPT ![a] = d[n]]
           e == SubSeq(f, 1, n - 1)
           s == [r EXCEPT ![d[n].id] = a, ![d[a].id] = 0]
<1>1. d \in Seq(Handles) /\ n \in Nat /\ r \in [Ids -> 0..n] /\ a \in 1..n
  BY Shape DEF Index
<1>2. \A l \in 1..n : d[l] \in Handles /\ d[l].id \in Ids /\ r[d[l].id] = l
  <2> SUFFICES ASSUME NEW l \in 1..n PROVE d[l] \in Handles /\ d[l].id \in Ids /\ r[d[l].id] = l
    OBVIOUS
  <2> QED
    BY <1>1, Shape DEF Index, Inverse1
<1>3. f \in Seq(Handles) /\ Len(f) = n /\ \A l \in 1..n : f[l] = IF l = a THEN d[n] ELSE d[l]
  BY <1>1, <1>2, ExceptSeq
<1> HIDE DEF f
<1>4. e \in Seq(Handles) /\ Len(e) = n - 1
      /\ \A l \in 1..n - 1 : e[l] = IF l = a THEN d[n] ELSE d[l]
  <2>1. \A l \in 1..n - 1 : f[l] \in Handles
    BY <1>1, <1>2, <1>3
  <2> QED
    BY <2>1, <1>1, <1>3, SubSeqProperties
<1>5. /\ s[d[a].id] = 0 /\ (a # n => s[d[n].id] = a)
      /\ \A i \in Ids : s[i] = IF i = d[a].id THEN 0 ELSE IF i = d[n].id THEN a ELSE r[i]
  BY <1>1, <1>2
<1>6. \A i \in Ids : r[i] # 0 => d[r[i]].id = i
  BY DEF Index, Inverse2
<1>7. s \in [Ids -> 0..n - 1]
  <2>1. s = [i \in Ids |-> s[i]]
    BY <1>1
  <2>2. ASSUME NEW i \in Ids PROVE s[i] \in 0..n - 1
    <3>1. r[i] = n => i = d[n].id
      BY <1>1, <1>6
    <3> QED
      BY <3>1, <1>1, <1>2, <1>5
  <2> HIDE DEF s
  <2> QED
    BY <2>1, <2>2
<1> HIDE DEF e, s
<1>8. Inverse1(e, s)
  <2> SUFFICES ASSUME NEW l \in 1..n - 1 PROVE s[e[l].id] = l
    BY <1>4 DEF Inverse1
  <2> QED
    BY <1>1, <1>2, <1>4, <1>5, SMTT(20)
<1>9. Inverse2(e, s)
  <2> SUFFICES ASSUME NEW i \in Ids, s[i] # 0 PROVE e[s[i]].id = i
    BY DEF Inverse2
  <2>1. i # d[a].id
    BY <1>5
  <2>2. CASE i = d[n].id
    <3>1. a # n
      BY <2>1, <2>2
    <3> QED
      BY <3>1, <2>2, <1>1, <1>4, <1>5
  <2>3. CASE i # d[n].id
    <3>1. s[i] = r[i] /\ r[i] \in 1..n /\ d[r[i]].id = i
      BY <2>1, <2>3, <1>1, <1>5, <1>6
    <3>2. r[i] # n /\ r[i] # a
      BY <3>1, <2>1, <2>3
    <3> QED
      BY <3>1, <3>2, <1>1, <1>4
  <2> QED
    BY <2>2, <2>3
<1> QED
  BY <1>1, <1>4, <1>7, <1>8, <1>9 DEF Index, e, s, f

\* Of the handles in dense only the alive ones stay, and others are added.
Reloaded(a, r, l) ==
  [i \in Ids |-> IF \E k \in DOMAIN l : l[k].id = i
                THEN a + CHOOSE k \in DOMAIN l : l[k].id = i
                ELSE IF r[i] > a THEN 0 ELSE r[i]]

LEMMA Reloading ==
  ASSUME NEW d, NEW a, NEW r, Index(d, a, r), NEW l \in Seq(Handles),
         \A j, k \in 1..Len(l) : l[j].id = l[k].id => j = k,
         \A k \in 1..Len(l) : r[l[k].id] = 0 \/ r[l[k].id] > a
  PROVE  Index(SubSeq(d, 1, a) \o l, a, Reloaded(a, r, l))
<1> DEFINE n == Len(d)
           m == Len(l)
           e == SubSeq(d, 1, a) \o l
           s == Reloaded(a, r, l)
<1>1. d \in Seq(Handles) /\ n \in Nat /\ m \in Nat /\ r \in [Ids -> 0..n] /\ a \in 0..n
      /\ DOMAIN l = 1..m
  BY Shape DEF Index
<1>2. \A k \in 1..n : d[k] \in Handles /\ d[k].id \in Ids /\ r[d[k].id] = k
  <2> SUFFICES ASSUME NEW k \in 1..n PROVE d[k] \in Handles /\ d[k].id \in Ids /\ r[d[k].id] = k
    OBVIOUS
  <2> QED
    BY <1>1, Shape DEF Index, Inverse1
<1>3. \A k \in 1..m : l[k] \in Handles /\ l[k].id \in Ids
  BY Shape
<1>4. e \in Seq(Handles) /\ Len(e) = a + m
      /\ (\A k \in 1..a : e[k] = d[k]) /\ (\A k \in 1..m : e[a + k] = l[k])
  <2> DEFINE b == SubSeq(d, 1, a)
  <2>1. b \in Seq(Handles) /\ Len(b) = a /\ \A k \in 1..a : b[k] = d[k]
    <3>1. \A k \in 1..a : d[k] \in Handles
      BY <1>1, <1>2
    <3> QED
      BY <3>1, <1>1, SubSeqProperties
  <2> HIDE DEF b
  <2> DEFINE c == b \o l
  <2>2. c \in Seq(Handles) /\ Len(c) = Len(b) + Len(l)
        /\ \A k \in 1..Len(b) + Len(l) : c[k] = IF k <= Len(b) THEN b[k] ELSE l[k - Len(b)]
    BY <2>1, ConcatProperties, ZenonT(30)
  <2> HIDE DEF c
  <2>3. c \in Seq(Handles) /\ Len(c) = a + m
        /\ \A k \in 1..a + m : c[k] = IF k <= a THEN b[k] ELSE l[k - a]
    BY <2>1, <2>2
  <2>4. \A k \in 1..a : c[k] = d[k]
    BY <2>1, <2>3, <1>1
  <2>5. ASSUME NEW k \in 1..m PROVE c[a + k] = l[k]
    <3>1. a + k \in 1..a + m /\ ~(a + k <= a) /\ (a + k) - a = k
      BY <1>1
    <3> QED
      BY <2>3, <3>1
  <2> QED
    BY <2>3, <2>4, <2>5 DEF b, c
<1>5. \A k \in 1..m : s[l[k].id] = a + k
  <2> SUFFICES ASSUME NEW k \in 1..m PROVE s[l[k].id] = a + k
    OBVIOUS
  <2>1. (CHOOSE j \in DOMAIN l : l[j].id = l[k].id) = k
    BY <1>1
  <2> QED
    BY <2>1, <1>1, <1>3 DEF Reloaded
<1>6. \A i \in Ids : (\A k \in 1..m : l[k].id # i) => s[i] = IF r[i] > a THEN 0 ELSE r[i]
  BY <1>1 DEF Reloaded
<1>7. \A i \in Ids : r[i] # 0 => d[r[i]].id = i
  BY DEF Index, Inverse2
<1>8. s \in [Ids -> 0..a + m]
  <2>1. s = [i \in Ids |-> s[i]]
    BY DEF Reloaded
  <2>2. ASSUME NEW i \in Ids PROVE s[i] \in 0..a + m
    <3>1. CASE \E k \in 1..m : l[k].id = i
      BY <3>1, <1>1, <1>5
    <3>2. CASE \A k \in 1..m : l[k].id # i
      BY <3>2, <1>1, <1>6
    <3> QED
      BY <3>1, <3>2
  <2> HIDE DEF s
  <2> QED
    BY <2>1, <2>2
<1> HIDE DEF e, s
<1>9. Inverse1(e, s)
  <2> SUFFICES ASSUME NEW k \in 1..a + m PROVE s[e[k].id] = k
    BY <1>4 DEF Inverse1
  <2>1. CASE k <= a
    <3>1. e[k] = d[k] /\ d[k].id \in Ids /\ r[d[k].id] = k
      BY <2>1, <1>1, <1>2, <1>4
    <3>2. \A j \in 1..m : l[j].id # d[k].id
      BY <3>1, <2>1, <1>1
    <3> QED
      BY <3>1, <3>2, <2>1, <1>1, <1>6
  <2>2. CASE k > a
    <3>1. k - a \in 1..m /\ k = a + (k - a)
      BY <2>2, <1>1
    <3> QED
      BY <3>1, <1>4, <1>5
  <2> QED
    BY <2>1, <2>2, <1>1
<1>10. Inverse2(e, s)
  <2> SUFFICES ASSUME NEW i \in Ids, s[i] # 0 PROVE e[s[i]].id = i
    BY DEF Inverse2
  <2>1. CASE \E k \in 1..m : l[k].id = i
    BY <2>1, <1>4, <1>5
  <2>2. CASE \A k \in 1..m : l[k].id # i
    <3>1. s[i] = r[i] /\ r[i] \in 1..a
      BY <2>2, <1>1, <1>6
    <3> QED
      BY <3>1, <1>4, <1>7
  <2> QED
    BY <2>1, <2>2
<1> QED
  BY <1>1, <1>4, <1>8, <1>9, <1>10 DEF Index, e, s

\* Ids that no handle in dense has are added at the end.
ExtendedDense(d, top, added) == d \o [k \in 1..added |-> H(top + k, 0)]
ExtendedRec(d, r, top, added) ==
  [i \in Ids |-> IF i \in top + 1..top + added THEN Len(d) + i - top ELSE r[i]]

LEMMA FirstHandle == \A i \in Ids : H(i, 0) \in Handles /\ H(i, 0).id = i
  BY DEF H, Handles, Gens

LEMMA ExtendedShape ==
  ASSUME NEW d \in Seq(Handles), NEW top \in Nat, NEW added \in Nat, top + added <= MaxId
  PROVE  /\ ExtendedDense(d, top, added) \in Seq(Handles)
         /\ Len(ExtendedDense(d, top, added)) = Len(d) + added
         /\ \A k \in 1..Len(d) : ExtendedDense(d, top, added)[k] = d[k]
         /\ \A k \in 1..added : ExtendedDense(d, top, added)[Len(d) + k].id = top + k
<1> DEFINE n == Len(d)
           l == [k \in 1..added |-> H(top + k, 0)]
           e == ExtendedDense(d, top, added)
<1>1. n \in Nat
  BY Shape
<1>2. \A k \in 1..added : top + k \in Ids
  BY DEF Ids
<1>3. l \in Seq(Handles) /\ Len(l) = added /\ \A k \in 1..added : l[k].id = top + k
  <2>1. ASSUME NEW k \in 1..added PROVE H(top + k, 0) \in Handles /\ H(top + k, 0).id = top + k
    BY <1>2, FirstHandle
  <2>2. l \in [1..added -> Handles] /\ \A k \in 1..added : l[k].id = top + k
    BY <2>1
  <2> HIDE DEF l
  <2>3. Len(l) = added
    BY <2>2
  <2> QED
    BY <2>2, <2>3
<1>4. e = d \o l
  BY DEF ExtendedDense
<1> HIDE DEF l, e
<1>5. e \in Seq(Handles) /\ Len(e) = n + added
      /\ (\A k \in 1..n : e[k] = d[k]) /\ (\A k \in 1..added : e[n + k].id = top + k)
  <2>1. e \in Seq(Handles) /\ Len(e) = Len(d) + Len(l)
        /\ \A k \in 1..Len(d) + Len(l) : e[k] = IF k <= Len(d) THEN d[k] ELSE l[k - Len(d)]
    BY <1>1, <1>3, <1>4, ConcatProperties
  <2>2. e \in Seq(Handles) /\ Len(e) = n + added
        /\ \A k \in 1..n + added : e[k] = IF k <= n THEN d[k] ELSE l[k - n]
    BY <2>1, <1>3
  <2>3. ASSUME NEW k \in 1..added PROVE e[n + k].id = top + k
    <3>1. n + k \in 1..n + added /\ ~(n + k <= n) /\ (n + k) - n = k
      BY <1>1
    <3> QED
      BY <2>2, <3>1, <1>3
  <2> QED
    BY <2>2, <2>3, <1>1
<1> QED
  BY <1>5 DEF e

LEMMA Extended ==
  ASSUME NEW d, NEW a, NEW r, Index(d, a, r), NEW top \in Nat, NEW added \in Nat,
         top + added <= MaxId, \A k \in 1..added : r[top + k] = 0
  PROVE  Index(ExtendedDense(d, top, added), a, ExtendedRec(d, r, top, added))
<1> DEFINE n == Len(d)
           e == ExtendedDense(d, top, added)
           s == ExtendedRec(d, r, top, added)
<1>1. d \in Seq(Handles) /\ n \in Nat /\ r \in [Ids -> 0..n] /\ a \in 0..n
  BY Shape DEF Index
<1>2. \A k \in 1..n : d[k] \in Handles /\ d[k].id \in Ids /\ r[d[k].id] = k
  <2> SUFFICES ASSUME NEW k \in 1..n PROVE d[k] \in Handles /\ d[k].id \in Ids /\ r[d[k].id] = k
    OBVIOUS
  <2> QED
    BY <1>1, Shape DEF Index, Inverse1
<1>3. \A k \in 1..added : top + k \in Ids
  BY DEF Ids
<1>4. e \in Seq(Handles) /\ Len(e) = n + added
      /\ (\A k \in 1..n : e[k] = d[k]) /\ (\A k \in 1..added : e[n + k].id = top + k)
  <2>1. d \in Seq(Handles) /\ top \in Nat /\ added \in Nat /\ top + added <= MaxId
    BY <1>1
  <2>2. e \in Seq(Handles)
    BY <2>1, ExtendedShape
  <2>3. Len(e) = n + added
    BY <2>1, ExtendedShape
  <2>4. \A k \in 1..n : e[k] = d[k]
    BY <2>1, ExtendedShape
  <2>5. \A k \in 1..added : e[n + k].id = top + k
    BY <2>1, ExtendedShape
  <2> QED
    BY <2>2, <2>3, <2>4, <2>5
<1> HIDE DEF e
<1>5. /\ s \in [Ids -> 0..n + added]
      /\ \A k \in 1..added : s[top + k] = n + k
      /\ \A i \in Ids : i \notin top + 1..top + added => s[i] = r[i]
  BY <1>1, <1>3 DEF ExtendedRec
<1>6. \A i \in Ids : r[i] # 0 => d[r[i]].id = i
  BY DEF Index, Inverse2
<1>7. \A i \in top + 1..top + added : i - top \in 1..added /\ i = top + (i - top)
  OBVIOUS
<1> HIDE DEF s
<1>8. Inverse1(e, s)
  <2> SUFFICES ASSUME NEW k \in 1..n + added PROVE s[e[k].id] = k
    BY <1>4 DEF Inverse1
  <2>1. CASE k <= n
    <3>1. e[k] = d[k] /\ d[k].id \in Ids /\ r[d[k].id] = k /\ k # 0
      BY <2>1, <1>1, <1>2, <1>4
    <3>2. d[k].id \notin top + 1..top + added
      BY <3>1, <1>7
    <3> QED
      BY <3>1, <3>2, <1>5
  <2>2. CASE k > n
    <3>1. k - n \in 1..added /\ k = n + (k - n)
      BY <2>2, <1>1
    <3> QED
      BY <3>1, <1>4, <1>5
  <2> QED
    BY <2>1, <2>2, <1>1
<1>9. Inverse2(e, s)
  <2> SUFFICES ASSUME NEW i \in Ids, s[i] # 0 PROVE e[s[i]].id = i
    BY DEF Inverse2
  <2>1. CASE i \in top + 1..top + added
    <3>1. PICK k \in 1..added : i = top + k
      BY <2>1, <1>7
    <3> QED
      BY <3>1, <1>4, <1>5
  <2>2. CASE i \notin top + 1..top + added
    <3>1. s[i] = r[i] /\ r[i] \in 1..n
      BY <2>2, <1>1, <1>5
    <3> QED
      BY <3>1, <1>4, <1>6
  <2> QED
    BY <2>1, <2>2
<1>10. Index(e, a, s)
  BY <1>1, <1>4, <1>5, <1>8, <1>9 DEF Index
<1> QED
  BY <1>10 DEF e, s

(***************************************************************************)
(* The inductive invariant                                                 *)
(***************************************************************************)
\* The highest id issued from a range, and the ids that may have been issued.
Top(m) == IF m = active THEN maxId ELSE ranges[m].cur
Issued(i) ==
  IF active = 0 THEN i <= maxId ELSE \E m \in DOMAIN ranges : InRange(i, m) /\ i <= Top(m)

RangesInv ==
  /\ maxId \in 0..MaxId
  /\ ranges = [m \in DOMAIN ranges |-> ranges[m]]
  /\ DOMAIN ranges \subseteq Ids /\ active \in {0} \cup DOMAIN ranges
  /\ \A m \in DOMAIN ranges :
       /\ ranges[m] \in [max : 0..MaxId, cur : 0..MaxId, recycled : Seq(Handles)]
       /\ ranges[m].max = 0 \/ m <= ranges[m].max
  /\ \A m, n \in DOMAIN ranges : m < n => ranges[m].max # 0 /\ ranges[m].max < n
  /\ active = 0 => DOMAIN ranges = {}
  /\ active # 0 => ranges[active].recycled = <<>>

ListsInv ==
  \A m \in DOMAIN ranges : \A k \in DOMAIN ranges[m].recycled : Issued(ranges[m].recycled[k].id)

ExistingInv == \A i \in Ids : Exists(i) => Issued(i)

TailInv == \A k \in alive + 1..Len(dense) : InActive(dense[k].id)

IndexInv ==
  /\ Index(dense, alive, rec) /\ RangesInv /\ ExistingInv /\ TailInv /\ ListsInv /\ RecycledOnce
  /\ dead \subseteq Handles /\ fresh \subseteq Ids /\ NewInRange

\* What the invariant says of a range that an id is in.
LEMMA RangeFacts ==
  ASSUME RangesInv
  PROVE  /\ active = 0 \/ active \in DOMAIN ranges
         /\ \A m \in DOMAIN ranges :
              m \in 1..MaxId /\ ranges[m].max \in Nat /\ ranges[m].cur \in 0..MaxId
              /\ ranges[m].recycled \in Seq(Handles)
         /\ \A m, n \in DOMAIN ranges : \A i \in Ids : InRange(i, m) /\ InRange(i, n) => m = n
<1>1. \A m \in DOMAIN ranges :
        m \in 1..MaxId /\ ranges[m].max \in Nat /\ ranges[m].cur \in 0..MaxId
        /\ ranges[m].recycled \in Seq(Handles)
  BY DEF RangesInv, Ids
<1>2. ASSUME NEW m \in DOMAIN ranges, NEW n \in DOMAIN ranges, NEW i \in Ids,
             InRange(i, m), InRange(i, n), m < n
      PROVE  FALSE
  BY <1>1, <1>2 DEF RangesInv, InRange, Ids
<1>3. ASSUME NEW m \in DOMAIN ranges, NEW n \in DOMAIN ranges, NEW i \in Ids,
             InRange(i, m), InRange(i, n)
      PROVE  m = n
  <2>1. ~(m < n) /\ ~(n < m)
    BY <1>2, <1>3
  <2> QED
    BY <2>1, <1>1
<1> QED
  BY <1>1, <1>3 DEF RangesInv

\* An id that was issued from the active range, and one that is not yet.
LEMMA ActiveIssued ==
  ASSUME RangesInv, NEW i \in Ids, InActive(i)
  PROVE  Issued(i) <=> i <= maxId
<1>1. CASE active = 0
  BY <1>1 DEF Issued
<1>2. CASE active # 0
  <2>1. active \in DOMAIN ranges /\ InRange(i, active)
    BY <1>2, RangeFacts DEF InActive
  <2> QED
    BY <2>1, <1>2, RangeFacts DEF Issued, Top
<1> QED
  BY <1>1, <1>2

\* An id that is in the recycled list of a range is not in the active range.
LEMMA ListedInactive ==
  ASSUME RangesInv, RecycledOnce, NEW m \in DOMAIN ranges,
         NEW k \in DOMAIN ranges[m].recycled
  PROVE  ranges[m].recycled[k].id \in Ids /\ ~InActive(ranges[m].recycled[k].id)
<1> DEFINE i == ranges[m].recycled[k].id
<1>1. i \in Ids /\ k \in 1..Len(ranges[m].recycled)
  BY RangeFacts, Shape
<1>2. InRange(i, m)
  BY DEF RecycledOnce
<1>3. active # 0 /\ active \in DOMAIN ranges
  BY DEF RangesInv
<1>4. m # active
  <2> SUFFICES ASSUME m = active PROVE FALSE
    OBVIOUS
  <2>1. Len(ranges[m].recycled) = 0
    BY <1>3 DEF RangesInv
  <2> QED
    BY <2>1, <1>1
<1> HIDE DEF i
<1>5. ~InRange(i, active)
  BY <1>1, <1>2, <1>3, <1>4, RangeFacts
<1> QED
  BY <1>1, <1>3, <1>5 DEF InActive, i

\* A step that leaves the ranges alone and adds ids of the active range only.
LEMMA Steady ==
  ASSUME IndexInv, UNCHANGED <<ranges, active>>, maxId' \in maxId..MaxId,
         Index(dense', alive', rec'),
         \A i \in Ids : Exists(i)' => Exists(i) \/ (InActive(i) /\ i <= maxId'),
         TailInv', dead' \subseteq Handles, fresh' \subseteq Ids, NewInRange'
  PROVE  IndexInv'
<1> USE DEF IndexInv
<1>1. maxId \in 0..MaxId /\ maxId' \in 0..MaxId /\ maxId <= maxId'
  BY DEF RangesInv
<1>2. RangesInv'
  BY <1>1 DEF RangesInv
<1>3. \A i \in Ids : Issued(i) => Issued(i)'
  BY <1>1 DEF Issued, Top, InRange, Ids
<1>4. \A i \in Ids : InActive(i) /\ i <= maxId' => Issued(i)'
  <2>1. \A i \in Ids : InActive(i)' <=> InActive(i)
    BY DEF InActive, InRange
  <2> SUFFICES ASSUME NEW i \in Ids, InActive(i), i <= maxId' PROVE Issued(i)'
    OBVIOUS
  <2>2. CASE active = 0
    BY <2>2 DEF Issued
  <2>3. CASE active # 0
    BY <2>3, RangeFacts DEF Issued, Top, InActive, InRange
  <2> QED
    BY <2>2, <2>3
<1>5. ExistingInv'
  BY <1>3, <1>4 DEF ExistingInv
<1>6. ListsInv'
  <2> SUFFICES ASSUME NEW m \in DOMAIN ranges, NEW k \in DOMAIN ranges[m].recycled
               PROVE  Issued(ranges[m].recycled[k].id)'
    BY DEF ListsInv
  <2>1. Issued(ranges[m].recycled[k].id)
    BY DEF ListsInv
  <2>2. ranges[m].recycled[k].id \in Ids
    BY ListedInactive
  <2> QED
    BY <2>1, <2>2, <1>3
<1>7. RecycledOnce'
  <2> SUFFICES ASSUME NEW m \in DOMAIN ranges, NEW k \in DOMAIN ranges[m].recycled
               PROVE  /\ InRange(ranges[m].recycled[k].id, m)'
                      /\ ~Exists(ranges[m].recycled[k].id)'
                      /\ \A j \in DOMAIN ranges[m].recycled :
                           ranges[m].recycled[j].id = ranges[m].recycled[k].id => j = k
    BY DEF RecycledOnce
  <2>1. InRange(ranges[m].recycled[k].id, m) /\ ~Exists(ranges[m].recycled[k].id)
        /\ \A j \in DOMAIN ranges[m].recycled :
              ranges[m].recycled[j].id = ranges[m].recycled[k].id => j = k
    BY DEF RecycledOnce
  <2>2. ~Exists(ranges[m].recycled[k].id)'
    BY <2>1, ListedInactive
  <2> QED
    BY <2>1, <2>2 DEF InRange
<1> QED
  BY <1>2, <1>5, <1>6, <1>7

\* The facts about the variables that the steps need.
LEMMA IndexFacts ==
  ASSUME IndexInv
  PROVE  /\ dense \in Seq(Handles) /\ Len(dense) \in Nat /\ alive \in 0..Len(dense)
         /\ rec \in [Ids -> 0..Len(dense)] /\ maxId \in 0..MaxId
         /\ \A k \in 1..Len(dense) :
              dense[k] \in Handles /\ dense[k].id \in Ids /\ rec[dense[k].id] = k
         /\ \A i \in Ids : rec[i] # 0 => rec[i] \in 1..Len(dense) /\ dense[rec[i]].id = i
<1>1. dense \in Seq(Handles) /\ Len(dense) \in Nat /\ alive \in 0..Len(dense)
      /\ rec \in [Ids -> 0..Len(dense)] /\ maxId \in 0..MaxId
  BY Shape DEF IndexInv, Index, RangesInv
<1>2. ASSUME NEW k \in 1..Len(dense)
      PROVE  dense[k] \in Handles /\ dense[k].id \in Ids /\ rec[dense[k].id] = k
  BY <1>1, Shape DEF IndexInv, Index, Inverse1
<1>3. ASSUME NEW i \in Ids, rec[i] # 0
      PROVE  rec[i] \in 1..Len(dense) /\ dense[rec[i]].id = i
  BY <1>1, <1>3 DEF IndexInv, Index, Inverse2
<1> QED
  BY <1>1, <1>2, <1>3

LEMMA RecycleStep ==
  ASSUME IndexInv, Recycle, UNCHANGED <<ranges, active>>
  PROVE  IndexInv'
<1>1. alive' = alive + 1 /\ alive < Len(dense) /\ dense' = dense /\ rec' = rec /\ maxId' = maxId
      /\ fresh' = {dense[alive + 1].id} /\ dead' \subseteq dead
  BY DEF Recycle
<1>2. Index(dense', alive', rec')
  BY <1>1, IndexFacts DEF IndexInv, Index
<1>3. alive + 1 \in 1..Len(dense) /\ InActive(dense[alive + 1].id)
  BY <1>1, IndexFacts DEF IndexInv, TailInv
<1>4. TailInv'
  BY <1>1, IndexFacts DEF IndexInv, TailInv, InActive, InRange
<1>5. fresh' \subseteq Ids /\ NewInRange'
  BY <1>1, <1>3, IndexFacts DEF NewInRange, InActive, InRange
<1> QED
  BY <1>1, <1>2, <1>4, <1>5, IndexFacts, Steady DEF IndexInv, Exists

LEMMA NewIdStep ==
  ASSUME IndexInv, Asserts, NewId, UNCHANGED <<ranges, active>>
  PROVE  IndexInv'
<1> DEFINE id == maxId + 1
<1>1. /\ alive = Len(dense) /\ maxId < MaxId /\ rec[id] = 0 /\ InActive(id)
      /\ maxId' = id /\ dense' = Append(dense, H(id, 0)) /\ alive' = alive + 1
      /\ rec' = [rec EXCEPT ![id] = Len(dense) + 1]
      /\ dead' \subseteq dead /\ fresh' = {id}
  BY DEF NewId, Exists
<1>2. id \in Ids /\ id \in maxId..MaxId
  BY <1>1, IndexFacts DEF Ids
<1>3. H(id, 0) \in Handles /\ H(id, 0).id = id
  BY <1>2 DEF H, Handles, Gens
<1> HIDE DEF id
<1>4. Index(dense', alive, rec')
  BY <1>1, <1>3, Appended DEF IndexInv
<1>5. Len(dense') = Len(dense) + 1
  BY <1>1, <1>3, IndexFacts, AppendProperties
<1>6. Index(dense', alive', rec')
  BY <1>1, <1>4, <1>5, IndexFacts DEF Index
<1>7. TailInv'
  BY <1>1, <1>5, IndexFacts DEF TailInv
<1>8. \A i \in Ids : Exists(i)' => Exists(i) \/ (InActive(i) /\ i <= maxId')
  BY <1>1, <1>2, IndexFacts DEF Exists
<1>9. NewInRange'
  BY <1>1 DEF NewInRange, InActive, InRange
<1> QED
  BY <1>1, <1>2, <1>6, <1>7, <1>8, <1>9, Steady DEF IndexInv

LEMMA NewIdsStep ==
  ASSUME IndexInv, Asserts, Polite, NEW count \in 1..MaxBulk, NewIds(count)
  PROVE  IndexInv'
<1> DEFINE added == IF count > NotAlive THEN count - NotAlive ELSE 0
           all == dense \o [k \in 1..added |-> H(maxId + k, 0)]
<1>1. /\ maxId + added <= MaxId
      /\ \A k \in 1..added : rec[maxId + k] = 0 /\ InActive(maxId + k)
      /\ dense' = all /\ alive' = alive + count /\ maxId' = maxId + added
      /\ rec' = [i \in Ids |-> IF i \in maxId + 1..maxId + added
                               THEN Len(dense) + i - maxId ELSE rec[i]]
      /\ dead' \subseteq dead
      /\ fresh' = {h.id : h \in {all[k] : k \in alive + 1..alive + count}}
      /\ UNCHANGED <<ranges, active>>
  BY DEF NewIds, Exists
<1>2. added \in Nat /\ alive + count <= Len(dense) + added /\ maxId \in Nat
      /\ maxId' \in maxId..MaxId /\ (added > 0 => alive + count = Len(dense) + added)
  BY <1>1, IndexFacts DEF NotAlive
<1> HIDE DEF added
<1>3. /\ Index(dense', alive, rec') /\ Len(dense') = Len(dense) + added
      /\ \A k \in 1..Len(dense) : dense'[k] = dense[k]
      /\ \A k \in 1..added : dense'[Len(dense) + k].id = maxId + k
  <2>1. Index(dense, alive, rec) /\ maxId \in Nat /\ added \in Nat
    BY <1>2 DEF IndexInv
  <2>2. \A k \in 1..added : rec[maxId + k] = 0
    BY <1>1
  <2>3. dense' = ExtendedDense(dense, maxId, added)
    BY <1>1 DEF ExtendedDense
  <2>4. rec' = ExtendedRec(dense, rec, maxId, added)
    BY <1>1 DEF ExtendedRec
  <2>5. maxId + added <= MaxId
    BY <1>1
  <2> HIDE DEF all
  <2> DEFINE e == ExtendedDense(dense, maxId, added)
  <2>6. Index(e, alive, ExtendedRec(dense, rec, maxId, added))
    BY <2>1, <2>2, <2>5, Extended
  <2>7. /\ Len(e) = Len(dense) + added
        /\ \A k \in 1..Len(dense) : e[k] = dense[k]
        /\ \A k \in 1..added : e[Len(dense) + k].id = maxId + k
    <3>1. dense \in Seq(Handles)
      BY IndexFacts
    <3> QED
      BY <2>1, <2>5, <3>1, Zenon, ExtendedShape
  <2> QED
    BY <2>3, <2>4, <2>6, <2>7
<1> HIDE DEF all
<1>4. Index(dense', alive', rec')
  BY <1>1, <1>2, <1>3, IndexFacts DEF Index
<1>5. \A i \in Ids : Exists(i)' => Exists(i) \/ (InActive(i) /\ i <= maxId')
  <2> SUFFICES ASSUME NEW i \in maxId + 1..maxId + added PROVE InActive(i) /\ i <= maxId'
    BY <1>1 DEF Exists
  <2>1. i - maxId \in 1..added /\ i = maxId + (i - maxId)
    BY <1>2
  <2> QED
    BY <2>1, <1>1, <1>2
<1>6. ASSUME NEW k \in alive + 1..Len(dense') PROVE dense'[k].id \in Ids /\ InActive(dense'[k].id)
  <2>1. CASE k <= Len(dense)
    BY <2>1, <1>3, IndexFacts DEF IndexInv, TailInv
  <2>2. CASE k > Len(dense)
    <3>1. k - Len(dense) \in 1..added /\ k = Len(dense) + (k - Len(dense))
      BY <2>2, <1>2, <1>3, IndexFacts
    <3>2. PICK j \in 1..added : k = Len(dense) + j
      BY <3>1
    <3>3. maxId + j \in Ids
      BY <1>1, <1>2 DEF Ids
    <3> QED
      BY <3>2, <3>3, <1>1, <1>3
  <2> QED
    BY <2>1, <2>2, IndexFacts, <1>2, <1>3
<1>7. TailInv'
  BY <1>1, <1>6, IndexFacts DEF TailInv, InActive, InRange
<1>8. fresh' \subseteq Ids /\ NewInRange'
  BY <1>1, <1>2, <1>3, <1>6, IndexFacts DEF NewInRange, InActive, InRange
<1> QED
  BY <1>1, <1>2, <1>4, <1>5, <1>7, <1>8, Steady DEF IndexInv

LEMMA EnsureNewStep ==
  ASSUME IndexInv, NEW h \in Handles, EnsureNew(h)
  PROVE  /\ Index(dense', alive', rec') /\ alive' = alive + 1
         /\ \A k \in alive' + 1..Len(dense') :
              \E j \in alive + 1..Len(dense) : dense'[k].id = dense[j].id
         /\ \A i \in Ids : Exists(i)' => Exists(i) \/ i = h.id
<1> DEFINE n == Len(dense)
           e == Append(dense, h)
           s == [rec EXCEPT ![h.id] = n + 1]
           first == e[alive + 1]
<1>1. /\ rec[h.id] = 0 /\ alive' = alive + 1
      /\ dense' = [e EXCEPT ![n + 1] = first, ![alive + 1] = h]
      /\ rec' = [rec EXCEPT ![first.id] = n + 1, ![h.id] = alive + 1]
  BY DEF EnsureNew, Exists
<1>2. h.id \in Ids /\ n \in Nat /\ alive \in 0..n /\ rec \in [Ids -> 0..n]
  BY HandleId, IndexFacts
<1>3. e \in Seq(Handles) /\ Len(e) = n + 1 /\ e[n + 1] = h /\ \A k \in 1..n : e[k] = dense[k]
  BY <1>2, IndexFacts, AppendProperties
<1>4. Index(e, alive, s)
  BY <1>1, Appended DEF IndexInv
<1> HIDE DEF e
<1>5. first \in Handles /\ first.id \in Ids
  BY <1>2, <1>3, Shape
<1>6. Index(dense', alive, [s EXCEPT ![first.id] = n + 1, ![h.id] = alive + 1])
  <2>1. n + 1 \in 1..Len(e) /\ alive + 1 \in 1..Len(e) /\ first.id = e[alive + 1].id
        /\ h.id = e[n + 1].id
    BY <1>2, <1>3
  <2> HIDE DEF s, first
  <2> QED
    BY <2>1, <1>1, <1>4, <1>5, Exchanged
<1>7. [s EXCEPT ![first.id] = n + 1, ![h.id] = alive + 1] = rec'
  BY <1>1, <1>2, <1>5
<1> HIDE DEF s
<1>8. Len(dense') = n + 1 /\ \A k \in 1..n : k # alive + 1 => dense'[k] = dense[k]
  <2>1. DOMAIN e = 1..n + 1
    BY <1>3
  <2> HIDE DEF first
  <2>2. Len(dense') = n + 1
    BY <1>1, <1>2, <1>3, <1>5, ExceptSeq
  <2>3. ASSUME NEW k \in 1..n, k # alive + 1 PROVE dense'[k] = dense[k]
    BY <2>1, <2>3, <1>1, <1>2, <1>3
  <2> QED
    BY <2>2, <2>3
<1>9. Index(dense', alive', rec')
  BY <1>1, <1>2, <1>6, <1>7, <1>8 DEF Index
<1>10. ASSUME NEW k \in alive' + 1..Len(dense')
       PROVE  \E j \in alive + 1..n : dense'[k].id = dense[j].id
  <2>1. CASE k <= n
    BY <2>1, <1>1, <1>2, <1>8
  <2>2. CASE k > n
    <3>1. k = n + 1 /\ alive + 1 \in 1..n /\ first = dense[alive + 1] /\ alive + 1 # n + 1
      BY <2>2, <1>1, <1>2, <1>3, <1>8
    <3>2. dense'[k] = first
      <4>1. DOMAIN e = 1..n + 1
        BY <1>3
      <4> HIDE DEF first
      <4> QED
        BY <4>1, <3>1, <1>1, <1>2
    <3> QED
      BY <3>1, <3>2, <1>2
  <2> QED
    BY <2>1, <2>2, <1>1, <1>2, <1>8
<1>11. ASSUME NEW i \in Ids, rec'[i] # 0 PROVE rec[i] # 0 \/ i = h.id
  <2>1. first.id = h.id \/ rec[first.id] # 0
    <3>1. CASE alive = n
      BY <3>1, <1>3
    <3>2. CASE alive < n
      BY <3>2, <1>2, <1>3, IndexFacts
    <3> QED
      BY <3>1, <3>2, <1>2
  <2> HIDE DEF first
  <2> QED
    BY <2>1, <1>1, <1>2, <1>5, <1>11
<1> QED
  BY <1>1, <1>9, <1>10, <1>11 DEF Exists

LEMMA EnsureDeadStep ==
  ASSUME IndexInv, NEW h \in Handles, EnsureDead(h)
  PROVE  /\ Index(dense', alive', rec') /\ alive' = alive + 1
         /\ \A k \in alive' + 1..Len(dense') :
              \E j \in alive + 1..Len(dense) : dense'[k].id = dense[j].id
         /\ \A i \in Ids : Exists(i)' => Exists(i)
<1> DEFINE n == Len(dense)
           p == rec[h.id]
           first == IF p = alive + 1 THEN h ELSE dense[alive + 1]
<1>1. /\ p # 0 /\ p > alive /\ alive' = alive + 1
      /\ dense' = [dense EXCEPT ![p] = first, ![alive + 1] = h]
      /\ rec' = [rec EXCEPT ![first.id] = p, ![h.id] = alive + 1]
  BY DEF EnsureDead, Exists, Swapped
<1>2. h.id \in Ids /\ n \in Nat /\ alive \in 0..n /\ rec \in [Ids -> 0..n]
      /\ dense \in Seq(Handles)
  BY HandleId, IndexFacts
<1>3. p \in 1..n /\ alive + 1 \in 1..n /\ h.id = dense[p].id
  BY <1>1, <1>2, IndexFacts
<1>4. first \in Handles /\ first.id = dense[alive + 1].id /\ first.id \in Ids
      /\ rec[first.id] # 0
  BY <1>3, IndexFacts
<1> HIDE DEF first, p
<1>5. Index(dense', alive, rec')
  BY <1>1, <1>3, <1>4, Exchanged DEF IndexInv
<1>6. Len(dense') = n
  BY <1>1, <1>2, <1>3, <1>4, ExceptSeq
<1>7. Index(dense', alive', rec')
  BY <1>1, <1>3, <1>5, <1>6, <1>2 DEF Index
<1>8. ASSUME NEW k \in alive' + 1..Len(dense')
      PROVE  \E j \in alive + 1..n : dense'[k].id = dense[j].id
  <2>1. DOMAIN dense = 1..n /\ k \in 1..n /\ k # alive + 1 /\ k \in alive + 1..n
    BY <1>1, <1>2, <1>6
  <2>2. CASE k = p
    <3>1. dense'[k] = first
      BY <2>1, <2>2, <1>1, <1>3
    <3> QED
      BY <3>1, <1>2, <1>3, <1>4
  <2>3. CASE k # p
    <3>1. dense'[k] = dense[k]
      BY <2>1, <2>3, <1>1
    <3> QED
      BY <3>1, <2>1
  <2> QED
    BY <2>2, <2>3
<1>9. ASSUME NEW i \in Ids, rec'[i] # 0 PROVE rec[i] # 0
  BY <1>1, <1>2, <1>4, <1>9 DEF p
<1> QED
  BY <1>1, <1>7, <1>8, <1>9 DEF Exists

LEMMA MakeAliveStep ==
  ASSUME IndexInv, Polite, NEW h \in Handles, MakeAlive(h)
  PROVE  IndexInv'
<1>1. /\ InActive(h.id)
      /\ EnsureNew(h) \/ EnsureDead(h)
      /\ maxId' = IF ~Exists(h.id) /\ h.id > maxId THEN h.id ELSE maxId
      /\ dead' \subseteq dead /\ fresh' = {} /\ UNCHANGED <<ranges, active>>
  BY DEF MakeAlive
<1>2. h.id \in Ids /\ maxId \in 0..MaxId
  BY HandleId, IndexFacts
<1>3. maxId' \in maxId..MaxId
  BY <1>1, <1>2 DEF Ids
<1>4. ASSUME ~Exists(h.id) PROVE h.id <= maxId'
  <2>1. maxId' = IF h.id > maxId THEN h.id ELSE maxId
    BY <1>1, <1>4, Zenon
  <2> QED
    BY <2>1, <1>2 DEF Ids
<1>5. /\ Index(dense', alive', rec') /\ alive' = alive + 1
      /\ \A k \in alive' + 1..Len(dense') :
           \E j \in alive + 1..Len(dense) : dense'[k].id = dense[j].id
      /\ \A i \in Ids : Exists(i)' => Exists(i) \/ i = h.id
  BY <1>1, EnsureNewStep, EnsureDeadStep
<1>6. TailInv'
  <2> SUFFICES ASSUME NEW k \in alive' + 1..Len(dense') PROVE InActive(dense'[k].id)
    BY <1>1 DEF TailInv, InActive, InRange
  <2>1. PICK j \in alive + 1..Len(dense) : dense'[k].id = dense[j].id
    BY <1>5
  <2> QED
    BY <2>1 DEF IndexInv, TailInv
<1>7. ASSUME NEW i \in Ids, Exists(i)', ~Exists(i) PROVE InActive(i) /\ i <= maxId'
  <2>1. i = h.id
    BY <1>5, <1>7
  <2>2. ~Exists(h.id)
    BY <2>1, <1>7
  <2>3. h.id <= maxId'
    BY <2>2, <1>4, Zenon
  <2>4. InActive(i)
    BY <2>1, <1>1, Zenon
  <2> QED
    BY <2>1, <2>3, <2>4
<1> QED
  BY <1>1, <1>3, <1>5, <1>6, <1>7, Steady DEF IndexInv, NewInRange

LEMMA SetVersionStep ==
  ASSUME IndexInv, NEW h \in Handles, SetVersion(h)
  PROVE  IndexInv'
<1> DEFINE p == rec[h.id]
<1>1. /\ p # 0 /\ dense' = [dense EXCEPT ![p] = h] /\ alive' = alive /\ rec' = rec
      /\ maxId' = maxId /\ dead' \subseteq dead /\ fresh' = {} /\ UNCHANGED <<ranges, active>>
  BY DEF SetVersion, Exists
<1>2. h.id \in Ids /\ dense \in Seq(Handles)
  BY HandleId, IndexFacts
<1>3. p \in 1..Len(dense) /\ dense[p].id = h.id
  BY <1>1, <1>2, IndexFacts
<1>4. dense' \in Seq(Handles) /\ Len(dense') = Len(dense)
      /\ \A k \in 1..Len(dense) : dense'[k].id = dense[k].id
  BY <1>1, <1>2, <1>3, ExceptSeq
<1> HIDE DEF p
<1>5. Index(dense', alive', rec')
  <2>1. Index(dense, alive, rec)
    BY DEF IndexInv
  <2>2. Inverse1(dense', rec) /\ Inverse2(dense', rec)
    BY <1>4, IndexFacts DEF Inverse1, Inverse2
  <2> QED
    BY <2>1, <2>2, <1>1, <1>4 DEF Index
<1>6. TailInv'
  BY <1>1, <1>4, IndexFacts DEF IndexInv, TailInv, InActive, InRange
<1> QED
  BY <1>1, <1>5, <1>6, Steady, IndexFacts DEF IndexInv, NewInRange, Exists

\* What every deletion does before the id leaves dense.
LEMMA Removing ==
  ASSUME IndexInv, NEW h \in Handles, IsAlive(h)
  PROVE  /\ rec[h.id] \in 1..alive /\ alive \in 1..Len(dense) /\ GenerationInc(h).id = h.id
         /\ GenerationInc(h) \in Handles
         /\ Index(Removed(h).dense, alive, Removed(h).rec)
         /\ Len(Removed(h).dense) = Len(dense) /\ Removed(h).dense[alive].id = h.id
         /\ \A k \in alive + 1..Len(dense) : Removed(h).dense[k] = dense[k]
         /\ \A i \in Ids : Removed(h).rec[i] # 0 => rec[i] # 0
<1> DEFINE p == rec[h.id]
           g == GenerationInc(h)
           n == Len(dense)
<1>1. h.id \in Ids /\ p # 0 /\ p <= alive
  BY HandleId DEF IsAlive, Exists
<1>2. p \in 1..n /\ alive \in 1..n /\ p \in 1..alive /\ dense[p].id = h.id
  BY <1>1, IndexFacts
<1>3. g \in Handles /\ g.id = h.id
  <2>1. h.gen \in 0..GenCount - 1
    BY DEF Handles, Gens
  <2>2. (h.gen + 1) % GenCount \in 0..GenCount - 1
    BY <2>1
  <2> QED
    BY <2>2, <1>1 DEF GenerationInc, H, Handles, Gens
<1> DEFINE e == [dense EXCEPT ![p] = dense[alive], ![alive] = g]
           s == [rec EXCEPT ![dense[alive].id] = p, ![h.id] = alive]
<1>4. Removed(h).dense = e /\ Removed(h).rec = s
  BY DEF Removed
<1> HIDE DEF p, g
<1>5. dense[alive] \in Handles /\ dense[alive].id \in Ids /\ rec[dense[alive].id] # 0
  BY <1>2, IndexFacts
<1>6. Index(e, alive, [rec EXCEPT ![dense[alive].id] = p, ![g.id] = alive])
  BY <1>2, <1>3, <1>5, Exchanged DEF IndexInv
<1>7. Index(e, alive, s)
  BY <1>3, <1>6
<1>8. Len(e) = n
  BY <1>2, <1>3, <1>5, ExceptSeq, IndexFacts
<1>9. DOMAIN dense = 1..n
  BY IndexFacts, Shape
<1>10. e[alive].id = h.id /\ \A k \in alive + 1..n : e[k] = dense[k]
  BY <1>2, <1>3, <1>9
<1>11. \A i \in Ids : s[i] # 0 => rec[i] # 0
  BY <1>1, <1>2, <1>5, IndexFacts DEF p
<1> HIDE DEF e, s
<1> QED
  BY <1>2, <1>3, <1>4, <1>7, <1>8, <1>10, <1>11 DEF p, g

LEMMA DeleteInside ==
  ASSUME IndexInv, NEW h \in Handles, Delete(h), InActive(h.id)
  PROVE  IndexInv'
<1> DEFINE x == Removed(h)
<1>1. /\ alive' = alive - 1 /\ dense' = x.dense /\ rec' = x.rec
      /\ ranges' = [m \in DOMAIN ranges |-> ranges[m]]
      /\ dead' = dead \cup {h} /\ fresh' = {} /\ UNCHANGED <<maxId, active>> /\ IsAlive(h)
  BY DEF Delete
<1>2. ranges' = ranges
  BY <1>1 DEF IndexInv, RangesInv
<1> HIDE DEF x
<1>3. /\ alive \in 1..Len(dense)
      /\ Index(x.dense, alive, x.rec) /\ Len(x.dense) = Len(dense) /\ x.dense[alive].id = h.id
      /\ \A k \in alive + 1..Len(dense) : x.dense[k] = dense[k]
      /\ \A i \in Ids : x.rec[i] # 0 => rec[i] # 0
  BY <1>1, Removing DEF x
<1>4. Index(dense', alive', rec')
  BY <1>1, <1>3 DEF Index
<1>5. ASSUME NEW k \in alive' + 1..Len(dense') PROVE InActive(dense'[k].id)
  <2>1. k = alive \/ k \in alive + 1..Len(dense)
    BY <1>1, <1>3
  <2>2. CASE k = alive
    BY <2>2, <1>1, <1>3
  <2>3. CASE k \in alive + 1..Len(dense)
    BY <2>3, <1>1, <1>3 DEF IndexInv, TailInv
  <2> QED
    BY <2>1, <2>2, <2>3
<1>6. TailInv'
  BY <1>1, <1>2, <1>5 DEF TailInv, InActive, InRange
<1> QED
  BY <1>1, <1>2, <1>3, <1>4, <1>6, Steady, IndexFacts DEF IndexInv, NewInRange, Exists

\* The id leaves dense, for the list of its range if it has one.
LEMMA Dropping ==
  ASSUME IndexInv, NEW h \in Handles, Delete(h), ~InActive(h.id)
  PROVE  /\ Index(dense', alive', rec')
         /\ \A k \in alive' + 1..Len(dense') :
              \E j \in alive + 1..Len(dense) : dense'[k].id = dense[j].id
         /\ \A i \in Ids : Exists(i)' => Exists(i)
         /\ Exists(h.id) /\ ~Exists(h.id)'
<1> DEFINE d == Removed(h).dense
           r == Removed(h).rec
           n == Len(dense)
<1>1. /\ alive' = alive - 1 /\ IsAlive(h)
      /\ dense' = SubSeq([d EXCEPT ![alive] = d[Len(d)]], 1, Len(d) - 1)
      /\ rec' = [r EXCEPT ![d[Len(d)].id] = alive, ![h.id] = 0]
  BY DEF Delete, Dropped
<1> HIDE DEF d, r
<1>2. /\ alive \in 1..n /\ h.id \in Ids /\ Index(d, alive, r) /\ Len(d) = n /\ d[alive].id = h.id
      /\ \A k \in alive + 1..n : d[k] = dense[k]
      /\ \A i \in Ids : r[i] # 0 => rec[i] # 0
  BY <1>1, Removing, HandleId DEF d, r
<1>3. Index(dense', alive', rec')
  <2>1. Index(SubSeq([d EXCEPT ![alive] = d[Len(d)]], 1, Len(d) - 1), alive - 1,
              [r EXCEPT ![d[Len(d)].id] = alive, ![d[alive].id] = 0])
    <3>1. alive > 0
      BY <1>2
    <3>2. Index(d, alive, r)
      BY <1>2
    <3> QED
      BY <3>1, <3>2, Zenon, Shortened
  <2> QED
    BY <2>1, <1>1, <1>2
<1>4. d \in Seq(Handles) /\ DOMAIN d = 1..n /\ r \in [Ids -> 0..n]
  BY <1>2, Shape DEF Index
<1>5. d[n].id \in Ids /\ r[d[n].id] = n /\ d[n] \in Handles /\ n \in Nat /\ n # 0
  <2>1. n \in 1..n /\ n \in Nat
    BY <1>2, IndexFacts
  <2> QED
    BY <2>1, <1>2, <1>4, Shape DEF Index, Inverse1
<1>6. Len(dense') = n - 1 /\ \A k \in 1..n - 1 : dense'[k] = IF k = alive THEN d[n] ELSE d[k]
  <2> DEFINE f == [d EXCEPT ![alive] = d[n]]
  <2>1. f \in Seq(Handles) /\ Len(f) = n /\ \A k \in 1..n : f[k] = IF k = alive THEN d[n] ELSE d[k]
    BY <1>2, <1>4, <1>5, ExceptSeq
  <2> HIDE DEF f
  <2>2. \A k \in 1..n - 1 : f[k] \in Handles
    BY <2>1, <1>5, Shape
  <2>3. dense' = SubSeq(f, 1, n - 1)
    BY <1>1, <1>2 DEF f
  <2> QED
    BY <2>1, <2>2, <2>3, <1>5, SubSeqProperties
<1>7. ASSUME NEW k \in alive' + 1..Len(dense')
      PROVE  \E j \in alive + 1..n : dense'[k].id = dense[j].id
  <2>1. k \in 1..n - 1 /\ k \in alive..n - 1 /\ n \in alive + 1..n
    BY <1>1, <1>2, <1>5, <1>6
  <2>2. CASE k = alive
    BY <2>1, <2>2, <1>2, <1>6
  <2>3. CASE k # alive
    <3>1. k \in alive + 1..n
      BY <2>1, <2>3, <1>2
    <3> QED
      BY <2>1, <2>3, <3>1, <1>2, <1>6
  <2> QED
    BY <2>2, <2>3
<1>8. ASSUME NEW i \in Ids, rec'[i] # 0 PROVE rec[i] # 0
  BY <1>1, <1>2, <1>4, <1>5, <1>8
<1>9. rec'[h.id] = 0 /\ rec[h.id] # 0
  BY <1>1, <1>2, <1>4, <1>5 DEF IsAlive, Exists
<1> QED
  BY <1>3, <1>7, <1>8, <1>9 DEF Exists

LEMMA DeleteOutside ==
  ASSUME IndexInv, NEW h \in Handles, Delete(h), ~InActive(h.id)
  PROVE  IndexInv'
<1> DEFINE g == GenerationInc(h)
<1>1. /\ DOMAIN ranges' = DOMAIN ranges /\ ranges' = [m \in DOMAIN ranges' |-> ranges'[m]]
      /\ \A m \in DOMAIN ranges :
           ranges'[m] = IF InRange(h.id, m) THEN [ranges[m] EXCEPT !.recycled = Append(@, g)]
                        ELSE ranges[m]
      /\ dead' = dead \cup {h} /\ fresh' = {} /\ maxId' = maxId /\ active' = active /\ IsAlive(h)
  BY DEF Delete
<1>2. g \in Handles /\ g.id = h.id /\ h.id \in Ids
  BY <1>1, Removing, HandleId
<1> HIDE DEF g
<1>3. RangesInv
  BY DEF IndexInv
<1>4. \A m \in DOMAIN ranges :
        /\ ranges[m] \in [max : 0..MaxId, cur : 0..MaxId, recycled : Seq(Handles)]
        /\ ranges[m].recycled \in Seq(Handles)
  BY <1>3 DEF RangesInv
<1>5. ASSUME NEW m \in DOMAIN ranges
      PROVE  /\ ranges'[m] \in [max : 0..MaxId, cur : 0..MaxId, recycled : Seq(Handles)]
             /\ ranges'[m].max = ranges[m].max /\ ranges'[m].cur = ranges[m].cur
             /\ ranges'[m].recycled = IF InRange(h.id, m) THEN Append(ranges[m].recycled, g)
                                      ELSE ranges[m].recycled
  <2>1. Append(ranges[m].recycled, g) \in Seq(Handles)
    BY <1>2, <1>4, AppendProperties
  <2> QED
    BY <2>1, <1>1, <1>4
<1>6. active # 0 /\ active \in DOMAIN ranges /\ ~InRange(h.id, active)
  BY <1>3 DEF InActive, RangesInv
<1>7. RangesInv'
  BY <1>1, <1>3, <1>5, <1>6 DEF RangesInv
<1>8. \A i \in Ids : \A m \in DOMAIN ranges : InRange(i, m)' <=> InRange(i, m)
  BY <1>5 DEF InRange
<1>9. \A i \in Ids : InActive(i)' <=> InActive(i)
  BY <1>1, <1>6, <1>8 DEF InActive
<1>10. \A m \in DOMAIN ranges : Top(m)' = Top(m)
  BY <1>1, <1>5 DEF Top
<1>11. \A i \in Ids : Issued(i)' <=> Issued(i)
  BY <1>1, <1>6, <1>8, <1>10 DEF Issued
<1>12. /\ Index(dense', alive', rec')
       /\ \A k \in alive' + 1..Len(dense') :
            \E j \in alive + 1..Len(dense) : dense'[k].id = dense[j].id
       /\ \A i \in Ids : Exists(i)' => Exists(i)
       /\ Exists(h.id) /\ ~Exists(h.id)'
  BY Dropping
<1>13. ExistingInv'
  BY <1>11, <1>12 DEF IndexInv, ExistingInv
<1>14. TailInv'
  <2> SUFFICES ASSUME NEW k \in alive' + 1..Len(dense') PROVE InActive(dense[k].id)'
    BY DEF TailInv
  <2>1. PICK j \in alive + 1..Len(dense) : dense'[k].id = dense[j].id
    BY <1>12
  <2>2. dense[j].id \in Ids /\ InActive(dense[j].id)
    BY IndexFacts DEF IndexInv, TailInv
  <2>3. PICK i \in Ids : i = dense[j].id
    BY <2>2
  <2>4. InActive(i)
    BY <2>2, <2>3
  <2>5. InActive(i)'
    BY <2>4, <1>9
  <2>6. i = dense'[k].id
    BY <2>1, <2>3
  <2> QED
    BY <2>5, <2>6
<1>15. ASSUME NEW m \in DOMAIN ranges, NEW k \in DOMAIN ranges'[m].recycled
       PROVE  \/ k \in DOMAIN ranges[m].recycled /\ ranges'[m].recycled[k] = ranges[m].recycled[k]
              \/ /\ InRange(h.id, m) /\ k = Len(ranges[m].recycled) + 1
                 /\ ranges'[m].recycled[k].id = h.id
  <2>1. CASE ~InRange(h.id, m)
    BY <2>1, <1>5
  <2>2. CASE InRange(h.id, m)
    <3> DEFINE l == ranges[m].recycled
    <3>1. l \in Seq(Handles) /\ ranges'[m].recycled = Append(l, g)
      BY <2>2, <1>4, <1>5
    <3> HIDE DEF l
    <3>2. /\ Append(l, g) \in Seq(Handles) /\ Len(Append(l, g)) = Len(l) + 1
          /\ Append(l, g)[Len(l) + 1] = g /\ \A j \in 1..Len(l) : Append(l, g)[j] = l[j]
      BY <3>1, <1>2, AppendProperties
    <3>3. Len(l) \in Nat /\ DOMAIN l = 1..Len(l) /\ k \in 1..Len(l) + 1
      BY <3>1, <3>2, Shape
    <3> QED
      BY <2>2, <3>1, <3>2, <3>3, <1>2 DEF l
  <2> QED
    BY <2>1, <2>2
<1>16. ASSUME NEW m \in DOMAIN ranges, NEW k \in DOMAIN ranges'[m].recycled, NEW i \in Ids,
              i = ranges'[m].recycled[k].id
       PROVE  Issued(i) /\ InRange(i, m) /\ ~Exists(i)'
  <2>1. CASE k \in DOMAIN ranges[m].recycled /\ i = ranges[m].recycled[k].id
    <3>1. Issued(i) /\ InRange(i, m) /\ ~Exists(i)
      BY <2>1 DEF IndexInv, ListsInv, RecycledOnce
    <3> QED
      BY <3>1, <1>12
  <2>2. CASE i = h.id /\ InRange(h.id, m)
    BY <2>2, <1>12 DEF IndexInv, ExistingInv
  <2> QED
    BY <2>1, <2>2, <1>15, <1>16
<1>17. ASSUME NEW m \in DOMAIN ranges, NEW k \in DOMAIN ranges'[m].recycled
       PROVE  ranges'[m].recycled[k].id \in Ids
  BY <1>5, Shape
<1>18. ListsInv'
  <2> SUFFICES ASSUME NEW m \in DOMAIN ranges, NEW k \in DOMAIN ranges'[m].recycled
               PROVE  Issued(ranges[m].recycled[k].id)'
    BY <1>1 DEF ListsInv
  <2>1. PICK i \in Ids : i = ranges'[m].recycled[k].id
    BY <1>17
  <2>2. Issued(i)'
    BY <2>1, <1>11, <1>16
  <2> QED
    BY <2>1, <2>2
<1>19. RecycledOnce'
  <2> SUFFICES ASSUME NEW m \in DOMAIN ranges, NEW k \in DOMAIN ranges'[m].recycled
               PROVE  /\ InRange(ranges[m].recycled[k].id, m)' /\ ~Exists(ranges[m].recycled[k].id)'
                      /\ \A j \in DOMAIN ranges'[m].recycled :
                           ranges'[m].recycled[j].id = ranges'[m].recycled[k].id => j = k
    BY <1>1 DEF RecycledOnce
  <2>1. PICK i \in Ids : i = ranges'[m].recycled[k].id
    BY <1>17
  <2>2. InRange(i, m)' /\ ~Exists(i)'
    BY <2>1, <1>8, <1>16
  <2>3. ASSUME NEW j \in DOMAIN ranges'[m].recycled,
               ranges'[m].recycled[j].id = ranges'[m].recycled[k].id
        PROVE  j = k
    <3> DEFINE l == ranges[m].recycled
    <3>1. \A a, b \in DOMAIN l : l[a].id = l[b].id => a = b
      BY DEF IndexInv, RecycledOnce
    <3>2. \A a \in DOMAIN l : l[a].id # h.id
      BY <1>12 DEF IndexInv, RecycledOnce
    <3>3. \/ j \in DOMAIN l /\ ranges'[m].recycled[j].id = l[j].id
          \/ j = Len(l) + 1 /\ ranges'[m].recycled[j].id = h.id
      BY <1>15
    <3>4. \/ k \in DOMAIN l /\ ranges'[m].recycled[k].id = l[k].id
          \/ k = Len(l) + 1 /\ ranges'[m].recycled[k].id = h.id
      BY <1>15
    <3> HIDE DEF l
    <3> QED
      BY <2>3, <3>1, <3>2, <3>3, <3>4
  <2> QED
    BY <2>1, <2>2, <2>3
<1>20. fresh' \subseteq Ids /\ NewInRange' /\ dead' \subseteq Handles
  BY <1>1 DEF IndexInv, NewInRange
<1> QED
  BY <1>7, <1>12, <1>13, <1>14, <1>18, <1>19, <1>20 DEF IndexInv

\* A first range, with the default one for the ids below it.
LEMMA FirstRangeStep ==
  ASSUME IndexInv, NEW min \in Ids, NEW max \in {0} \cup Ids, RangeNew(min, max),
         FirstRange(min, max)
  PROVE  IndexInv'
<1>1. /\ max = 0 \/ max >= min
      /\ alive = Len(dense) /\ active' = 1 /\ fresh' = {} /\ DOMAIN ranges = {}
      /\ UNCHANGED <<dense, alive, rec, maxId, dead>>
  BY IndexFacts DEF RangeNew, FirstRange, NotAlive
<1>2. active = 0 /\ maxId \in 0..MaxId /\ min \in 1..MaxId /\ max \in 0..MaxId
  BY <1>1 DEF IndexInv, RangesInv, Ids
<1>3. RangeRecord(max, maxId) = [max |-> max, cur |-> maxId, recycled |-> <<>>]
      /\ RangeRecord(min - 1, maxId) = [max |-> min - 1, cur |-> maxId, recycled |-> <<>>]
      /\ RangeRecord(max, min - 1) = [max |-> max, cur |-> min - 1, recycled |-> <<>>]
  BY DEF RangeRecord
<1>4. <<>> \in Seq(Handles) /\ DOMAIN <<>> = {}
  OBVIOUS
<1>5. /\ 1 \in DOMAIN ranges' /\ DOMAIN ranges' \subseteq 1..MaxId
      /\ ranges' = [m \in DOMAIN ranges' |-> ranges'[m]]
      /\ \A m \in DOMAIN ranges' :
           /\ ranges'[m] \in [max : 0..MaxId, cur : 0..MaxId, recycled : Seq(Handles)]
           /\ ranges'[m].max = 0 \/ m <= ranges'[m].max
           /\ ranges'[m].recycled = <<>>
      /\ \A m, n \in DOMAIN ranges' : m < n => ranges'[m].max # 0 /\ ranges'[m].max < n
      /\ ranges'[1].max = 0 \/ maxId <= ranges'[1].max
  <2>1. CASE min = 1
    <3>1. ranges' = [m \in {1} |-> [max |-> max, cur |-> maxId, recycled |-> <<>>]]
          /\ (max = 0 \/ max >= maxId)
      BY <2>1, <1>3 DEF FirstRange
    <3> QED
      BY <2>1, <3>1, <1>1, <1>2, <1>4
  <2>2. CASE min # 1
    <3>1. ranges' = [m \in {1, min} |->
                       IF m = 1 THEN [max |-> min - 1, cur |-> maxId, recycled |-> <<>>]
                       ELSE [max |-> max, cur |-> min - 1, recycled |-> <<>>]]
          /\ maxId <= min - 1
      BY <2>2, <1>2, <1>3 DEF FirstRange
    <3>2. DOMAIN ranges' = {1, min}
          /\ ranges'[1] = [max |-> min - 1, cur |-> maxId, recycled |-> <<>>]
          /\ ranges'[min] = [max |-> max, cur |-> min - 1, recycled |-> <<>>]
      BY <2>2, <3>1
    <3>3. ranges' = [m \in DOMAIN ranges' |-> ranges'[m]]
      BY <3>1
    <3> QED
      BY <2>2, <3>1, <3>2, <3>3, <1>1, <1>2, <1>4
  <2> QED
    BY <2>1, <2>2
<1>6. RangesInv'
  BY <1>1, <1>2, <1>5 DEF RangesInv, Ids
<1>7. ASSUME NEW i \in Ids, Exists(i)' PROVE Issued(i)'
  <2>1. i <= maxId /\ i \in 1..MaxId
    BY <1>1, <1>2, <1>7 DEF IndexInv, ExistingInv, Issued, Exists, Ids
  <2>2. ranges'[1].max \in 0..MaxId
    BY <1>5
  <2>3. InRange(i, 1)'
    BY <2>1, <2>2, <1>2, <1>5 DEF InRange
  <2>4. Top(1)' = maxId
    BY <1>1 DEF Top
  <2> QED
    BY <2>1, <2>3, <2>4, <1>1, <1>5 DEF Issued
<1>8. TailInv' /\ ListsInv' /\ RecycledOnce'
  BY <1>1, <1>4, <1>5, IndexFacts DEF TailInv, ListsInv, RecycledOnce
<1> QED
  BY <1>1, <1>6, <1>7, <1>8 DEF IndexInv, ExistingInv, NewInRange

LEMMA AnotherRangeStep ==
  ASSUME IndexInv, NEW min \in Ids, NEW max \in {0} \cup Ids, RangeNew(min, max),
         AnotherRange(min, max)
  PROVE  IndexInv'
<1>1. /\ max = 0 \/ max >= min
      /\ alive = Len(dense) /\ active' = active /\ fresh' = {} /\ DOMAIN ranges # {}
      /\ UNCHANGED <<dense, alive, rec, maxId, dead>>
      /\ ranges' = [m \in DOMAIN ranges \cup {min} |->
                      IF m = min THEN [max |-> max, cur |-> min - 1, recycled |-> <<>>]
                      ELSE ranges[m]]
  BY IndexFacts DEF RangeNew, AnotherRange, NotAlive, RangeRecord
<1>2. RangesInv /\ active # 0 /\ active \in DOMAIN ranges /\ min \in 1..MaxId /\ max \in 0..MaxId
  <2>1. RangesInv
    BY DEF IndexInv
  <2>2. active # 0
    BY <2>1, <1>1 DEF RangesInv
  <2> QED
    BY <2>1, <2>2 DEF RangesInv, Ids
<1>3. \A m \in DOMAIN ranges :
        /\ m \in 1..MaxId
        /\ ranges[m] \in [max : 0..MaxId, cur : 0..MaxId, recycled : Seq(Handles)]
        /\ ranges[m].max \in 0..MaxId
        /\ ranges[m].max = 0 \/ m <= ranges[m].max
        /\ \/ ranges[m].max # 0 /\ min > ranges[m].max
           \/ max # 0 /\ max < m
  <2> SUFFICES ASSUME NEW m \in DOMAIN ranges
               PROVE  /\ m \in 1..MaxId
                      /\ ranges[m] \in [max : 0..MaxId, cur : 0..MaxId, recycled : Seq(Handles)]
                      /\ ranges[m].max \in 0..MaxId
                      /\ ranges[m].max = 0 \/ m <= ranges[m].max
                      /\ \/ ranges[m].max # 0 /\ min > ranges[m].max
                         \/ max # 0 /\ max < m
    OBVIOUS
  <2>1. /\ m \in 1..MaxId
        /\ ranges[m] \in [max : 0..MaxId, cur : 0..MaxId, recycled : Seq(Handles)]
        /\ ranges[m].max \in 0..MaxId
        /\ ranges[m].max = 0 \/ m <= ranges[m].max
    BY <1>2 DEF RangesInv, Ids
  <2>2. ~Overlap(min, max, m)
    BY DEF AnotherRange
  <2> QED
    BY <2>1, <2>2, <1>2 DEF Overlap
<1>4. min \notin DOMAIN ranges
  BY <1>1, <1>2, <1>3
<1>5. /\ DOMAIN ranges' = DOMAIN ranges \cup {min}
      /\ ranges'[min] = [max |-> max, cur |-> min - 1, recycled |-> <<>>]
      /\ \A m \in DOMAIN ranges : ranges'[m] = ranges[m] /\ m # min
  BY <1>1, <1>4
<1>6. <<>> \in Seq(Handles) /\ DOMAIN <<>> = {}
  OBVIOUS
<1>7. RangesInv'
  <2>1. ranges' = [m \in DOMAIN ranges' |-> ranges'[m]]
    BY <1>1
  <2>2. ASSUME NEW m \in DOMAIN ranges'
        PROVE  /\ ranges'[m] \in [max : 0..MaxId, cur : 0..MaxId, recycled : Seq(Handles)]
               /\ ranges'[m].max = 0 \/ m <= ranges'[m].max
    <3>1. CASE m = min
      BY <3>1, <1>1, <1>2, <1>5, <1>6
    <3>2. CASE m \in DOMAIN ranges
      BY <3>2, <1>3, <1>5
    <3> QED
      BY <3>1, <3>2, <1>5
  <2>3. ASSUME NEW m \in DOMAIN ranges', NEW n \in DOMAIN ranges', m < n
        PROVE  ranges'[m].max # 0 /\ ranges'[m].max < n
    <3>1. CASE m = min
      BY <3>1, <2>3, <1>1, <1>2, <1>3, <1>5, SMTT(20)
    <3>2. CASE n = min
      BY <3>2, <2>3, <1>1, <1>2, <1>3, <1>5
    <3>3. CASE m \in DOMAIN ranges /\ n \in DOMAIN ranges
      BY <3>3, <2>3, <1>2, <1>5 DEF RangesInv
    <3> QED
      BY <3>1, <3>2, <3>3, <1>5
  <2>4. DOMAIN ranges' \subseteq Ids /\ active' \in DOMAIN ranges' /\ active' # 0
        /\ ranges'[active'].recycled = <<>> /\ maxId' \in 0..MaxId
    BY <1>1, <1>2, <1>5 DEF RangesInv
  <2> QED
    BY <2>1, <2>2, <2>3, <2>4 DEF RangesInv
<1>8. \A i \in Ids : Issued(i) => Issued(i)'
  BY <1>1, <1>2, <1>5 DEF Issued, Top, InRange
<1>9. ExistingInv'
  BY <1>1, <1>8 DEF IndexInv, ExistingInv, Exists
<1>10. TailInv'
  BY <1>1, IndexFacts DEF TailInv
<1>11. ASSUME NEW m \in DOMAIN ranges', NEW k \in DOMAIN ranges'[m].recycled
       PROVE  m \in DOMAIN ranges /\ k \in DOMAIN ranges[m].recycled /\ ranges'[m] = ranges[m]
  BY <1>5, <1>6
<1>12. ListsInv'
  <2> SUFFICES ASSUME NEW m \in DOMAIN ranges', NEW k \in DOMAIN ranges'[m].recycled
               PROVE  Issued(ranges[m].recycled[k].id)'
    BY DEF ListsInv
  <2>1. m \in DOMAIN ranges /\ k \in DOMAIN ranges[m].recycled /\ ranges'[m] = ranges[m]
    BY <1>11
  <2>2. PICK i \in Ids : i = ranges[m].recycled[k].id
    BY <2>1, <1>2, ListedInactive DEF IndexInv
  <2>3. Issued(i)
    BY <2>1, <2>2 DEF IndexInv, ListsInv
  <2>4. Issued(i)' /\ i = ranges'[m].recycled[k].id
    BY <2>1, <2>2, <2>3, <1>8
  <2> QED
    BY <2>4
<1>13. RecycledOnce'
  BY <1>1, <1>11 DEF IndexInv, RecycledOnce, InRange, Exists
<1> QED
  BY <1>1, <1>7, <1>9, <1>10, <1>12, <1>13 DEF IndexInv, NewInRange

\* The active range is left for range m, whose recycled ids come to dense.
LEMMA SetRangeStep ==
  ASSUME IndexInv, Asserts, NEW m \in Ids, SetRange(m)
  PROVE  IndexInv'
<1> DEFINE n == Len(dense)
           tail == SubSeq(dense, alive + 1, n)
           l == Saved[m].recycled
<1>1. RangesInv /\ m \in DOMAIN ranges /\ active # 0 /\ active \in DOMAIN ranges
  BY DEF IndexInv, RangesInv, SetRange
<1>2. \A k \in DOMAIN ranges :
        /\ ranges[k] \in [max : 0..MaxId, cur : 0..MaxId, recycled : Seq(Handles)]
        /\ ranges[k].recycled \in Seq(Handles)
  BY <1>1 DEF RangesInv
<1>3. /\ DOMAIN Saved = DOMAIN ranges
      /\ Saved[active] = [max |-> ranges[active].max, cur |-> maxId, recycled |-> tail]
      /\ \A k \in DOMAIN ranges : k # active => Saved[k] = ranges[k]
  BY <1>1, <1>2 DEF Saved
<1>4. /\ tail \in Seq(Handles) /\ Len(tail) = n - alive
      /\ \A k \in 1..n - alive : tail[k] = dense[alive + k]
  <2>1. n \in Nat /\ alive \in 0..n /\ \A k \in 1..n : dense[k] \in Handles
    BY IndexFacts
  <2>2. alive + 1 \in 1..n + 1 /\ \A k \in alive + 1..n : dense[k] \in Handles
    BY <2>1
  <2>3. n - (alive + 1) + 1 = n - alive
    BY <2>1
  <2>4. CASE alive = n
    <3>1. tail = <<>>
      BY <2>1, <2>4
    <3> HIDE DEF tail
    <3> QED
      BY <2>1, <2>4, <3>1
  <2>5. CASE alive < n
    <3> DEFINE a == alive + 1
    <3>1. a \in Int /\ n \in Int /\ a <= n /\ \A k \in a..n : dense[k] \in Handles
      BY <2>1, <2>2, <2>5
    <3>2. tail = SubSeq(dense, a, n)
      OBVIOUS
    <3> HIDE DEF a, tail
    <3>3. tail \in Seq(Handles) /\ Len(tail) = IF a <= n THEN n - a + 1 ELSE 0
      BY <3>1, <3>2, SubSeqProperties
    <3>4. \A k \in 1..n - a + 1 : tail[k] = dense[a + k - 1]
      BY <3>1, <3>2, SubSeqProperties
    <3> QED
      BY <2>1, <2>5, <3>3, <3>4 DEF a
  <2> QED
    BY <2>1, <2>4, <2>5
<1> HIDE DEF tail
<1>5. DOMAIN tail = 1..n - alive /\ n \in Nat /\ alive \in 0..n
  BY <1>4, IndexFacts
\* What is known of the ids that are recyclable in dense.
<1>6. ASSUME NEW k \in DOMAIN tail
      PROVE  /\ tail[k].id \in Ids /\ rec[tail[k].id] = alive + k /\ alive + k > alive
             /\ InRange(tail[k].id, active)
  <2>1. alive + k \in alive + 1..n /\ tail[k] = dense[alive + k]
    BY <1>4, <1>5
  <2>2. InActive(dense[alive + k].id)
    BY <2>1 DEF IndexInv, TailInv
  <2> QED
    BY <2>1, <2>2, <1>1, <1>5, IndexFacts DEF InActive
<1>7. \A j, k \in DOMAIN tail : tail[j].id = tail[k].id => j = k
  BY <1>5, <1>6
\* The lists of the ranges other than the active one.
<1>8. ASSUME NEW r \in DOMAIN ranges, NEW k \in DOMAIN ranges[r].recycled
      PROVE  /\ ranges[r].recycled[k].id \in Ids /\ rec[ranges[r].recycled[k].id] = 0
             /\ InRange(ranges[r].recycled[k].id, r) /\ Issued(ranges[r].recycled[k].id)
  BY <1>1, ListedInactive DEF IndexInv, RecycledOnce, ListsInv, Exists
<1>9. \A r \in DOMAIN ranges : \A j, k \in DOMAIN ranges[r].recycled :
        ranges[r].recycled[j].id = ranges[r].recycled[k].id => j = k
  BY DEF IndexInv, RecycledOnce
\* The same of what is saved.
<1>10. ASSUME NEW r \in DOMAIN ranges
       PROVE  /\ Saved[r].recycled \in Seq(Handles)
              /\ Saved[r] \in [max : 0..MaxId, cur : 0..MaxId, recycled : Seq(Handles)]
              /\ Saved[r].max = ranges[r].max /\ Saved[r].cur = Top(r)
              /\ \A j, k \in DOMAIN Saved[r].recycled :
                   Saved[r].recycled[j].id = Saved[r].recycled[k].id => j = k
  <2>1. CASE r = active
    <3>1. Saved[r] = [max |-> ranges[r].max, cur |-> maxId, recycled |-> tail] /\ Top(r) = maxId
      BY <2>1, <1>3 DEF Top
    <3>2. ranges[r].max \in 0..MaxId /\ maxId \in 0..MaxId
      BY <1>2, IndexFacts
    <3> QED
      BY <3>1, <3>2, <1>4, <1>7
  <2>2. CASE r # active
    <3>1. Saved[r] = ranges[r] /\ Top(r) = ranges[r].cur
      BY <2>2, <1>3 DEF Top
    <3> QED
      BY <3>1, <1>2, <1>9
  <2> QED
    BY <2>1, <2>2
<1>11. ASSUME NEW r \in DOMAIN ranges, NEW k \in DOMAIN Saved[r].recycled
       PROVE  /\ Saved[r].recycled[k].id \in Ids
              /\ InRange(Saved[r].recycled[k].id, r) /\ Issued(Saved[r].recycled[k].id)
              /\ IF r = active THEN rec[Saved[r].recycled[k].id] > alive
                 ELSE rec[Saved[r].recycled[k].id] = 0
  <2>1. CASE r = active
    <3>1. Saved[r].recycled = tail
      BY <2>1, <1>3
    <3>2. k \in DOMAIN tail
      BY <3>1
    <3>3. tail[k].id \in Ids /\ InRange(tail[k].id, active) /\ rec[tail[k].id] > alive
          /\ rec[tail[k].id] # 0
      BY <3>2, <1>5, <1>6
    <3>4. Issued(tail[k].id)
      BY <3>3 DEF IndexInv, ExistingInv, Exists
    <3> QED
      BY <2>1, <3>1, <3>3, <3>4
  <2>2. CASE r # active
    <3>1. Saved[r] = ranges[r] /\ k \in DOMAIN ranges[r].recycled
      BY <2>2, <1>3
    <3> QED
      BY <2>2, <3>1, <1>8
  <2> QED
    BY <2>1, <2>2
<1> HIDE DEF l
<1>12. /\ l \in Seq(Handles) /\ DOMAIN l = 1..Len(l) /\ Len(l) \in Nat
       /\ \A j, k \in 1..Len(l) : l[j].id = l[k].id => j = k
       /\ \A k \in 1..Len(l) : rec[l[k].id] = 0 \/ rec[l[k].id] > alive
  <2>1. l \in Seq(Handles) /\ \A j, k \in DOMAIN l : l[j].id = l[k].id => j = k
    BY <1>1, <1>10 DEF l
  <2>2. DOMAIN l = 1..Len(l) /\ Len(l) \in Nat
    BY <2>1
  <2>3. ASSUME NEW k \in DOMAIN l PROVE rec[l[k].id] = 0 \/ rec[l[k].id] > alive
    BY <1>1, <1>11 DEF l
  <2> QED
    BY <2>1, <2>2, <2>3
<1>13. /\ alive' = alive /\ dead' = dead /\ fresh' = {} /\ active' = m
       /\ dense' = SubSeq(dense, 1, alive) \o l /\ rec' = Reloaded(alive, rec, l)
       /\ ranges' = [Saved EXCEPT ![m].recycled = <<>>] /\ maxId' = Saved[m].cur
  BY DEF SetRange, l, Reloaded
<1>14. Index(dense', alive', rec')
  <2>1. Index(dense, alive, rec)
    BY DEF IndexInv
  <2>2. Index(SubSeq(dense, 1, alive) \o l, alive, Reloaded(alive, rec, l))
    BY <2>1, <1>12, Reloading
  <2> QED
    BY <2>2, <1>13
<1>15. /\ DOMAIN ranges' = DOMAIN ranges /\ ranges' = [k \in DOMAIN ranges' |-> ranges'[k]]
       /\ ranges'[m] = [max |-> ranges[m].max, cur |-> Saved[m].cur, recycled |-> <<>>]
       /\ \A k \in DOMAIN ranges : k # m => ranges'[k] = Saved[k]
  <2>1. DOMAIN ranges' = DOMAIN ranges /\ ranges' = [k \in DOMAIN ranges' |-> ranges'[k]]
    BY <1>3, <1>13 DEF Saved
  <2>2. \A k \in DOMAIN ranges : k # m => ranges'[k] = Saved[k]
    BY <1>3, <1>13
  <2>3. ranges'[m] = [Saved[m] EXCEPT !.recycled = <<>>]
    BY <1>1, <1>3, <1>13
  <2>4. Saved[m] \in [max : 0..MaxId, cur : 0..MaxId, recycled : Seq(Handles)]
        /\ Saved[m].max = ranges[m].max
    BY <1>1, <1>10
  <2> QED
    BY <2>1, <2>2, <2>3, <2>4
<1>16. <<>> \in Seq(Handles) /\ DOMAIN <<>> = {}
  OBVIOUS
<1>17. \A r \in DOMAIN ranges :
         /\ ranges'[r] \in [max : 0..MaxId, cur : 0..MaxId, recycled : Seq(Handles)]
         /\ ranges'[r].max = ranges[r].max /\ Top(r)' = Top(r)
  <2> SUFFICES ASSUME NEW r \in DOMAIN ranges
               PROVE  /\ ranges'[r] \in [max : 0..MaxId, cur : 0..MaxId, recycled : Seq(Handles)]
                      /\ ranges'[r].max = ranges[r].max /\ Top(r)' = Top(r)
    OBVIOUS
  <2>1. Saved[r] \in [max : 0..MaxId, cur : 0..MaxId, recycled : Seq(Handles)]
        /\ Saved[r].max = ranges[r].max /\ Saved[r].cur = Top(r)
    BY <1>10
  <2>2. CASE r = m
    <3>1. ranges'[r] = [max |-> ranges[m].max, cur |-> Saved[m].cur, recycled |-> <<>>]
      BY <2>2, <1>15
    <3>2. Top(r)' = Saved[m].cur
      BY <2>2, <1>13 DEF Top
    <3>3. Saved[m].cur \in 0..MaxId /\ ranges[m].max \in 0..MaxId
      BY <2>1, <2>2, <1>2
    <3> QED
      BY <2>1, <2>2, <3>1, <3>2, <3>3, <1>16
  <2>3. CASE r # m
    <3>1. ranges'[r] = Saved[r]
      BY <2>3, <1>15
    <3>2. Top(r)' = ranges'[r].cur
      BY <2>3, <1>13 DEF Top
    <3> QED
      BY <2>1, <3>1, <3>2
  <2> QED
    BY <2>2, <2>3
<1>18. \A i \in Ids : \A r \in DOMAIN ranges : InRange(i, r)' <=> InRange(i, r)
  BY <1>17 DEF InRange
<1>19. \A i \in Ids : Issued(i)' <=> Issued(i)
  BY <1>1, <1>13, <1>15, <1>17, <1>18 DEF Issued, Ids
<1>20. RangesInv'
  <2>1. maxId' \in 0..MaxId
    BY <1>1, <1>10, <1>13
  <2>2. \A r, q \in DOMAIN ranges' : r < q => ranges'[r].max # 0 /\ ranges'[r].max < q
    BY <1>1, <1>15, <1>17 DEF RangesInv
  <2>3. \A r \in DOMAIN ranges' : ranges'[r].max = 0 \/ r <= ranges'[r].max
    BY <1>1, <1>15, <1>17 DEF RangesInv
  <2>4. DOMAIN ranges' \subseteq Ids /\ active' \in DOMAIN ranges' /\ active' # 0
        /\ ranges'[active'].recycled = <<>>
    BY <1>1, <1>13, <1>15, SMTT(20) DEF RangesInv, Ids
  <2> QED
    BY <2>1, <2>2, <2>3, <2>4, <1>15, <1>17 DEF RangesInv
\* What is alive stays, what is loaded is added, the rest leaves dense.
<1>21. ASSUME NEW i \in Ids
       PROVE  /\ (\A k \in DOMAIN l : l[k].id # i) => rec'[i] = IF rec[i] > alive THEN 0 ELSE rec[i]
              /\ rec'[i] # 0 => rec[i] # 0 \/ \E k \in DOMAIN l : l[k].id = i
  <2>1. (\A k \in DOMAIN l : l[k].id # i) => rec'[i] = IF rec[i] > alive THEN 0 ELSE rec[i]
    BY <1>13 DEF Reloaded
  <2> QED
    BY <2>1
<1>22. ExistingInv'
  <2> SUFFICES ASSUME NEW i \in Ids, Exists(i)' PROVE Issued(i)
    BY <1>19 DEF ExistingInv
  <2>1. CASE rec[i] # 0
    BY <2>1 DEF IndexInv, ExistingInv, Exists
  <2>2. CASE \E k \in DOMAIN l : l[k].id = i
    BY <2>2, <1>1, <1>11 DEF l
  <2> QED
    BY <2>1, <2>2, <1>21 DEF Exists
<1>23. TailInv'
  <2> SUFFICES ASSUME NEW k \in alive' + 1..Len(dense') PROVE InActive(dense[k].id)'
    BY DEF TailInv
  <2> DEFINE b == SubSeq(dense, 1, alive)
  <2>1. b \in Seq(Handles) /\ Len(b) = alive
    <3>1. \A j \in 1..alive : dense[j] \in Handles
      BY <1>5, IndexFacts
    <3> QED
      BY <3>1, <1>5, SubSeqProperties
  <2> HIDE DEF b
  <2>2. Len(b \o l) = Len(b) + Len(l)
        /\ \A j \in 1..Len(b) + Len(l) : (b \o l)[j] = IF j <= Len(b) THEN b[j] ELSE l[j - Len(b)]
    <3>1. l \in Seq(Handles)
      BY <1>12
    <3> QED
      BY <2>1, <3>1, Zenon, ConcatProperties
  <2>3. dense' = b \o l
    BY <1>13 DEF b
  <2>4. k - alive \in 1..Len(l) /\ dense'[k] = l[k - alive]
    BY <2>1, <2>2, <2>3, <1>5, <1>12, <1>13
  <2>5. l[k - alive].id \in Ids /\ InRange(l[k - alive].id, m)
    BY <2>4, <1>1, <1>11, <1>12 DEF l
  <2>6. PICK i \in Ids : i = dense'[k].id
    BY <2>4, <2>5
  <2>7. InRange(i, m)
    BY <2>4, <2>5, <2>6
  <2>8. InRange(i, m)'
    BY <2>7, <1>1, <1>18
  <2>9. InActive(i)'
    BY <2>8, <1>13 DEF InActive, InRange
  <2> QED
    BY <2>6, <2>9
<1>24. ASSUME NEW r \in DOMAIN ranges, NEW k \in DOMAIN ranges'[r].recycled
       PROVE  r # m /\ ranges'[r].recycled = Saved[r].recycled /\ k \in DOMAIN Saved[r].recycled
  <2>1. r # m
    <3> SUFFICES ASSUME r = m PROVE FALSE
      OBVIOUS
    <3>1. ranges'[r].recycled = <<>>
      BY <1>15
    <3> QED
      BY <3>1, <1>16
  <2> QED
    BY <2>1, <1>15
<1>25. ListsInv'
  <2> SUFFICES ASSUME NEW r \in DOMAIN ranges', NEW k \in DOMAIN ranges'[r].recycled
               PROVE  Issued(ranges[r].recycled[k].id)'
    BY DEF ListsInv
  <2>1. r \in DOMAIN ranges
    BY <1>15
  <2>2. ranges'[r].recycled = Saved[r].recycled /\ k \in DOMAIN Saved[r].recycled
    BY <2>1, <1>24
  <2>3. PICK i \in Ids : i = Saved[r].recycled[k].id
    BY <2>1, <2>2, <1>11
  <2>4. Issued(i)
    BY <2>1, <2>2, <2>3, <1>11
  <2>5. Issued(i)' /\ i = ranges'[r].recycled[k].id
    BY <2>2, <2>3, <2>4, <1>19
  <2> QED
    BY <2>5
<1>26. RecycledOnce'
  <2> SUFFICES ASSUME NEW r \in DOMAIN ranges', NEW k \in DOMAIN ranges'[r].recycled
               PROVE  /\ InRange(ranges[r].recycled[k].id, r)' /\ ~Exists(ranges[r].recycled[k].id)'
                      /\ \A j \in DOMAIN ranges'[r].recycled :
                           ranges'[r].recycled[j].id = ranges'[r].recycled[k].id => j = k
    BY DEF RecycledOnce
  <2>1. r \in DOMAIN ranges
    BY <1>15
  <2>2. r # m /\ ranges'[r].recycled = Saved[r].recycled /\ k \in DOMAIN Saved[r].recycled
    BY <2>1, <1>24
  <2>3. PICK i \in Ids : i = Saved[r].recycled[k].id
    BY <2>1, <2>2, <1>11
  <2>4. InRange(i, r) /\ IF r = active THEN rec[i] > alive ELSE rec[i] = 0
    BY <2>1, <2>2, <2>3, <1>11
  <2>5. \A j \in DOMAIN l : l[j].id # i
    <3> SUFFICES ASSUME NEW j \in DOMAIN l, l[j].id = i PROVE FALSE
      OBVIOUS
    <3>1. InRange(i, m)
      BY <1>1, <1>11 DEF l
    <3> QED
      BY <3>1, <2>1, <2>2, <2>4, <1>1, RangeFacts
  <2>6. rec'[i] = 0
    BY <2>4, <2>5, <1>5, <1>21
  <2>7. InRange(i, r)' /\ ~Exists(i)'
    BY <2>1, <2>4, <2>6, <1>18 DEF Exists
  <2>8. i = ranges'[r].recycled[k].id
    BY <2>2, <2>3
  <2>9. \A j \in DOMAIN ranges'[r].recycled :
          ranges'[r].recycled[j].id = ranges'[r].recycled[k].id => j = k
    BY <2>1, <2>2, <1>10
  <2> QED
    BY <2>7, <2>8, <2>9
<1> QED
  BY <1>13, <1>14, <1>20, <1>22, <1>23, <1>25, <1>26 DEF IndexInv, NewInRange

(***************************************************************************)
(* The theorems                                                            *)
(***************************************************************************)
LEMMA InitIndex ==
  ASSUME Init
  PROVE  IndexInv
<1>1. /\ dense = <<>> /\ alive = 0 /\ rec = [i \in Ids |-> 0] /\ maxId = 0
      /\ ranges = [m \in {} |-> 0] /\ DOMAIN ranges = {} /\ active = 0 /\ dead = {} /\ fresh = {}
  BY DEF Init
<1>2. dense \in Seq(Handles) /\ Len(dense) = 0
  BY <1>1
<1>3. Index(dense, alive, rec)
  BY <1>1, <1>2 DEF Index, Inverse1, Inverse2
<1>4. RangesInv
  BY <1>1 DEF RangesInv
<1>5. ExistingInv /\ TailInv /\ ListsInv /\ RecycledOnce /\ NewInRange
  BY <1>1, <1>2 DEF ExistingInv, TailInv, ListsInv, RecycledOnce, NewInRange, Exists
<1> QED
  BY <1>1, <1>3, <1>4, <1>5 DEF IndexInv

LEMMA NextIndex ==
  ASSUME Asserts, Polite, IndexInv, [Next]_vars
  PROVE  IndexInv'
<1>1. CASE New
  BY <1>1, RecycleStep, NewIdStep DEF New
<1>2. ASSUME NEW count \in 1..MaxBulk, NewIds(count) PROVE IndexInv'
  BY <1>2, NewIdsStep
<1>3. ASSUME NEW h \in Handles, MakeAlive(h) PROVE IndexInv'
  BY <1>3, MakeAliveStep
<1>4. ASSUME NEW h \in Handles, SetVersion(h) PROVE IndexInv'
  BY <1>4, SetVersionStep
<1>5. ASSUME NEW h \in Handles, Delete(h) PROVE IndexInv'
  BY <1>5, DeleteInside, DeleteOutside
<1>6. ASSUME NEW min \in Ids, NEW max \in {0} \cup Ids, RangeNew(min, max) PROVE IndexInv'
  <2>1. FirstRange(min, max) \/ AnotherRange(min, max)
    BY <1>6 DEF RangeNew
  <2> QED
    BY <2>1, <1>6, FirstRangeStep, AnotherRangeStep
<1>7. ASSUME NEW m \in Ids, SetRange(m) PROVE IndexInv'
  BY <1>7, SetRangeStep
<1>8. CASE UNCHANGED vars
  BY <1>8 DEF vars, IndexInv, RangesInv, ExistingInv, TailInv, ListsInv, RecycledOnce, NewInRange,
              Issued, Top, Exists, InRange, InActive
<1> QED
  BY <1>1, <1>2, <1>3, <1>4, <1>5, <1>6, <1>7, <1>8 DEF Next

\* The invariant in every reachable state of a build with assertions, whose
\* application makes alive only ids of the active range.
LEMMA IndexInvariant ==
  ASSUME Asserts, Polite
  PROVE  Spec => []IndexInv
<1>1. Init => IndexInv
  BY InitIndex
<1>2. IndexInv /\ [Next]_vars => IndexInv'
  BY NextIndex
<1> QED
  BY <1>1, <1>2, PTL DEF Spec

\* What the entity index keeps is of its type.
THEOREM IndexTypes ==
  ASSUME Asserts, Polite
  PROVE  Spec => []TypeOK
<1>1. IndexInv => TypeOK
  BY DEF IndexInv, Index, RangesInv, TypeOK
<1> QED
  BY <1>1, IndexInvariant, PTL

\* Every id that exists is at the position in dense that its record names, and
\* is there once: the assertions of ensure and remove_intern never fail.
THEOREM IndexConsistent ==
  ASSUME Asserts, Polite
  PROVE  Spec => []Consistent
<1>1. IndexInv => Consistent
  <2> SUFFICES ASSUME IndexInv PROVE Consistent
    OBVIOUS
  <2>1. DOMAIN dense = 1..Len(dense)
    BY IndexFacts
  <2> QED
    BY <2>1, IndexFacts DEF Consistent, Exists
<1> QED
  BY <1>1, IndexInvariant, PTL

\* An id that waits to be recycled waits in one place, in its own range: the
\* assertion of set_range never fails because an id is also elsewhere.
THEOREM RecycledInOnePlace ==
  ASSUME Asserts, Polite
  PROVE  Spec => []RecycledOnce
<1>1. IndexInv => RecycledOnce
  BY DEF IndexInv
<1> QED
  BY <1>1, IndexInvariant, PTL

\* The ids that a creation returns are in the active range, recycled ones too.
THEOREM NewIdsInRange ==
  ASSUME Asserts, Polite
  PROVE  Spec => []NewInRange
<1>1. IndexInv => NewInRange
  BY DEF IndexInv
<1> QED
  BY <1>1, IndexInvariant, PTL

\* No id is issued from the counter of a range twice, whatever ranges were
\* created and switched between.
THEOREM NextIdIsNew ==
  ASSUME Asserts, Polite
  PROVE  Spec => []NoIdClash
<1>1. IndexInv => NoIdClash
  <2> SUFFICES ASSUME IndexInv PROVE NoIdClash
    OBVIOUS
  <2>1. RangesInv /\ ExistingInv /\ maxId \in 0..MaxId
    BY DEF IndexInv, RangesInv
  <2>2. ASSUME maxId < MaxId, InActive(maxId + 1) PROVE ~Exists(maxId + 1)
    <3>1. PICK i \in Ids : i = maxId + 1
      BY <2>1, <2>2 DEF Ids
    <3>2. InActive(i)
      BY <2>2, <3>1
    <3>3. ~(i <= maxId)
      BY <2>1, <3>1
    <3>4. ~Issued(i)
      BY <2>1, <3>2, <3>3, ActiveIssued
    <3> QED
      BY <2>1, <3>1, <3>4 DEF ExistingInv
  <2>3. ASSUME NEW m \in DOMAIN ranges \ {active}, ranges[m].cur < MaxId,
               InRange(ranges[m].cur + 1, m)
        PROVE  ~Exists(ranges[m].cur + 1)
    <3>1. ranges[m].cur \in 0..MaxId /\ active # 0
      BY <2>1 DEF RangesInv
    <3>2. PICK i \in Ids : i = ranges[m].cur + 1
      BY <2>3, <3>1 DEF Ids
    <3>3. InRange(i, m) /\ ~(i <= Top(m))
      BY <2>3, <3>1, <3>2 DEF Top
    <3>4. \A n \in DOMAIN ranges : InRange(i, n) => n = m
      BY <2>1, <3>3, RangeFacts
    <3>5. ~Issued(i)
      BY <3>1, <3>3, <3>4 DEF Issued
    <3> QED
      BY <2>1, <3>2, <3>5 DEF ExistingInv
  <2> QED
    BY <2>2, <2>3 DEF NoIdClash
<1> QED
  BY <1>1, IndexInvariant, PTL

(***************************************************************************)
(* Generations                                                             *)
(***************************************************************************)
\* How many times the generation has to be incremented to come from a to g,
\* at least once.
Behind(a, g) == IF a < g THEN g - a ELSE g - a + GenCount

\* The generations of the id of h in D are the last ones before that of h.
Trails(h, D) ==
  \A a, b \in Gens :
    H(h.id, a) \in D /\ Behind(b, h.gen) <= Behind(a, h.gen) => H(h.id, b) \in D

LEMMA HandleIs ==
  ASSUME NEW h \in Handles
  PROVE  /\ h = H(h.id, h.gen) /\ h.id \in Ids /\ h.gen \in Gens
         /\ \A g \in Gens : H(h.id, g) \in Handles /\ H(h.id, g).id = h.id /\ H(h.id, g).gen = g
  BY DEF Handles, H

LEMMA TrailsNone ==
  ASSUME NEW h, NEW D, \A x \in D : x.id # h.id
  PROVE  Trails(h, D)
  BY DEF Trails, H

\* D and C have the same handles of the id of h.
LEMMA TrailsSame ==
  ASSUME NEW h, NEW D, NEW C, Trails(h, D), \A g \in Gens : H(h.id, g) \in C <=> H(h.id, g) \in D
  PROVE  Trails(h, C)
  BY DEF Trails

LEMMA BehindSelf ==
  ASSUME NEW g \in Gens
  PROVE  /\ Behind(g, g) = GenCount
         /\ \A a \in Gens : Behind(a, g) \in 1..GenCount /\ (a # g => Behind(a, g) < GenCount)
  BY DEF Behind, Gens

LEMMA TrailsRecycled ==
  ASSUME NEW h \in Handles, NEW D, Trails(h, D)
  PROVE  Trails(h, D \ {h})
<1> SUFFICES ASSUME NEW a \in Gens, NEW b \in Gens, H(h.id, a) \in D, H(h.id, a) # h,
                    Behind(b, h.gen) <= Behind(a, h.gen)
             PROVE  H(h.id, b) \in D /\ H(h.id, b) # h
  BY DEF Trails
<1>1. h.gen \in Gens /\ a # h.gen /\ h = H(h.id, h.gen)
  BY HandleIs
<1>2. b # h.gen
  BY <1>1, BehindSelf DEF Gens
<1>3. H(h.id, b) # h
  BY <1>2, HandleIs
<1> QED
  BY <1>3 DEF Trails

\* If the handle that an id has now is dead, all of them are.
LEMMA TrailsAll ==
  ASSUME NEW h \in Handles, NEW D, Trails(h, D), h \in D
  PROVE  \A g \in Gens : H(h.id, g) \in D
<1> SUFFICES ASSUME NEW g \in Gens PROVE H(h.id, g) \in D
  OBVIOUS
<1>1. h.gen \in Gens /\ h = H(h.id, h.gen)
  BY HandleIs
<1>2. Behind(g, h.gen) <= Behind(h.gen, h.gen)
  BY <1>1, BehindSelf DEF Gens
<1> QED
  BY <1>1, <1>2 DEF Trails

LEMMA GenerationIs ==
  ASSUME NEW h \in Handles
  PROVE  /\ GenerationInc(h) \in Handles /\ GenerationInc(h).id = h.id
         /\ GenerationInc(h).gen = IF h.gen = GenCount - 1 THEN 0 ELSE h.gen + 1
<1>1. h.gen \in 0..GenCount - 1 /\ h.id \in Ids
  BY DEF Handles, Gens
<1>2. (h.gen + 1) % GenCount = IF h.gen = GenCount - 1 THEN 0 ELSE h.gen + 1
  <2>1. CASE h.gen = GenCount - 1
    <3>1. GenCount % GenCount = 0
      OBVIOUS
    <3>2. h.gen + 1 = GenCount
      BY <2>1
    <3> QED
      BY <2>1, <3>1, <3>2
  <2>2. CASE h.gen # GenCount - 1
    <3>1. h.gen + 1 \in 0..GenCount - 1
      BY <1>1, <2>2
    <3>2. \A n \in 0..GenCount - 1 : n % GenCount = n
      OBVIOUS
    <3> QED
      BY <2>2, <3>1, <3>2
  <2> QED
    BY <2>1, <2>2
<1> QED
  BY <1>1, <1>2 DEF GenerationInc, H, Handles, Gens

LEMMA TrailsDeleted ==
  ASSUME NEW h \in Handles, NEW D, Trails(h, D), h \notin D
  PROVE  Trails(GenerationInc(h), D \cup {h})
<1> DEFINE g == GenerationInc(h)
           m == h.gen
<1>1. g.id = h.id /\ g.gen = (IF m = GenCount - 1 THEN 0 ELSE m + 1) /\ m \in 0..GenCount - 1
  BY GenerationIs DEF Handles, Gens
<1>2. h = H(h.id, m)
  BY HandleIs
<1> HIDE DEF g, m
<1>3. /\ Behind(m, g.gen) = 1
      /\ \A a \in Gens : a # m => Behind(a, g.gen) = Behind(a, m) + 1
      /\ \A a \in Gens : Behind(a, m) \in Nat \ {0}
  BY <1>1 DEF Behind, Gens
<1> SUFFICES ASSUME NEW a \in Gens, NEW b \in Gens, H(h.id, a) \in D \cup {h},
                    Behind(b, g.gen) <= Behind(a, g.gen)
             PROVE  H(h.id, b) \in D \cup {h}
  BY <1>1 DEF Trails, g
<1>4. CASE b = m
  BY <1>2, <1>4
<1>5. CASE b # m /\ a = m
  BY <1>3, <1>5
<1>6. CASE b # m /\ a # m
  <2>1. H(h.id, a) \in D
    BY <1>2, <1>6 DEF H
  <2>2. Behind(b, m) <= Behind(a, m)
    BY <1>3, <1>6
  <2> QED
    BY <2>1, <2>2 DEF Trails, m
<1> QED
  BY <1>4, <1>5, <1>6

(***************************************************************************)
(* The inductive invariant                                                 *)
(***************************************************************************)
Living == {dense[k] : k \in 1..alive}

Listed(h) ==
  \E m \in DOMAIN ranges : \E k \in DOMAIN ranges[m].recycled : ranges[m].recycled[k] = h

\* h is the handle that its id has now, or will have when it is recycled.
Current(h) == (\E k \in 1..Len(dense) : dense[k] = h) \/ Listed(h)

DeadInv ==
  /\ \A h \in dead : Issued(h.id)
  /\ \A h \in Handles : Current(h) => Trails(h, dead)
  /\ Living \cap dead = {}

LEMMA LivingHandles ==
  ASSUME IndexInv
  PROVE  /\ Living \subseteq Handles
         /\ \A h \in Living : Current(h) /\ Exists(h.id) /\ rec[h.id] <= alive /\ dense[rec[h.id]] = h
<1> SUFFICES ASSUME NEW k \in 1..alive
             PROVE  /\ dense[k] \in Handles /\ Current(dense[k]) /\ Exists(dense[k].id)
                    /\ rec[dense[k].id] <= alive /\ dense[rec[dense[k].id]] = dense[k]
  BY DEF Living
<1>1. k \in 1..Len(dense) /\ k # 0
  BY IndexFacts
<1> QED
  BY <1>1, IndexFacts DEF Current, Exists

\* An id has one current handle.
LEMMA CurrentOnce ==
  ASSUME IndexInv, NEW x \in Handles, NEW y \in Handles, Current(x), Current(y), x.id = y.id
  PROVE  x = y
<1>1. ASSUME NEW m \in DOMAIN ranges, NEW k \in DOMAIN ranges[m].recycled
      PROVE  /\ ranges[m].recycled[k].id \in Ids /\ InRange(ranges[m].recycled[k].id, m)
             /\ ~Exists(ranges[m].recycled[k].id)
             /\ \A j \in DOMAIN ranges[m].recycled :
                   ranges[m].recycled[j].id = ranges[m].recycled[k].id => j = k
  BY ListedInactive DEF IndexInv, RecycledOnce
<1>2. \A k \in 1..Len(dense) : Exists(dense[k].id) /\ rec[dense[k].id] = k
  BY IndexFacts DEF Exists
<1>3. CASE Listed(x) /\ Listed(y)
  <2>1. PICK m \in DOMAIN ranges : \E k \in DOMAIN ranges[m].recycled : ranges[m].recycled[k] = x
    BY <1>3 DEF Listed
  <2>2. PICK n \in DOMAIN ranges : \E k \in DOMAIN ranges[n].recycled : ranges[n].recycled[k] = y
    BY <1>3 DEF Listed
  <2>3. InRange(x.id, m) /\ InRange(x.id, n) /\ x.id \in Ids
    BY <1>1, <2>1, <2>2
  <2>4. m = n
    BY <2>3, RangeFacts DEF IndexInv
  <2> QED
    BY <1>1, <2>1, <2>2, <2>4
<1>4. CASE Listed(x) /\ ~Listed(y)
  BY <1>1, <1>2, <1>4 DEF Listed, Current
<1>5. CASE ~Listed(x) /\ Listed(y)
  BY <1>1, <1>2, <1>5 DEF Listed, Current
<1>6. CASE ~Listed(x) /\ ~Listed(y)
  BY <1>2, <1>6 DEF Current
<1> QED
  BY <1>3, <1>4, <1>5, <1>6

LEMMA LivingOnce ==
  ASSUME IndexInv, NEW x \in Living, NEW y \in Handles, Current(y), x.id = y.id
  PROVE  x = y
<1>1. x \in Handles /\ Current(x)
  BY LivingHandles
<1> QED
  BY <1>1, CurrentOnce

(***************************************************************************)
(* What a step can do to the handles                                       *)
(***************************************************************************)
\* No handle comes in but those of hs.
Only(hs) == \A x \in Handles : Current(x)' => Current(x) \/ x \in hs

\* hs are created, each from the handle that its id has now or of a new id.
Creates(hs) ==
  /\ hs \subseteq Handles /\ Only(hs)
  /\ \A h \in hs : /\ Current(h) \/ \A x \in dead : x.id # h.id
                   /\ \A x \in Living : x.id # h.id
                   /\ \A x \in hs : x.id = h.id => x = h
  /\ Living' = Living \cup hs /\ dead' = dead \ hs

Claims(h) ==
  /\ h \in Handles /\ Only({h})
  /\ Living' \in {(Living \ Of(h.id)) \cup {h}, Living} /\ dead' = dead \ Of(h.id)

Deletes(h) ==
  /\ h \in Living
  /\ \A x \in Handles : Current(x)' => x = GenerationInc(h) \/ (Current(x) /\ x.id # h.id)
  /\ Living' = Living \ {h} /\ dead' = dead \cup {h}

Keeps == Only({}) /\ Living' = Living /\ dead' = dead

IdEffect == (\E hs : Creates(hs)) \/ (\E h : Claims(h) \/ Deletes(h)) \/ Keeps

IssuedStays == \A i \in Ids : Issued(i) => Issued(i)'

LEMMA CreatesDead ==
  ASSUME IndexInv, DeadInv, NEW hs, Creates(hs), IssuedStays
  PROVE  DeadInv'
<1>1. dead \subseteq Handles /\ dead' = dead \ hs /\ Living' = Living \cup hs /\ hs \subseteq Handles
  BY DEF IndexInv, Creates
<1>2. \A h \in dead' : Issued(h.id)'
  BY <1>1, HandleId DEF DeadInv, IssuedStays
<1>3. ASSUME NEW x \in Handles, Current(x)' PROVE Trails(x, dead')
  <2>1. CASE \E h \in hs : h.id = x.id /\ \A y \in dead : y.id # h.id
    BY <2>1, <1>1, TrailsNone
  <2>2. CASE x \in hs /\ Current(x)
    <3>1. Trails(x, dead \ {x})
      BY <2>2, TrailsRecycled DEF DeadInv
    <3>2. \A g \in Gens : H(x.id, g) \in dead' <=> H(x.id, g) \in dead \ {x}
      BY <1>1, <2>2, HandleIs DEF Creates
    <3> QED
      BY <3>1, <3>2, TrailsSame
  <2>3. CASE Current(x) /\ \A h \in hs : h.id # x.id
    <3>1. \A g \in Gens : H(x.id, g) \in dead' <=> H(x.id, g) \in dead
      BY <1>1, <2>3, HandleIs
    <3> QED
      BY <2>3, <3>1, TrailsSame DEF DeadInv
  <2>4. CASE Current(x) /\ \E h \in hs : h.id = x.id /\ Current(h)
    BY <1>1, <2>2, <2>4, CurrentOnce
  <2> QED
    BY <1>3, <2>1, <2>2, <2>3, <2>4 DEF Creates, Only
<1>4. Living' \cap dead' = {}
  BY <1>1 DEF DeadInv
<1> QED
  BY <1>2, <1>3, <1>4 DEF DeadInv

LEMMA ClaimsDead ==
  ASSUME IndexInv, DeadInv, NEW h, Claims(h), IssuedStays
  PROVE  DeadInv'
<1>1. /\ dead \subseteq Handles /\ dead' = dead \ Of(h.id) /\ h \in Handles
      /\ Living' \subseteq Living \cup {h}
  BY DEF IndexInv, Claims
<1>2. \A x \in dead' : x.id # h.id /\ x \in dead
  BY <1>1, HandleIs DEF Of
<1>3. \A x \in dead' : Issued(x.id)'
  BY <1>1, <1>2, HandleId DEF DeadInv, IssuedStays
<1>4. ASSUME NEW x \in Handles, Current(x)' PROVE Trails(x, dead')
  <2>1. CASE x.id = h.id
    BY <1>2, <2>1, TrailsNone
  <2>2. CASE x.id # h.id
    <3>1. Current(x)
      BY <1>4, <2>2 DEF Claims, Only
    <3>2. \A g \in Gens : H(x.id, g) \in dead' <=> H(x.id, g) \in dead
      BY <1>1, <2>2 DEF Of, H
    <3> QED
      BY <3>1, <3>2, TrailsSame DEF DeadInv
  <2> QED
    BY <2>1, <2>2
<1>5. Living' \cap dead' = {}
  BY <1>1, <1>2 DEF DeadInv
<1> QED
  BY <1>3, <1>4, <1>5 DEF DeadInv

LEMMA DeletesDead ==
  ASSUME IndexInv, DeadInv, NEW h, Deletes(h), IssuedStays
  PROVE  DeadInv'
<1>1. dead \subseteq Handles /\ dead' = dead \cup {h} /\ h \in Living /\ Living' = Living \ {h}
  BY DEF IndexInv, Deletes
<1>2. h \in Handles /\ Current(h) /\ Exists(h.id) /\ h \notin dead
  BY <1>1, LivingHandles DEF DeadInv
<1>3. \A x \in dead' : Issued(x.id)'
  BY <1>1, <1>2, HandleId DEF DeadInv, IssuedStays, IndexInv, ExistingInv
<1>4. ASSUME NEW x \in Handles, Current(x)' PROVE Trails(x, dead')
  <2>1. CASE x = GenerationInc(h)
    BY <1>1, <1>2, <2>1, TrailsDeleted DEF DeadInv
  <2>2. CASE Current(x) /\ x.id # h.id
    <3>1. \A g \in Gens : H(x.id, g) \in dead' <=> H(x.id, g) \in dead
      BY <1>1, <2>2, HandleIs
    <3> QED
      BY <2>2, <3>1, TrailsSame DEF DeadInv
  <2> QED
    BY <1>4, <2>1, <2>2 DEF Deletes
<1>5. Living' \cap dead' = {}
  BY <1>1 DEF DeadInv
<1> QED
  BY <1>3, <1>4, <1>5 DEF DeadInv

LEMMA KeepsDead ==
  ASSUME IndexInv, DeadInv, Keeps, IssuedStays
  PROVE  DeadInv'
<1>1. dead \subseteq Handles /\ dead' = dead /\ Living' = Living
  BY DEF IndexInv, Keeps
<1>2. \A h \in dead' : Issued(h.id)'
  BY <1>1, HandleId DEF DeadInv, IssuedStays
<1> QED
  BY <1>1, <1>2 DEF DeadInv, Keeps, Only

(***************************************************************************)
(* The effects are steps of EntityIds                                      *)
(***************************************************************************)
LEMMA OfIs ==
  ASSUME NEW i \in Ids
  PROVE  E!Of(i) = Of(i)
  BY DEF E!Of, E!Handles, Of, H

LEMMA EffectRefines ==
  ASSUME IndexInv, DeadInv, IdEffect
  PROVE  [E!Next]_E!vars
<1>0. E!Handles = Handles
  BY DEF E!Handles, Handles
<1>1. ASSUME NEW hs, Creates(hs) PROVE E!Next
  <2>1. hs \in SUBSET E!Handles /\ Living' = Living \cup hs /\ dead' = dead \ hs
    BY <1>0, <1>1 DEF Creates
  <2>2. ASSUME NEW h \in hs
        PROVE  /\ E!Of(h.id) \cap (Living \cup hs) = {h} /\ h \notin Living
               /\ h \in dead => E!Of(h.id) \subseteq dead
    <3>1. h \in Handles /\ h \in Of(h.id) /\ E!Of(h.id) = Of(h.id) /\ \A x \in Of(h.id) : x.id = h.id
      <4>1. h \in Handles
        BY <1>1 DEF Creates
      <4> QED
        BY <4>1, HandleIs, OfIs DEF Of
    <3>2. \A x \in Living : x.id # h.id
      BY <1>1 DEF Creates
    <3>3. \A x \in hs : x.id = h.id => x = h
      BY <1>1 DEF Creates
    <3>4. ASSUME h \in dead PROVE Of(h.id) \subseteq dead
      <4>1. Current(h)
        BY <1>1, <3>4 DEF Creates
      <4>2. \A g \in Gens : H(h.id, g) \in dead
        BY <3>1, <3>4, <4>1, TrailsAll DEF DeadInv
      <4> QED
        BY <4>2 DEF Of
    <3> QED
      BY <3>1, <3>2, <3>3, <3>4
  <2>3. E!Create(hs)
    BY <2>1, <2>2 DEF E!Create, Living
  <2> QED
    BY <2>1, <2>3 DEF E!Next
<1>2. ASSUME NEW h, Claims(h) PROVE E!Next
  <2>1. h \in Handles /\ E!Of(h.id) = Of(h.id)
    BY <1>2, HandleId, OfIs DEF Claims
  <2>2. E!Claim(h)
    BY <1>2, <2>1 DEF Claims, E!Claim, Living
  <2> QED
    BY <1>0, <2>1, <2>2 DEF E!Next
<1>3. ASSUME NEW h, Deletes(h) PROVE E!Next
  <2>1. h \in Handles
    BY <1>3, LivingHandles DEF Deletes
  <2>2. E!Delete(h)
    BY <1>3 DEF Deletes, E!Delete, Living
  <2> QED
    BY <1>0, <2>1, <2>2 DEF E!Next
<1>4. ASSUME Keeps PROVE UNCHANGED E!vars
  BY <1>4 DEF Keeps, E!vars, Living
<1> QED
  BY <1>1, <1>2, <1>3, <1>4 DEF IdEffect

(***************************************************************************)
(* The effect of each action                                               *)
(***************************************************************************)
LEMMA SteadyIssued ==
  ASSUME IndexInv, UNCHANGED <<ranges, active>>, maxId' \in Nat, maxId <= maxId'
  PROVE  IssuedStays
<1>1. maxId \in 0..MaxId
  BY IndexFacts
<1>2. active = 0 \/ active \in DOMAIN ranges
  BY DEF IndexInv, RangesInv
<1>3. ASSUME NEW i \in Ids, Issued(i) PROVE Issued(i)'
  <2>1. CASE active = 0
    BY <1>1, <1>3, <2>1 DEF Issued, Ids
  <2>2. CASE active # 0
    <3>1. PICK m \in DOMAIN ranges : InRange(i, m) /\ i <= Top(m)
      BY <1>3, <2>2 DEF Issued
    <3>2. InRange(i, m)' /\ i <= Top(m)'
      BY <1>1, <3>1 DEF InRange, Top, Ids
    <3> QED
      BY <2>2, <3>2 DEF Issued
  <2> QED
    BY <2>1, <2>2
<1> QED
  BY <1>3 DEF IssuedStays

LEMMA LivingMore ==
  ASSUME NEW h, alive \in Nat, alive' = alive + 1, \A k \in 1..alive : dense'[k] = dense[k],
         dense'[alive + 1] = h
  PROVE  Living' = Living \cup {h}
<1>1. 1..alive' = 1..alive \cup {alive + 1} /\ alive + 1 \notin 1..alive
  OBVIOUS
<1> QED
  BY <1>1 DEF Living

LEMMA LivingSame ==
  ASSUME alive' = alive, \A k \in 1..alive : dense'[k] = dense[k]
  PROVE  Living' = Living
  BY DEF Living

LEMMA OnlyDense ==
  ASSUME ranges' = ranges, NEW hs,
         \A k \in 1..Len(dense') :
            dense'[k] \in hs \/ \E j \in 1..Len(dense) : dense'[k] = dense[j]
  PROVE  Only(hs)
  BY DEF Only, Current, Listed

\* The ids of the handles that are alive have a record.
LEMMA NewInLiving ==
  ASSUME IndexInv, NEW i \in Ids, i \notin AliveIds
  PROVE  \A x \in Living : x.id # i
  BY LivingHandles DEF AliveIds

LEMMA RecycleEffect ==
  ASSUME IndexInv, Recycle, UNCHANGED <<ranges, active>>
  PROVE  IdEffect /\ IssuedStays
<1> DEFINE h == dense[alive + 1]
<1>1. /\ alive < Len(dense) /\ alive' = alive + 1 /\ dense' = dense /\ rec' = rec /\ maxId' = maxId
      /\ dead' = dead \ {h}
  BY DEF Recycle
<1>2. alive \in Nat /\ alive + 1 \in 1..Len(dense) /\ maxId \in Nat
  BY <1>1, IndexFacts
<1>3. h \in Handles /\ h.id \in Ids /\ rec[h.id] = alive + 1
  BY <1>2, IndexFacts
<1>4. Living' = Living \cup {h}
  BY <1>1, <1>2, LivingMore
<1>5. Current(h)
  BY <1>2 DEF Current
<1>6. \A x \in Living : x.id # h.id
  BY <1>2, <1>3, LivingHandles
<1>7. Only({h})
  BY <1>1, OnlyDense
<1> HIDE DEF h
<1>8. Creates({h})
  BY <1>1, <1>3, <1>4, <1>5, <1>6, <1>7 DEF Creates
<1>9. maxId <= maxId'
  BY <1>1, <1>2
<1> QED
  BY <1>1, <1>2, <1>8, <1>9, SteadyIssued DEF IdEffect

\* No handle of an id that was not issued is dead.
LEMMA NewNotDead ==
  ASSUME IndexInv, DeadInv, NEW i \in Ids, InActive(i), i > maxId
  PROVE  \A x \in dead : x.id # i
<1>1. ~Issued(i)
  BY ActiveIssued, IndexFacts DEF IndexInv, Ids
<1> QED
  BY <1>1 DEF DeadInv

LEMMA NewIdEffect ==
  ASSUME IndexInv, DeadInv, Asserts, NewId, UNCHANGED <<ranges, active>>
  PROVE  IdEffect /\ IssuedStays
<1> DEFINE id == maxId + 1
           h == H(id, 0)
<1>1. /\ alive = Len(dense) /\ maxId < MaxId /\ rec[id] = 0 /\ InActive(id)
      /\ maxId' = id /\ dense' = Append(dense, h) /\ alive' = alive + 1 /\ dead' = dead \ {h}
  BY DEF NewId, Exists
<1>2. id \in Ids /\ maxId \in Nat /\ maxId' \in Nat /\ maxId <= maxId' /\ id > maxId
  BY <1>1, IndexFacts DEF Ids
<1>3. h \in Handles /\ h.id = id
  BY <1>2, FirstHandle
<1> HIDE DEF id, h
<1>4. dense \in Seq(Handles) /\ Len(dense) \in Nat
  BY IndexFacts
<1>5. /\ Len(dense') = Len(dense) + 1 /\ dense'[Len(dense) + 1] = h
      /\ \A k \in 1..Len(dense) : dense'[k] = dense[k]
  BY <1>1, <1>3, <1>4, AppendProperties
<1>6. Living' = Living \cup {h}
  BY <1>1, <1>4, <1>5, LivingMore
<1>7. Only({h})
  <2>1. ASSUME NEW k \in 1..Len(dense')
        PROVE  dense'[k] \in {h} \/ \E j \in 1..Len(dense) : dense'[k] = dense[j]
    <3>1. k = Len(dense) + 1 \/ k \in 1..Len(dense)
      BY <1>4, <1>5
    <3> QED
      BY <1>5, <3>1
  <2> QED
    BY <2>1, OnlyDense
<1>8. \A x \in dead : x.id # h.id
  BY <1>1, <1>2, <1>3, NewNotDead
<1>9. \A x \in Living : x.id # h.id
  BY <1>1, <1>2, <1>3, NewInLiving DEF AliveIds, Exists
<1>10. Creates({h})
  BY <1>1, <1>3, <1>6, <1>7, <1>8, <1>9 DEF Creates
<1> QED
  BY <1>2, <1>10, SteadyIssued DEF IdEffect

LEMMA NewIdsEffect ==
  ASSUME IndexInv, DeadInv, Asserts, Polite, NEW count \in 1..MaxBulk, NewIds(count)
  PROVE  IdEffect /\ IssuedStays
<1> DEFINE n == Len(dense)
           added == IF count > NotAlive THEN count - NotAlive ELSE 0
           all == dense \o [k \in 1..added |-> H(maxId + k, 0)]
           hs == {all[k] : k \in alive + 1..alive + count}
<1>1. /\ maxId + added <= MaxId
      /\ \A k \in 1..added : rec[maxId + k] = 0 /\ InActive(maxId + k)
      /\ dense' = all /\ alive' = alive + count /\ maxId' = maxId + added
      /\ dead' = dead \ hs /\ UNCHANGED <<ranges, active>>
  BY DEF NewIds, Exists
<1>2. /\ added \in Nat /\ maxId \in Nat /\ n \in Nat /\ alive \in 0..n /\ count \in Nat \ {0}
      /\ alive + count <= n + added /\ (added > 0 => alive + count = n + added)
  BY <1>1, IndexFacts DEF NotAlive
<1>3. maxId' \in Nat /\ maxId <= maxId'
  BY <1>1, <1>2
<1> HIDE DEF added
<1>4. /\ Len(all) = n + added /\ \A k \in 1..n : all[k] = dense[k]
      /\ \A k \in 1..added : all[n + k] = H(maxId + k, 0)
  <2> DEFINE new == [k \in 1..added |-> H(maxId + k, 0)]
  <2>1. \A k \in 1..added : H(maxId + k, 0) \in Handles
    <3> SUFFICES ASSUME NEW k \in 1..added PROVE H(maxId + k, 0) \in Handles
      OBVIOUS
    <3>1. maxId + k \in Ids
      BY <1>1, <1>2 DEF Ids
    <3> QED
      BY <3>1, FirstHandle
  <2>2. new \in Seq(Handles) /\ Len(new) = added
    BY <1>2, <2>1
  <2>3. \A k \in 1..added : new[k] = H(maxId + k, 0)
    OBVIOUS
  <2>4. dense \in Seq(Handles)
    BY IndexFacts
  <2> HIDE DEF new
  <2>5. /\ Len(dense \o new) = n + added
        /\ \A k \in 1..n + added : (dense \o new)[k] = IF k <= n THEN dense[k] ELSE new[k - n]
    BY <2>2, <2>4, ConcatProperties
  <2>6. all = dense \o new
    BY DEF new
  <2>7. \A k \in 1..n : all[k] = dense[k]
    BY <1>2, <2>5, <2>6
  <2>8. ASSUME NEW k \in 1..added PROVE all[n + k] = H(maxId + k, 0)
    <3>1. n + k \in 1..n + added /\ ~(n + k <= n) /\ n + k - n = k
      BY <1>2
    <3> HIDE DEF all
    <3> QED
      BY <2>3, <2>5, <2>6, <3>1
  <2> QED
    BY <2>5, <2>6, <2>7, <2>8
<1> HIDE DEF all
\* What is created is at a place in dense that was not alive, or is new.
<1>5. ASSUME NEW k \in alive + 1..alive + count
      PROVE  \/ /\ k \in 1..n /\ all[k] = dense[k] /\ all[k] \in Handles /\ Current(all[k])
                /\ rec[all[k].id] = k
             \/ /\ all[k] = H(maxId + (k - n), 0) /\ k - n \in 1..added
                /\ maxId + (k - n) \in Ids /\ all[k] \in Handles
                /\ all[k].id = maxId + (k - n) /\ rec[all[k].id] = 0
                /\ \A x \in dead : x.id # all[k].id
  <2>1. CASE k <= n
    <3>1. k \in 1..n
      BY <1>2, <2>1
    <3>2. all[k] = dense[k]
      BY <1>4, <3>1
    <3> QED
      BY <3>1, <3>2, IndexFacts DEF Current
  <2>2. CASE k > n
    <3>1. k - n \in 1..added /\ n + (k - n) = k
      BY <1>2, <2>2
    <3>2. PICK j \in 1..added : j = k - n /\ n + j = k
      BY <3>1
    <3>3. all[k] = H(maxId + j, 0) /\ rec[maxId + j] = 0 /\ InActive(maxId + j)
      BY <1>1, <1>4, <3>2
    <3>4. maxId + j \in Ids /\ maxId + j > maxId
      BY <1>1, <1>2 DEF Ids
    <3>5. \A x \in dead : x.id # maxId + j
      BY <3>3, <3>4, NewNotDead
    <3>6. all[k] \in Handles /\ all[k].id = maxId + j
      BY <3>3, <3>4, FirstHandle
    <3> QED
      BY <3>1, <3>2, <3>3, <3>4, <3>5, <3>6
  <2> QED
    BY <1>2, <2>1, <2>2
<1>6. hs \subseteq Handles
  BY <1>5
<1>7. ASSUME NEW h \in hs
      PROVE  /\ Current(h) \/ \A x \in dead : x.id # h.id
             /\ \A x \in Living : x.id # h.id
             /\ \A x \in hs : x.id = h.id => x = h
  <2>1. PICK k \in alive + 1..alive + count : h = all[k]
    OBVIOUS
  <2>2. Current(h) \/ \A x \in dead : x.id # h.id
    BY <1>5, <2>1
  <2>3. h \in Handles /\ h.id \in Ids /\ (rec[h.id] = k \/ rec[h.id] = 0)
    BY <1>5, <1>6, <2>1, HandleId
  <2>4. h.id \notin AliveIds
    BY <1>2, <2>3 DEF AliveIds, Exists
  <2>5. \A x \in Living : x.id # h.id
    BY <2>3, <2>4, NewInLiving
  <2>6. ASSUME NEW j \in alive + 1..alive + count, all[j].id = all[k].id
        PROVE  all[j] = all[k]
    <3>1. k # 0 /\ j # 0
      BY <1>2
    <3> QED
      BY <1>5, <2>6, <3>1
  <2> QED
    BY <2>1, <2>2, <2>5, <2>6
<1>8. Living' = Living \cup hs
  <2>1. 1..alive + count = 1..alive \cup (alive + 1..alive + count)
    BY <1>2
  <2>2. \A k \in 1..alive : all[k] = dense[k]
    BY <1>2, <1>4
  <2> QED
    BY <1>1, <2>1, <2>2 DEF Living
<1>9. Only(hs)
  <2>1. ASSUME NEW k \in 1..Len(dense')
        PROVE  dense'[k] \in hs \/ \E j \in 1..Len(dense) : dense'[k] = dense[j]
    <3>1. CASE k <= n
      <4>1. k \in 1..n
        BY <1>2, <3>1
      <4> QED
        BY <1>1, <1>4, <4>1
    <3>2. CASE k > n
      <4>1. k \in alive + 1..alive + count
        BY <1>1, <1>2, <1>4, <3>2
      <4> QED
        BY <1>1, <4>1
    <3> QED
      BY <1>2, <3>1, <3>2
  <2> QED
    BY <1>1, <2>1, OnlyDense
<1> HIDE DEF hs
<1>10. Creates(hs)
  BY <1>1, <1>6, <1>7, <1>8, <1>9 DEF Creates
<1> QED
  BY <1>1, <1>3, <1>10, SteadyIssued DEF IdEffect

\* The dense vector after h was made alive.
Ensured(h) ==
  /\ alive' = alive + 1 /\ dense'[alive + 1] = h
  /\ \A k \in 1..alive : dense'[k] = dense[k]
  /\ \A k \in 1..Len(dense') : dense'[k] = h \/ \E j \in 1..Len(dense) : dense'[k] = dense[j]

LEMMA EnsureNewIs ==
  ASSUME IndexInv, NEW h \in Handles, EnsureNew(h)
  PROVE  Ensured(h)
<1> DEFINE n == Len(dense)
           e == Append(dense, h)
           first == e[alive + 1]
<1>1. alive' = alive + 1 /\ dense' = [e EXCEPT ![n + 1] = first, ![alive + 1] = h]
  BY DEF EnsureNew
<1>2. n \in Nat /\ alive \in 0..n /\ dense \in Seq(Handles)
  BY IndexFacts
<1>3. e \in Seq(Handles) /\ Len(e) = n + 1 /\ e[n + 1] = h /\ \A k \in 1..n : e[k] = dense[k]
  BY <1>2, AppendProperties
<1>4. DOMAIN e = 1..n + 1
  BY <1>3
<1> HIDE DEF e
<1>5. first = h \/ \E j \in 1..n : first = dense[j]
  BY <1>2, <1>3
<1>6. first \in Handles
  BY <1>2, <1>3, Shape
<1> HIDE DEF first
<1>7. Len(dense') = n + 1
  BY <1>1, <1>2, <1>3, <1>6, ExceptSeq
<1>8. ASSUME NEW k \in 1..n + 1
      PROVE  dense'[k] = IF k = alive + 1 THEN h ELSE IF k = n + 1 THEN first ELSE e[k]
  BY <1>1, <1>2, <1>4
<1>9. dense'[alive + 1] = h
  BY <1>2, <1>8
<1>10. ASSUME NEW k \in 1..alive PROVE dense'[k] = dense[k]
  <2>1. k \in 1..n + 1 /\ k # alive + 1 /\ k # n + 1 /\ k \in 1..n
    BY <1>2
  <2> QED
    BY <1>3, <1>8, <2>1
<1>11. ASSUME NEW k \in 1..n + 1 PROVE dense'[k] = h \/ \E j \in 1..n : dense'[k] = dense[j]
  <2>1. k = n + 1 \/ k \in 1..n
    BY <1>2
  <2> QED
    BY <1>3, <1>5, <1>8, <2>1
<1> QED
  BY <1>1, <1>7, <1>9, <1>10, <1>11 DEF Ensured

LEMMA EnsureDeadIs ==
  ASSUME IndexInv, NEW h \in Handles, EnsureDead(h)
  PROVE  Ensured(h)
<1> DEFINE n == Len(dense)
           p == rec[h.id]
           first == IF p = alive + 1 THEN h ELSE dense[alive + 1]
<1>1. /\ p # 0 /\ p > alive /\ alive' = alive + 1
      /\ dense' = [dense EXCEPT ![p] = first, ![alive + 1] = h]
  BY DEF EnsureDead, Exists, Swapped
<1>2. h.id \in Ids /\ n \in Nat /\ alive \in 0..n /\ dense \in Seq(Handles)
  BY HandleId, IndexFacts
<1>3. p \in 1..n /\ alive + 1 \in 1..n /\ DOMAIN dense = 1..n
  BY <1>1, <1>2, IndexFacts
<1>4. first \in Handles /\ (first = h \/ \E j \in 1..n : first = dense[j])
  BY <1>3, IndexFacts
<1> HIDE DEF first, p
<1>5. Len(dense') = n
  BY <1>1, <1>2, <1>3, <1>4, ExceptSeq
<1>6. ASSUME NEW k \in 1..n
      PROVE  dense'[k] = IF k = alive + 1 THEN h ELSE IF k = p THEN first ELSE dense[k]
  BY <1>1, <1>3
<1>7. dense'[alive + 1] = h
  BY <1>3, <1>6
<1>8. ASSUME NEW k \in 1..alive PROVE dense'[k] = dense[k]
  <2>1. k \in 1..n /\ k # alive + 1 /\ k # p
    BY <1>1, <1>2
  <2> QED
    BY <1>6, <2>1
<1>9. ASSUME NEW k \in 1..n PROVE dense'[k] = h \/ \E j \in 1..n : dense'[k] = dense[j]
  BY <1>4, <1>6
<1> QED
  BY <1>1, <1>5, <1>7, <1>8, <1>9 DEF Ensured

LEMMA MakeAliveEffect ==
  ASSUME IndexInv, Polite, NEW h \in Handles, MakeAlive(h)
  PROVE  IdEffect /\ IssuedStays
<1>1. /\ h.id \notin AliveIds /\ dead' = dead \ Of(h.id) /\ UNCHANGED <<ranges, active>>
      /\ maxId' = IF ~Exists(h.id) /\ h.id > maxId THEN h.id ELSE maxId
  BY DEF MakeAlive
<1>2. Ensured(h)
  BY EnsureNewIs, EnsureDeadIs DEF MakeAlive
<1>3. h.id \in Ids /\ maxId \in Nat /\ alive \in Nat
  BY HandleId, IndexFacts
<1>4. maxId' \in Nat /\ maxId <= maxId'
  BY <1>1, <1>3 DEF Ids
<1>5. Living' = Living \cup {h}
  BY <1>2, <1>3, LivingMore DEF Ensured
<1>6. Living \ Of(h.id) = Living
  <2>1. \A x \in Living : x.id # h.id
    BY <1>1, <1>3, NewInLiving
  <2>2. \A x \in Of(h.id) : x.id = h.id
    BY DEF Of, H
  <2> QED
    BY <2>1, <2>2
<1>7. Only({h})
  <2>1. \A k \in 1..Len(dense') : dense'[k] \in {h} \/ \E j \in 1..Len(dense) : dense'[k] = dense[j]
    BY <1>2 DEF Ensured
  <2> QED
    BY <1>1, <2>1, OnlyDense
<1>8. Claims(h)
  BY <1>1, <1>5, <1>6, <1>7 DEF Claims
<1> QED
  BY <1>1, <1>4, <1>8, SteadyIssued DEF IdEffect

LEMMA SetVersionEffect ==
  ASSUME IndexInv, NEW h \in Handles, SetVersion(h)
  PROVE  IdEffect /\ IssuedStays
<1> DEFINE n == Len(dense)
           p == rec[h.id]
<1>1. /\ p # 0 /\ dense' = [dense EXCEPT ![p] = h] /\ alive' = alive /\ dead' = dead \ Of(h.id)
      /\ maxId' = maxId /\ UNCHANGED <<ranges, active>>
  BY DEF SetVersion, Exists
<1>2. h.id \in Ids /\ dense \in Seq(Handles) /\ n \in Nat /\ alive \in 0..n /\ maxId \in Nat
  BY HandleId, IndexFacts
<1>3. p \in 1..n /\ DOMAIN dense = 1..n
  BY <1>1, <1>2, IndexFacts
<1>4. \A k \in 1..n : dense[k].id = h.id <=> k = p
  BY <1>2, <1>3, IndexFacts
<1> HIDE DEF p
<1>5. Len(dense') = n /\ \A k \in 1..n : dense'[k] = IF k = p THEN h ELSE dense[k]
  BY <1>1, <1>2, <1>3, ExceptSeq
<1>6. Only({h})
  <2>1. \A k \in 1..Len(dense') : dense'[k] \in {h} \/ \E j \in 1..n : dense'[k] = dense[j]
    BY <1>5
  <2> QED
    BY <1>1, <2>1, OnlyDense
<1>7. Living' \in {(Living \ Of(h.id)) \cup {h}, Living}
  <2>1. CASE p > alive
    <3>1. \A k \in 1..alive : dense'[k] = dense[k]
      BY <1>2, <1>5, <2>1
    <3> QED
      BY <1>1, <3>1, LivingSame
  <2>2. CASE p <= alive
    <3>1. \A x \in Handles : x \in Of(h.id) <=> x.id = h.id
      BY HandleIs DEF Of
    <3>2. ASSUME NEW k \in 1..alive, k # p
          PROVE  dense'[k] = dense[k] /\ dense[k] \notin Of(h.id)
      <4>1. k \in 1..n /\ dense[k] \in Handles
        BY <1>2, IndexFacts
      <4> QED
        BY <1>4, <1>5, <3>1, <3>2, <4>1
    <3>3. p \in 1..alive /\ dense'[p] = h /\ dense[p] \in Of(h.id)
      <4>1. p \in 1..alive /\ dense[p] \in Handles
        BY <1>2, <1>3, <2>2, IndexFacts
      <4> QED
        BY <1>3, <1>4, <1>5, <3>1, <4>1
    <3>4. Living' \subseteq (Living \ Of(h.id)) \cup {h}
      BY <1>1, <3>2, <3>3 DEF Living
    <3>5. (Living \ Of(h.id)) \cup {h} \subseteq Living'
      <4>1. h \in Living'
        BY <1>1, <3>3 DEF Living
      <4>2. ASSUME NEW x \in Living \ Of(h.id) PROVE x \in Living'
        <5>1. PICK k \in 1..alive : x = dense[k]
          BY DEF Living
        <5>2. k # p
          BY <3>3, <4>2, <5>1
        <5> QED
          BY <1>1, <3>2, <5>1, <5>2 DEF Living
      <4> QED
        BY <4>1, <4>2
    <3> QED
      BY <3>4, <3>5
  <2> QED
    BY <1>2, <1>3, <2>1, <2>2
<1>8. Claims(h)
  BY <1>1, <1>6, <1>7 DEF Claims
<1>9. maxId' \in Nat /\ maxId <= maxId'
  BY <1>1, <1>2
<1> QED
  BY <1>1, <1>8, <1>9, SteadyIssued DEF IdEffect

\* The dense vector after the first half of a deletion.
LEMMA RemovedIs ==
  ASSUME IndexInv, NEW h \in Handles, IsAlive(h)
  PROVE  /\ rec[h.id] \in 1..alive /\ alive \in 1..Len(dense) /\ Len(dense) \in Nat
         /\ dense[rec[h.id]] = h
         /\ \A k \in 1..Len(dense) : dense[k].id = h.id <=> k = rec[h.id]
         /\ Removed(h).dense \in Seq(Handles) /\ Len(Removed(h).dense) = Len(dense)
         /\ \A k \in 1..Len(dense) :
              Removed(h).dense[k] = IF k = alive THEN GenerationInc(h)
                                    ELSE IF k = rec[h.id] THEN dense[alive] ELSE dense[k]
<1> DEFINE p == rec[h.id]
           g == GenerationInc(h)
           n == Len(dense)
           e == [dense EXCEPT ![p] = dense[alive], ![alive] = g]
<1>1. h.id \in Ids /\ p # 0 /\ p <= alive /\ dense[p] = h
  BY HandleId DEF IsAlive, Exists
<1>2. dense \in Seq(Handles) /\ n \in Nat /\ alive \in 0..n /\ p \in 1..n
  BY <1>1, IndexFacts
<1>3. p \in 1..alive /\ alive \in 1..n /\ DOMAIN dense = 1..n
  BY <1>1, <1>2
<1>4. g \in Handles /\ dense[alive] \in Handles
  BY <1>3, GenerationIs, IndexFacts
<1>5. \A k \in 1..n : dense[k].id = h.id <=> k = p
  BY <1>1, <1>2, IndexFacts
<1>6. Removed(h).dense = e
  BY DEF Removed
<1> HIDE DEF p, g
<1>7. e \in Seq(Handles) /\ Len(e) = n
  BY <1>2, <1>3, <1>4, ExceptSeq
<1>8. \A k \in 1..n : e[k] = IF k = alive THEN g ELSE IF k = p THEN dense[alive] ELSE dense[k]
  BY <1>2, <1>3
<1> QED
  BY <1>1, <1>2, <1>3, <1>5, <1>6, <1>7, <1>8 DEF p, g

\* What remains alive after the deletion of h.
LEMMA DeletedLiving ==
  ASSUME IndexInv, NEW h \in Handles, IsAlive(h), alive' = alive - 1,
         \A k \in 1..alive - 1 : dense'[k] = Removed(h).dense[k]
  PROVE  h \in Living /\ Living' = Living \ {h}
<1> DEFINE p == rec[h.id]
           n == Len(dense)
<1>1. /\ p \in 1..alive /\ alive \in 1..n /\ n \in Nat /\ dense[p] = h
      /\ \A k \in 1..n : dense[k].id = h.id <=> k = p
      /\ \A k \in 1..n : Removed(h).dense[k] = IF k = alive THEN GenerationInc(h)
                                              ELSE IF k = p THEN dense[alive] ELSE dense[k]
  BY RemovedIs
<1> HIDE DEF p
<1>2. \A k \in 1..alive - 1 : dense'[k] = IF k = p THEN dense[alive] ELSE dense[k]
  BY <1>1
<1>3. \A k \in 1..alive : dense[k] = h <=> k = p
  BY <1>1
<1>4. h \in Living
  BY <1>1 DEF Living
<1>5. ASSUME NEW x \in Living' PROVE x \in Living \ {h}
  <2>1. PICK k \in 1..alive - 1 : x = dense'[k]
    BY DEF Living
  <2>2. CASE k = p
    <3>1. x = dense[alive] /\ alive # p /\ alive \in 1..alive
      BY <1>1, <1>2, <2>1, <2>2
    <3> QED
      BY <1>3, <3>1 DEF Living
  <2>3. CASE k # p
    <3>1. x = dense[k] /\ k \in 1..alive
      BY <1>1, <1>2, <2>1, <2>3
    <3> QED
      BY <1>3, <2>3, <3>1 DEF Living
  <2> QED
    BY <2>2, <2>3
<1>6. ASSUME NEW x \in Living \ {h} PROVE x \in Living'
  <2>1. PICK k \in 1..alive : x = dense[k]
    BY DEF Living
  <2>2. k # p
    BY <1>3, <1>6, <2>1
  <2>3. CASE k = alive
    <3>1. p \in 1..alive - 1 /\ dense'[p] = x
      BY <1>1, <1>2, <2>1, <2>2, <2>3
    <3> QED
      BY <3>1 DEF Living
  <2>4. CASE k # alive
    <3>1. k \in 1..alive - 1 /\ dense'[k] = x
      BY <1>1, <1>2, <2>1, <2>2, <2>4
    <3> QED
      BY <3>1 DEF Living
  <2> QED
    BY <2>3, <2>4
<1> QED
  BY <1>4, <1>5, <1>6

\* The ids that are listed do not exist.
LEMMA ListedGone ==
  ASSUME IndexInv, NEW x, Listed(x)
  PROVE  ~Exists(x.id)
  BY DEF Listed, IndexInv, RecycledOnce

LEMMA DeleteInsideEffect ==
  ASSUME IndexInv, NEW h \in Handles, Delete(h), InActive(h.id)
  PROVE  IdEffect /\ IssuedStays
<1> DEFINE n == Len(dense)
           p == rec[h.id]
<1>1. /\ IsAlive(h) /\ alive' = alive - 1 /\ dense' = Removed(h).dense
      /\ ranges' = [m \in DOMAIN ranges |-> ranges[m]]
      /\ dead' = dead \cup {h} /\ UNCHANGED <<maxId, active>>
  BY DEF Delete
<1>2. ranges' = ranges
  BY <1>1 DEF IndexInv, RangesInv
<1>3. h \in Living /\ Living' = Living \ {h}
  BY <1>1, DeletedLiving
<1>4. /\ p \in 1..alive /\ alive \in 1..n /\ n \in Nat /\ Len(dense') = n
      /\ \A k \in 1..n : dense[k].id = h.id <=> k = p
      /\ \A k \in 1..n : dense'[k] = IF k = alive THEN GenerationInc(h)
                                    ELSE IF k = p THEN dense[alive] ELSE dense[k]
  BY <1>1, RemovedIs
<1>5. Exists(h.id)
  BY <1>1 DEF IsAlive
<1> HIDE DEF p
<1>6. ASSUME NEW x \in Handles, Current(x)'
      PROVE  x = GenerationInc(h) \/ (Current(x) /\ x.id # h.id)
  <2>1. CASE Listed(x)'
    <3>1. Listed(x)
      BY <1>2, <2>1 DEF Listed
    <3> QED
      BY <1>5, <3>1, ListedGone DEF Current
  <2>2. CASE ~Listed(x)'
    <3>1. PICK k \in 1..n : x = dense'[k]
      BY <1>4, <1>6, <2>2 DEF Current
    <3>2. CASE k = alive
      BY <1>4, <3>1, <3>2
    <3>3. CASE k # alive /\ k = p
      <4>1. x = dense[alive] /\ alive # p
        BY <1>4, <3>1, <3>3
      <4> QED
        BY <1>4, <4>1 DEF Current
    <3>4. CASE k # alive /\ k # p
      <4>1. x = dense[k]
        BY <1>4, <3>1, <3>4
      <4> QED
        BY <1>4, <3>4, <4>1 DEF Current
    <3> QED
      BY <3>2, <3>3, <3>4
  <2> QED
    BY <2>1, <2>2
<1>7. Deletes(h)
  BY <1>1, <1>3, <1>6 DEF Deletes
<1>8. maxId' \in Nat /\ maxId <= maxId'
  BY <1>1, IndexFacts
<1> QED
  BY <1>1, <1>2, <1>7, <1>8, SteadyIssued DEF IdEffect

LEMMA DeleteOutsideEffect ==
  ASSUME IndexInv, NEW h \in Handles, Delete(h), ~InActive(h.id)
  PROVE  IdEffect /\ IssuedStays
<1> DEFINE n == Len(dense)
           p == rec[h.id]
           g == GenerationInc(h)
           d == Removed(h).dense
           f == [d EXCEPT ![alive] = d[n]]
<1>1. /\ p \in 1..alive /\ alive \in 1..n /\ n \in Nat /\ d \in Seq(Handles) /\ Len(d) = n
      /\ \A k \in 1..n : dense[k].id = h.id <=> k = p
      /\ \A k \in 1..n : d[k] = IF k = alive THEN g ELSE IF k = p THEN dense[alive] ELSE dense[k]
  BY RemovedIs DEF Delete
<1>2. /\ IsAlive(h) /\ alive' = alive - 1
      /\ dense' = SubSeq([d EXCEPT ![alive] = d[Len(d)]], 1, Len(d) - 1)
      /\ DOMAIN ranges' = DOMAIN ranges
      /\ \A m \in DOMAIN ranges :
           ranges'[m] = IF InRange(h.id, m) THEN [ranges[m] EXCEPT !.recycled = Append(@, g)]
                        ELSE ranges[m]
      /\ dead' = dead \cup {h} /\ UNCHANGED <<maxId, active>>
  BY DEF Delete, Dropped
<1> HIDE DEF d, p, g
<1>3. dense' = SubSeq(f, 1, n - 1)
  BY <1>1, <1>2
<1>4. f \in Seq(Handles) /\ Len(f) = n /\ \A k \in 1..n : f[k] = IF k = alive THEN d[n] ELSE d[k]
  <2>1. n \in 1..n /\ DOMAIN d = 1..n
    BY <1>1
  <2>2. d[n] \in Handles
    BY <1>1, <2>1
  <2>3. f \in Seq(Handles) /\ Len(f) = n
    BY <1>1, <2>2, ExceptSeq
  <2>4. \A k \in 1..n : f[k] = IF k = alive THEN d[n] ELSE d[k]
    BY <1>1, <2>1
  <2> QED
    BY <2>3, <2>4
<1> HIDE DEF f
<1>5. Len(dense') = n - 1 /\ \A k \in 1..n - 1 : dense'[k] = f[k]
  <2>1. \A k \in 1..n - 1 : f[k] \in Handles
    BY <1>1, <1>4, Shape
  <2> QED
    BY <1>1, <1>3, <2>1, SubSeqProperties
<1>6. h \in Living /\ Living' = Living \ {h}
  <2>1. \A k \in 1..alive - 1 : dense'[k] = Removed(h).dense[k]
    BY <1>1, <1>4, <1>5 DEF d
  <2> QED
    BY <1>2, <2>1, DeletedLiving
<1>7. Exists(h.id)
  BY <1>2 DEF IsAlive
<1>8. \A m \in DOMAIN ranges :
        /\ ranges[m] \in [max : 0..MaxId, cur : 0..MaxId, recycled : Seq(Handles)]
        /\ ranges[m].recycled \in Seq(Handles)
  BY DEF IndexInv, RangesInv
<1>9. g \in Handles
  BY GenerationIs DEF g
<1>10. ASSUME NEW m \in DOMAIN ranges
       PROVE  /\ ranges'[m].max = ranges[m].max /\ ranges'[m].cur = ranges[m].cur
              /\ \A k \in DOMAIN ranges'[m].recycled :
                   \/ ranges'[m].recycled[k] = g
                   \/ k \in DOMAIN ranges[m].recycled /\ ranges'[m].recycled[k] = ranges[m].recycled[k]
  <2>1. CASE ~InRange(h.id, m)
    BY <1>2, <2>1
  <2>2. CASE InRange(h.id, m)
    <3> DEFINE l == ranges[m].recycled
    <3>1. l \in Seq(Handles)
      BY <1>8
    <3>2. /\ ranges'[m].recycled = Append(l, g)
          /\ ranges'[m].max = ranges[m].max /\ ranges'[m].cur = ranges[m].cur
      BY <1>2, <1>8, <2>2
    <3> HIDE DEF l
    <3>3. /\ Append(l, g) \in Seq(Handles) /\ Len(Append(l, g)) = Len(l) + 1
          /\ Append(l, g)[Len(l) + 1] = g /\ \A j \in 1..Len(l) : Append(l, g)[j] = l[j]
      BY <1>9, <3>1, AppendProperties
    <3>4. Len(l) \in Nat /\ DOMAIN l = 1..Len(l) /\ DOMAIN Append(l, g) = 1..Len(l) + 1
      BY <3>1, <3>3, Shape
    <3>5. ASSUME NEW k \in DOMAIN Append(l, g)
          PROVE  Append(l, g)[k] = g \/ (k \in DOMAIN l /\ Append(l, g)[k] = l[k])
      <4>1. k = Len(l) + 1 \/ k \in 1..Len(l)
        BY <3>4
      <4> QED
        BY <3>3, <3>4, <4>1
    <3> QED
      BY <3>2, <3>5 DEF l
  <2> QED
    BY <2>1, <2>2
<1>11. ASSUME NEW x \in Handles, Current(x)'
       PROVE  x = g \/ (Current(x) /\ x.id # h.id)
  <2>1. CASE Listed(x)'
    <3>1. x = g \/ Listed(x)
      BY <1>2, <1>10, <2>1 DEF Listed
    <3> QED
      BY <1>7, <3>1, ListedGone DEF Current
  <2>2. CASE ~Listed(x)'
    <3>1. PICK k \in 1..n - 1 : x = dense'[k]
      BY <1>5, <1>11, <2>2 DEF Current
    <3>2. \E j \in 1..n : x = dense[j] /\ j # p
      <4>1. CASE k = alive
        <5>1. x = d[n] /\ n # alive /\ n # p /\ n \in 1..n
          BY <1>1, <1>4, <1>5, <3>1, <4>1
        <5> QED
          BY <1>1, <5>1
      <4>2. CASE k # alive /\ k = p
        <5>1. x = dense[alive] /\ alive # p
          BY <1>1, <1>4, <1>5, <3>1, <4>2
        <5> QED
          BY <1>1, <5>1
      <4>3. CASE k # alive /\ k # p
        <5>1. k \in 1..n /\ x = dense[k]
          BY <1>1, <1>4, <1>5, <3>1, <4>3
        <5> QED
          BY <4>3, <5>1
      <4> QED
        BY <4>1, <4>2, <4>3
    <3> QED
      BY <1>1, <3>2 DEF Current
  <2> QED
    BY <2>1, <2>2
<1>12. Deletes(h)
  BY <1>2, <1>6, <1>11 DEF Deletes, g
<1>13. IssuedStays
  <2>1. active # 0
    BY DEF InActive
  <2>2. ASSUME NEW i \in Ids, NEW m \in DOMAIN ranges, InRange(i, m), i <= Top(m)
        PROVE  InRange(i, m)' /\ i <= Top(m)'
    BY <1>2, <1>10, <2>2 DEF InRange, Top
  <2> QED
    BY <1>2, <2>1, <2>2 DEF IssuedStays, Issued
<1> QED
  BY <1>12, <1>13 DEF IdEffect

LEMMA FirstRangeEffect ==
  ASSUME IndexInv, NEW min \in Ids, NEW max \in {0} \cup Ids, RangeNew(min, max),
         FirstRange(min, max)
  PROVE  IdEffect /\ IssuedStays
<1>1. active' = 1 /\ DOMAIN ranges = {} /\ UNCHANGED <<dense, alive, rec, maxId, dead>>
  BY DEF RangeNew, FirstRange
<1>2. active = 0 /\ maxId \in 0..MaxId /\ min \in 1..MaxId /\ max \in 0..MaxId
  BY <1>1 DEF IndexInv, RangesInv, Ids
<1>3. DOMAIN <<>> = {}
  OBVIOUS
<1>4. /\ 1 \in DOMAIN ranges' /\ \A m \in DOMAIN ranges' : ranges'[m].recycled = <<>>
      /\ ranges'[1].max \in 0..MaxId /\ (ranges'[1].max = 0 \/ maxId <= ranges'[1].max)
  <2>1. CASE min = 1
    <3>1. ranges' = [m \in {1} |-> [max |-> max, cur |-> maxId, recycled |-> <<>>]]
          /\ (max = 0 \/ max >= maxId)
      BY <2>1 DEF FirstRange, RangeRecord
    <3> QED
      BY <1>2, <3>1
  <2>2. CASE min # 1
    <3>1. ranges' = [m \in {1, min} |->
                       IF m = 1 THEN [max |-> min - 1, cur |-> maxId, recycled |-> <<>>]
                       ELSE [max |-> max, cur |-> min - 1, recycled |-> <<>>]]
          /\ maxId <= min - 1
      BY <2>2, <1>2 DEF FirstRange, RangeRecord
    <3>2. DOMAIN ranges' = {1, min}
          /\ ranges'[1] = [max |-> min - 1, cur |-> maxId, recycled |-> <<>>]
          /\ ranges'[min] = [max |-> max, cur |-> min - 1, recycled |-> <<>>]
      BY <2>2, <3>1
    <3> QED
      BY <1>2, <3>1, <3>2
  <2> QED
    BY <2>1, <2>2
<1>5. ASSUME NEW i \in Ids, Issued(i) PROVE Issued(i)'
  <2>1. i <= maxId /\ i \in 1..MaxId
    BY <1>2, <1>5 DEF Issued, Ids
  <2>2. InRange(i, 1)' /\ Top(1)' = maxId
    BY <1>1, <1>2, <1>4, <2>1 DEF InRange, Top
  <2> QED
    BY <1>1, <1>4, <2>1, <2>2 DEF Issued
<1>6. Only({})
  BY <1>1, <1>3, <1>4 DEF Only, Current, Listed
<1>7. Keeps
  BY <1>1, <1>6 DEF Keeps, Living
<1> QED
  BY <1>5, <1>7 DEF IdEffect, IssuedStays

LEMMA AnotherRangeEffect ==
  ASSUME IndexInv, NEW min \in Ids, NEW max \in {0} \cup Ids, RangeNew(min, max),
         AnotherRange(min, max)
  PROVE  IdEffect /\ IssuedStays
<1>1. /\ max = 0 \/ max >= min
      /\ DOMAIN ranges # {} /\ UNCHANGED <<dense, alive, rec, maxId, dead, active>>
      /\ ranges' = [m \in DOMAIN ranges \cup {min} |->
                      IF m = min THEN [max |-> max, cur |-> min - 1, recycled |-> <<>>]
                      ELSE ranges[m]]
      /\ \A m \in DOMAIN ranges : ~Overlap(min, max, m)
  BY DEF RangeNew, AnotherRange, RangeRecord
<1>2. active # 0 /\ min \in 1..MaxId /\ max \in 0..MaxId
  <2>1. RangesInv
    BY DEF IndexInv
  <2>2. active # 0
    BY <1>1, <2>1 DEF RangesInv
  <2> QED
    BY <2>2 DEF Ids
<1>3. min \notin DOMAIN ranges
  <2> SUFFICES ASSUME min \in DOMAIN ranges PROVE FALSE
    OBVIOUS
  <2>1. ranges[min].max \in 0..MaxId /\ (ranges[min].max = 0 \/ min <= ranges[min].max)
    BY DEF IndexInv, RangesInv
  <2>2. ~Overlap(min, max, min)
    BY <1>1
  <2> QED
    BY <1>1, <1>2, <2>1, <2>2 DEF Overlap
<1>4. /\ \A m \in DOMAIN ranges : m \in DOMAIN ranges' /\ ranges'[m] = ranges[m]
      /\ ranges'[min].recycled = <<>> /\ DOMAIN ranges' = DOMAIN ranges \cup {min}
  BY <1>1, <1>3
<1>5. ASSUME NEW i \in Ids, Issued(i) PROVE Issued(i)'
  <2>1. PICK m \in DOMAIN ranges : InRange(i, m) /\ i <= Top(m)
    BY <1>2, <1>5 DEF Issued
  <2>2. InRange(i, m)' /\ i <= Top(m)'
    BY <1>1, <1>4, <2>1 DEF InRange, Top
  <2> QED
    BY <1>1, <1>2, <1>4, <2>2 DEF Issued
<1>6. DOMAIN <<>> = {}
  OBVIOUS
<1>7. \A x : Listed(x)' => Listed(x)
  BY <1>4, <1>6 DEF Listed
<1>8. Only({})
  BY <1>1, <1>7 DEF Only, Current
<1>9. Keeps
  BY <1>1, <1>8 DEF Keeps, Living
<1> QED
  BY <1>5, <1>9 DEF IdEffect, IssuedStays

LEMMA SetRangeEffect ==
  ASSUME IndexInv, NEW m \in Ids, SetRange(m)
  PROVE  IdEffect /\ IssuedStays
<1> DEFINE n == Len(dense)
           tail == SubSeq(dense, alive + 1, n)
           head == SubSeq(dense, 1, alive)
           l == Saved[m].recycled
<1>1. RangesInv /\ m \in DOMAIN ranges /\ active # 0 /\ active \in DOMAIN ranges
  BY DEF IndexInv, RangesInv, SetRange
<1>2. \A r \in DOMAIN ranges :
        /\ ranges[r] \in [max : 0..MaxId, cur : 0..MaxId, recycled : Seq(Handles)]
        /\ ranges[r].recycled \in Seq(Handles)
  BY <1>1 DEF RangesInv
<1>3. n \in Nat /\ alive \in 0..n /\ dense \in Seq(Handles) /\ \A k \in 1..n : dense[k] \in Handles
  BY IndexFacts
<1>4. /\ alive' = alive /\ dead' = dead /\ active' = m /\ dense' = head \o l
      /\ ranges' = [Saved EXCEPT ![m].recycled = <<>>] /\ maxId' = Saved[m].cur
  BY DEF SetRange
<1>5. /\ DOMAIN Saved = DOMAIN ranges
      /\ Saved[active] = [max |-> ranges[active].max, cur |-> maxId, recycled |-> tail]
      /\ \A k \in DOMAIN ranges : k # active => Saved[k] = ranges[k]
  BY <1>1, <1>2 DEF Saved
<1>6. /\ tail \in Seq(Handles) /\ \A k \in DOMAIN tail : \E j \in 1..n : tail[k] = dense[j]
  <2> DEFINE a == alive + 1
  <2>1. a \in Int /\ n \in Int /\ a >= 1 /\ \A k \in a..n : dense[k] \in Handles
    BY <1>3
  <2>2. tail = SubSeq(dense, a, n)
    OBVIOUS
  <2> HIDE DEF a, tail
  <2>3. /\ tail \in Seq(Handles) /\ Len(tail) = IF a <= n THEN n - a + 1 ELSE 0
        /\ \A k \in 1..n - a + 1 : tail[k] = dense[a + k - 1]
    BY <2>1, <2>2, SubSeqProperties
  <2>4. DOMAIN tail = 1..Len(tail)
    BY <2>3
  <2>5. ASSUME NEW k \in 1..Len(tail) PROVE \E j \in 1..n : tail[k] = dense[j]
    <3>1. k \in 1..n - a + 1 /\ a + k - 1 \in 1..n
      BY <2>1, <2>3
    <3> QED
      BY <2>3, <3>1
  <2> QED
    BY <2>3, <2>4, <2>5
<1> HIDE DEF tail
<1>7. ASSUME NEW r \in DOMAIN ranges
      PROVE  /\ Saved[r] \in [max : 0..MaxId, cur : 0..MaxId, recycled : Seq(Handles)]
             /\ Saved[r].recycled \in Seq(Handles)
             /\ Saved[r].max = ranges[r].max /\ Saved[r].cur = Top(r)
             /\ \A k \in DOMAIN Saved[r].recycled : Current(Saved[r].recycled[k])
  <2>1. CASE r = active
    <3>1. Saved[r] = [max |-> ranges[r].max, cur |-> maxId, recycled |-> tail] /\ Top(r) = maxId
      BY <2>1, <1>5 DEF Top
    <3>2. ranges[r].max \in 0..MaxId /\ maxId \in 0..MaxId
      BY <1>2, IndexFacts
    <3>3. \A k \in DOMAIN tail : Current(tail[k])
      BY <1>6 DEF Current
    <3> QED
      BY <3>1, <3>2, <3>3, <1>6
  <2>2. CASE r # active
    <3>1. Saved[r] = ranges[r] /\ Top(r) = ranges[r].cur
      BY <2>2, <1>5 DEF Top
    <3>2. \A k \in DOMAIN ranges[r].recycled : Current(ranges[r].recycled[k])
      BY DEF Current, Listed
    <3> QED
      BY <3>1, <3>2, <1>2
  <2> QED
    BY <2>1, <2>2
<1>8. l \in Seq(Handles) /\ \A k \in 1..Len(l) : Current(l[k])
  BY <1>1, <1>7
<1> HIDE DEF l
<1>9. head \in Seq(Handles) /\ Len(head) = alive /\ \A k \in 1..alive : head[k] = dense[k]
  <2>1. \A k \in 1..alive : dense[k] \in Handles
    BY <1>3
  <2>2. /\ head \in Seq(Handles) /\ Len(head) = (IF 1 <= alive THEN alive - 1 + 1 ELSE 0)
        /\ \A k \in 1..alive - 1 + 1 : head[k] = dense[1 + k - 1]
    BY <1>3, <2>1, SubSeqProperties
  <2> HIDE DEF head
  <2> QED
    BY <1>3, <2>2
<1> HIDE DEF head
<1>10. /\ Len(dense') = alive + Len(l) /\ Len(l) \in Nat
       /\ \A k \in 1..alive + Len(l) : dense'[k] = IF k <= alive THEN head[k] ELSE l[k - alive]
  BY <1>4, <1>8, <1>9, ConcatProperties
<1>11. Living' = Living
  <2>1. \A k \in 1..alive : dense'[k] = dense[k]
    BY <1>3, <1>9, <1>10
  <2> QED
    BY <1>4, <2>1, LivingSame
<1>12. /\ DOMAIN ranges' = DOMAIN ranges
       /\ \A r \in DOMAIN ranges : r # m => ranges'[r] = Saved[r]
       /\ ranges'[m].recycled = <<>> /\ ranges'[m].max = Saved[m].max /\ ranges'[m].cur = Saved[m].cur
  <2>1. ranges'[m] = [Saved[m] EXCEPT !.recycled = <<>>]
    BY <1>1, <1>4, <1>5
  <2>2. Saved[m] \in [max : 0..MaxId, cur : 0..MaxId, recycled : Seq(Handles)]
    BY <1>1, <1>7
  <2>3. DOMAIN ranges' = DOMAIN ranges /\ \A r \in DOMAIN ranges : r # m => ranges'[r] = Saved[r]
    BY <1>4, <1>5
  <2> QED
    BY <2>1, <2>2, <2>3
<1>13. DOMAIN <<>> = {}
  OBVIOUS
<1>14. ASSUME NEW x \in Handles, Current(x)' PROVE Current(x)
  <2>1. CASE Listed(x)'
    <3>1. PICK r \in DOMAIN ranges : \E k \in DOMAIN ranges'[r].recycled : ranges'[r].recycled[k] = x
      BY <1>12, <2>1 DEF Listed
    <3>2. r # m /\ ranges'[r] = Saved[r]
      BY <1>12, <1>13, <3>1
    <3> QED
      BY <1>7, <3>1, <3>2
  <2>2. CASE ~Listed(x)'
    <3>1. PICK k \in 1..alive + Len(l) : x = dense'[k]
      BY <1>10, <1>14, <2>2 DEF Current
    <3>2. CASE k <= alive
      <4>1. k \in 1..n /\ x = dense[k]
        BY <1>3, <1>9, <1>10, <3>1, <3>2
      <4> QED
        BY <4>1 DEF Current
    <3>3. CASE k > alive
      <4>1. k - alive \in 1..Len(l) /\ x = l[k - alive]
        BY <1>3, <1>10, <3>1, <3>3
      <4> QED
        BY <1>8, <4>1
    <3> QED
      BY <1>3, <3>2, <3>3
  <2> QED
    BY <2>1, <2>2
<1>15. Keeps
  BY <1>4, <1>11, <1>14 DEF Keeps, Only
<1>16. ASSUME NEW r \in DOMAIN ranges
       PROVE  ranges'[r].max = ranges[r].max /\ Top(r)' = Top(r)
  <2>1. CASE r = m
    BY <1>4, <1>7, <1>12, <2>1 DEF Top
  <2>2. CASE r # m
    BY <1>4, <1>7, <1>12, <2>2 DEF Top
  <2> QED
    BY <2>1, <2>2
<1>17. ASSUME NEW i \in Ids, Issued(i) PROVE Issued(i)'
  <2>1. PICK r \in DOMAIN ranges : InRange(i, r) /\ i <= Top(r)
    BY <1>1, <1>17 DEF Issued
  <2>2. InRange(i, r)' /\ i <= Top(r)'
    BY <1>16, <2>1 DEF InRange
  <2>3. active' # 0 /\ r \in DOMAIN ranges'
    BY <1>4, <1>12 DEF Ids
  <2> QED
    BY <2>2, <2>3 DEF Issued
<1> QED
  BY <1>15, <1>17 DEF IdEffect, IssuedStays

(***************************************************************************)
(* The theorem                                                             *)
(***************************************************************************)
LEMMA NextEffect ==
  ASSUME Asserts, Polite, IndexInv, DeadInv, [Next]_vars
  PROVE  IdEffect /\ IssuedStays
<1>1. CASE New
  BY <1>1, RecycleEffect, NewIdEffect DEF New
<1>2. ASSUME NEW count \in 1..MaxBulk, NewIds(count) PROVE IdEffect /\ IssuedStays
  BY <1>2, NewIdsEffect
<1>3. ASSUME NEW h \in Handles, MakeAlive(h) PROVE IdEffect /\ IssuedStays
  BY <1>3, MakeAliveEffect
<1>4. ASSUME NEW h \in Handles, SetVersion(h) PROVE IdEffect /\ IssuedStays
  BY <1>4, SetVersionEffect
<1>5. ASSUME NEW h \in Handles, Delete(h) PROVE IdEffect /\ IssuedStays
  BY <1>5, DeleteInsideEffect, DeleteOutsideEffect
<1>6. ASSUME NEW min \in Ids, NEW max \in {0} \cup Ids, RangeNew(min, max)
      PROVE  IdEffect /\ IssuedStays
  <2>1. FirstRange(min, max) \/ AnotherRange(min, max)
    BY <1>6 DEF RangeNew
  <2> QED
    BY <2>1, <1>6, FirstRangeEffect, AnotherRangeEffect
<1>7. ASSUME NEW m \in Ids, SetRange(m) PROVE IdEffect /\ IssuedStays
  BY <1>7, SetRangeEffect
<1>8. CASE UNCHANGED vars
  <2>1. Keeps
    BY <1>8 DEF vars, Keeps, Only, Current, Listed, Living
  <2>2. IssuedStays
    BY <1>8 DEF vars, IssuedStays, Issued, Top, InRange
  <2> QED
    BY <2>1, <2>2 DEF IdEffect
<1> QED
  BY <1>1, <1>2, <1>3, <1>4, <1>5, <1>6, <1>7, <1>8 DEF Next

LEMMA NextDead ==
  ASSUME Asserts, Polite, IndexInv, DeadInv, [Next]_vars
  PROVE  DeadInv' /\ [E!Next]_E!vars
<1>1. IdEffect /\ IssuedStays
  BY NextEffect
<1>2. DeadInv'
  BY <1>1, CreatesDead, ClaimsDead, DeletesDead, KeepsDead DEF IdEffect
<1>3. [E!Next]_E!vars
  BY <1>1, EffectRefines
<1> QED
  BY <1>2, <1>3

LEMMA InitDead ==
  ASSUME Init
  PROVE  DeadInv /\ E!Init
<1>1. dense = <<>> /\ alive = 0 /\ DOMAIN ranges = {} /\ dead = {}
  BY DEF Init
<1>2. Living = {}
  BY <1>1 DEF Living
<1>3. \A h \in Handles : Trails(h, dead)
  BY <1>1, TrailsNone
<1> QED
  BY <1>1, <1>2, <1>3 DEF DeadInv, E!Init, Living

\* In a build with assertions whose application makes alive only ids of the
\* active range, a handle is never issued while it is alive, nor after it was
\* deleted unless all generations of its id were deleted as well.
THEOREM HandlesAreNotReissued ==
  ASSUME Asserts, Polite
  PROVE  Spec => ImplementsEntityIds
<1>1. Init => IndexInv /\ DeadInv /\ E!Init
  BY InitIndex, InitDead
<1>2. IndexInv /\ DeadInv /\ [Next]_vars => (IndexInv /\ DeadInv)' /\ [E!Next]_E!vars
  BY NextIndex, NextDead
<1> QED
  BY <1>1, <1>2, PTL DEF Spec, ImplementsEntityIds, E!Spec
=============================================================================
