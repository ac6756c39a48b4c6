----------------------------- MODULE MvccProofs -----------------------------
(***************************************************************************)
(* Proofs about the snapshots of the transaction manager, for any number   *)
(* of transactions, depth of nesting and workload: the references of a     *)
(* finished writer are the snapshots that saw it live.                     *)
(***************************************************************************)
EXTENDS Mvcc, FiniteSetTheorems, NaturalsInduction, WellFoundedInduction, TLAPS

(* The least and the greatest of a set of numbers *)

LEMMA LeastExists ==
  ASSUME NEW S \in SUBSET Nat, S # {}
  PROVE  \E x \in S : \A y \in S : x <= y
<1>1. PICK x \in S : \A y \in S : ~ (<<y, x>> \in OpToRel(<, Nat))
  BY NatLessThanWellFounded, WFMin
<1>2. ASSUME NEW y \in S PROVE x <= y
  <2>1. x \in Nat /\ y \in Nat OBVIOUS
  <2>2. ~ (y < x) BY <1>1, <2>1 DEF OpToRel
  <2>3. QED BY <2>1, <2>2
<1>3. QED BY <1>2

LEMMA LeastIs ==
  ASSUME NEW S \in SUBSET Nat, S # {}
  PROVE  Min(S) \in S /\ \A y \in S : Min(S) <= y
BY LeastExists DEF Min

\* A set of numbers with an upper bound has a greatest one.
LEMMA GreatestExists ==
  ASSUME NEW S \in SUBSET Nat, NEW n \in Nat, S # {}, \A x \in S : x <= n
  PROVE  \E x \in S : \A y \in S : x >= y
<1> DEFINE B == {m \in Nat : \A x \in S : x <= m}
<1>1. PICK m \in B : \A k \in B : m <= k
  <2>1. B \in SUBSET Nat /\ n \in B OBVIOUS
  <2>2. QED BY <2>1, LeastExists
<1>2. m \in S
  <2>1. SUFFICES ASSUME m \notin S PROVE FALSE OBVIOUS
  <2>2. PICK s \in S : TRUE OBVIOUS
  <2>3. m \in Nat /\ s \in Nat /\ s <= m /\ s # m BY <2>1
  <2>4. m - 1 \in Nat BY <2>3
  <2>5. ASSUME NEW x \in S PROVE x <= m - 1
    <3>1. x \in Nat /\ x <= m /\ x # m BY <2>1
    <3>2. QED BY <3>1, <2>3
  <2>6. m <= m - 1 BY <2>4, <2>5, <1>1
  <2>7. QED BY <2>6, <2>3
<1>3. QED BY <1>2

LEMMA GreatestIs ==
  ASSUME NEW S \in SUBSET Nat, NEW n \in Nat, S # {}, \A x \in S : x <= n
  PROVE  Max(S) \in S /\ \A y \in S : Max(S) >= y
BY GreatestExists DEF Max

-----------------------------------------------------------------------------
(* The list of snapshots *)

LEMMA InRange ==
  ASSUME NEW snaps \in Seq(Snapshot)
  PROVE  /\ \A i \in DOMAIN snaps : snaps[i] \in Range(snaps) /\ snaps[i] \in Snapshot
         /\ \A s \in Range(snaps) : s \in Snapshot /\ \E i \in DOMAIN snaps : s = snaps[i]
         /\ DOMAIN snaps = 1 .. Len(snaps) /\ Len(snaps) \in Nat
BY DEF Range

LEMMA RangeFinite ==
  ASSUME NEW snaps \in Seq(Snapshot)
  PROVE  IsFiniteSet(Range(snaps))
<1>1. DOMAIN snaps = 1 .. Len(snaps) /\ Len(snaps) \in Nat OBVIOUS
<1>2. IsFiniteSet(DOMAIN snaps) BY <1>1, FS_Interval
<1>3. snaps \in Surjection(DOMAIN snaps, Range(snaps)) BY DEF Range, Surjection
<1>4. QED BY <1>2, <1>3, FS_Surjection

LEMMA AppendSnapshot ==
  ASSUME NEW snaps \in Seq(Snapshot), NEW s \in Snapshot
  PROVE  /\ Append(snaps, s) \in Seq(Snapshot)
         /\ Range(Append(snaps, s)) = Range(snaps) \cup {s}
         /\ Increasing(snaps) /\ (\A e \in Range(snaps) : e.id < s.id)
              => Increasing(Append(snaps, s))
<1> DEFINE new == Append(snaps, s)
<1>1. /\ new \in Seq(Snapshot) /\ Len(snaps) \in Nat /\ Len(new) = Len(snaps) + 1
      /\ DOMAIN snaps = 1 .. Len(snaps) /\ DOMAIN new = 1 .. Len(snaps) + 1
      /\ \A i \in 1 .. Len(snaps) : new[i] = snaps[i]
      /\ new[Len(snaps) + 1] = s
  OBVIOUS
<1> HIDE DEF new
<1>2. Range(new) = Range(snaps) \cup {s}
  <2>1. ASSUME NEW e \in Range(new) PROVE e \in Range(snaps) \cup {s}
    <3>1. PICK i \in DOMAIN new : e = new[i] BY <2>1 DEF Range
    <3>2. CASE i = Len(snaps) + 1 BY <3>1, <3>2, <1>1
    <3>3. CASE i \in 1 .. Len(snaps) BY <3>1, <3>3, <1>1 DEF Range
    <3>4. QED BY <3>2, <3>3, <1>1
  <2>2. ASSUME NEW e \in Range(snaps) PROVE e \in Range(new)
    <3>1. PICK i \in DOMAIN snaps : e = snaps[i] BY <2>2 DEF Range
    <3>2. i \in DOMAIN new /\ new[i] = e BY <3>1, <1>1
    <3>3. QED BY <3>2 DEF Range
  <2>3. s \in Range(new)
    <3>1. Len(snaps) + 1 \in DOMAIN new BY <1>1
    <3>2. QED BY <3>1, <1>1 DEF Range
  <2>4. QED BY <2>1, <2>2, <2>3
<1>3. ASSUME Increasing(snaps), \A e \in Range(snaps) : e.id < s.id,
             NEW i \in DOMAIN new, NEW j \in DOMAIN new, i < j
      PROVE  new[i].id < new[j].id
  <2>1. i \in DOMAIN snaps /\ new[i] = snaps[i] /\ snaps[i] \in Range(snaps)
    BY <1>1, <1>3 DEF Range
  <2>2. CASE j = Len(snaps) + 1 BY <2>1, <2>2, <1>1, <1>3
  <2>3. CASE j \in DOMAIN snaps BY <2>1, <2>3, <1>1, <1>3 DEF Increasing
  <2>4. QED BY <2>2, <2>3, <1>1
<1>4. Increasing(snaps) /\ (\A e \in Range(snaps) : e.id < s.id) => Increasing(new)
  BY <1>3 DEF Increasing
<1>5. QED BY <1>1, <1>2, <1>4 DEF new

LEMMA RemoveSnapshot ==
  ASSUME NEW snaps \in Seq(Snapshot), Increasing(snaps), NEW k \in DOMAIN snaps
  PROVE  /\ RemoveAt(snaps, k) \in Seq(Snapshot)
         /\ Range(RemoveAt(snaps, k)) = Range(snaps) \ {snaps[k]}
         /\ Increasing(RemoveAt(snaps, k))
<1> DEFINE n == Len(snaps)
           new == RemoveAt(snaps, k)
           At(i) == IF i < k THEN i ELSE i + 1
<1>1. n \in Nat /\ DOMAIN snaps = 1 .. n /\ k \in 1 .. n OBVIOUS
<1>2. /\ new \in Seq(Snapshot) /\ Len(new) = n - 1
      /\ \A i \in 1 .. n - 1 : new[i] = snaps[At(i)]
  <2>1. PICK a : a = SubSeq(snaps, 1, k - 1) OBVIOUS
  <2>2. PICK b : b = SubSeq(snaps, k + 1, n) OBVIOUS
  <2>3. a \in Seq(Snapshot) /\ Len(a) = k - 1 /\ \A i \in 1 .. k - 1 : a[i] = snaps[i]
    BY <1>1, <2>1
  <2>4. b \in Seq(Snapshot) /\ Len(b) = n - k /\ \A i \in 1 .. n - k : b[i] = snaps[k + i]
    BY <1>1, <2>2
  <2>5. new = a \o b BY <2>1, <2>2 DEF RemoveAt
  <2>6. new \in Seq(Snapshot) /\ Len(new) = n - 1
    <3>0. a \in Seq(Snapshot) /\ b \in Seq(Snapshot) BY <2>3, <2>4
    <3>1. a \o b \in Seq(Snapshot) /\ Len(a \o b) = Len(a) + Len(b) BY ONLY <3>0
    <3>2. Len(a) + Len(b) = n - 1 BY <2>3, <2>4, <1>1
    <3>3. QED BY <3>1, <3>2, <2>5
  <2>7. ASSUME NEW i \in 1 .. n - 1 PROVE new[i] = snaps[At(i)]
    <3>1. new[i] = IF i <= Len(a) THEN a[i] ELSE b[i - Len(a)] BY <2>3, <2>4, <2>5, <2>7, <1>1
    <3>2. CASE i < k BY <3>1, <3>2, <2>3, <1>1
    <3>3. CASE ~ (i < k)
      <4>1. i - (k - 1) \in 1 .. n - k /\ k + (i - (k - 1)) = i + 1 BY <3>3, <1>1
      <4>2. b[i - (k - 1)] = snaps[i + 1] BY <4>1, <2>4
      <4>3. QED BY <4>2, <3>1, <3>3, <2>3, <1>1
    <3>4. QED BY <3>2, <3>3
  <2>8. QED BY <2>6, <2>7
<1>3. DOMAIN new = 1 .. n - 1 BY <1>2
<1>4. \A i \in 1 .. n - 1 : At(i) \in 1 .. n /\ At(i) # k BY <1>1
<1>5. \A i, j \in 1 .. n - 1 : i < j => At(i) < At(j) BY <1>1
<1>6. \A i \in 1 .. n : i # k => \E j \in 1 .. n - 1 : At(j) = i
  <2>1. ASSUME NEW i \in 1 .. n, i # k PROVE \E j \in 1 .. n - 1 : At(j) = i
    <3>1. CASE i < k
      <4>1. i \in 1 .. n - 1 /\ At(i) = i BY <3>1, <1>1
      <4>2. QED BY <4>1
    <3>2. CASE ~ (i < k)
      <4>1. i - 1 \in 1 .. n - 1 /\ At(i - 1) = i BY <3>2, <2>1, <1>1
      <4>2. QED BY <4>1
    <3>3. QED BY <3>1, <3>2
  <2>2. QED BY <2>1
<1>7. \A i, j \in 1 .. n : snaps[i] = snaps[j] => i = j
  <2>1. ASSUME NEW i \in 1 .. n, NEW j \in 1 .. n, snaps[i] = snaps[j], i < j PROVE FALSE
    <3>1. snaps[i].id < snaps[j].id BY <2>1, <1>1 DEF Increasing
    <3>2. snaps[i] \in Snapshot BY <1>1, <2>1
    <3>3. snaps[i].id \in Nat BY <3>2 DEF Snapshot
    <3>4. QED BY <3>1, <3>3, <2>1
  <2>2. ASSUME NEW i \in 1 .. n, NEW j \in 1 .. n, snaps[i] = snaps[j] PROVE i = j
    <3>1. ~ (i < j) /\ ~ (j < i) BY <2>1, <2>2
    <3>2. QED BY <3>1, <1>1
  <2>3. QED BY <2>2
<1> HIDE DEF new, At, n
<1>8. Range(new) = Range(snaps) \ {snaps[k]}
  <2>1. ASSUME NEW e \in Range(new) PROVE e \in Range(snaps) \ {snaps[k]}
    <3>1. PICK i \in 1 .. n - 1 : e = new[i] BY <2>1, <1>3 DEF Range
    <3>2. e = snaps[At(i)] /\ At(i) \in DOMAIN snaps /\ At(i) # k BY <3>1, <1>1, <1>2, <1>4
    <3>3. e # snaps[k] BY <3>2, <1>1, <1>7
    <3>4. QED BY <3>2, <3>3 DEF Range
  <2>2. ASSUME NEW e \in Range(snaps), e # snaps[k] PROVE e \in Range(new)
    <3>1. PICK i \in 1 .. n : e = snaps[i] BY <2>2, <1>1 DEF Range
    <3>2. PICK j \in 1 .. n - 1 : At(j) = i BY <3>1, <2>2, <1>6
    <3>3. new[j] = e /\ j \in DOMAIN new BY <3>1, <3>2, <1>2, <1>3
    <3>4. QED BY <3>3 DEF Range
  <2>3. QED BY <2>1, <2>2
<1>9. Increasing(new)
  <2>1. ASSUME NEW i \in 1 .. n - 1, NEW j \in 1 .. n - 1, i < j PROVE new[i].id < new[j].id
    <3>1. At(i) \in DOMAIN snaps /\ At(j) \in DOMAIN snaps /\ At(i) < At(j)
      BY <2>1, <1>1, <1>4, <1>5
    <3>2. snaps[At(i)].id < snaps[At(j)].id BY <3>1 DEF Increasing
    <3>3. QED BY <3>2, <1>2
  <2>2. QED BY <2>1, <1>3 DEF Increasing
<1>10. QED BY <1>2, <1>8, <1>9 DEF new

\* The walk from the tail counts the snapshots taken after x, because they are in order.
LEMMA ReferencesCounted ==
  ASSUME NEW snaps \in Seq(Snapshot), Increasing(snaps), NEW x \in Nat
  PROVE  /\ NumReferences(snaps, x) = Cardinality({s \in Range(snaps) : s.id > x})
         /\ NumReferences(snaps, x) \in Nat
<1> DEFINE n == Len(snaps)
           older == {i \in DOMAIN snaps : snaps[i].id <= x}
           m == IF older = {} THEN 0 ELSE Max(older)
           young == {s \in Range(snaps) : s.id > x}
<1>1. n \in Nat /\ DOMAIN snaps = 1 .. n /\ older \in SUBSET (1 .. n) OBVIOUS
<1>2. \A i \in 1 .. n : snaps[i] \in Snapshot /\ snaps[i].id \in Nat
  <2>1. \A i \in 1 .. n : snaps[i] \in Snapshot BY <1>1, InRange
  <2>2. \A s \in Snapshot : s.id \in Nat BY DEF Snapshot
  <2>3. QED BY <2>1, <2>2
<1>3. m \in 0 .. n /\ \A i \in 1 .. n : i > m => snaps[i].id > x
  <2>1. CASE older = {}
    <3>1. \A i \in 1 .. n : ~ (snaps[i].id <= x) BY <2>1, <1>1
    <3>2. QED BY <3>1, <2>1, <1>1, <1>2
  <2>2. CASE older # {}
    <3>1. older \in SUBSET Nat /\ \A i \in older : i <= n BY <1>1
    <3>2. Max(older) \in older /\ \A i \in older : Max(older) >= i
      BY <3>1, <2>2, <1>1, GreatestIs
    <3>3. ASSUME NEW i \in 1 .. n, i > m PROVE snaps[i].id > x
      <4>0. m = Max(older) /\ m \in Nat BY <3>1, <3>2, <2>2
      <4>1. i \notin older
        <5>1. Max(older) >= i => ~ (i > m) BY <4>0, <3>3
        <5>2. QED BY <5>1, <3>2, <3>3
      <4>2. QED BY <4>1, <1>1, <1>2, <3>3
    <3>4. QED BY <3>2, <3>3, <2>2, <1>1
  <2>3. QED BY <2>1, <2>2
<1>4. \A i \in 1 .. n : i <= m => snaps[i].id <= x
  <2>1. ASSUME NEW i \in 1 .. n, i <= m PROVE snaps[i].id <= x
    <3>1. older # {} /\ m = Max(older) BY <2>1, <1>1
    <3>2. m \in older
      <4>1. older \in SUBSET Nat /\ \A j \in older : j <= n BY <1>1
      <4>2. QED BY <4>1, <3>1, <1>1, GreatestIs
    <3>3. m \in 1 .. n /\ snaps[m].id <= x BY <3>2, <1>1
    <3>4. i = m \/ i < m BY <2>1, <3>3
    <3>5. i < m => snaps[i].id < snaps[m].id BY <3>3, <2>1, <1>1 DEF Increasing
    <3>6. snaps[i].id \in Nat /\ snaps[m].id \in Nat BY <1>2, <3>3, <2>1
    <3>7. CASE i = m BY <3>3, <3>7
    <3>8. CASE i < m
      <4>1. \A a, b \in Nat : a < b /\ b <= x => a <= x OBVIOUS
      <4>2. QED BY <3>3, <3>5, <3>6, <3>8, <4>1
    <3>9. QED BY <3>4, <3>7, <3>8
  <2>2. QED BY <2>1
<1>5. NumReferences(snaps, x) = n - m BY DEF NumReferences
<1> HIDE DEF n, older, m
<1> DEFINE f == [i \in m + 1 .. n |-> snaps[i]]
<1>6. f \in Bijection(m + 1 .. n, young)
  <2>1. \A i \in m + 1 .. n : i \in 1 .. n /\ i > m BY <1>1, <1>3
  <2>2. \A i \in m + 1 .. n : f[i] \in young
    <3>1. ASSUME NEW i \in m + 1 .. n PROVE f[i] \in young
      <4>1. i \in DOMAIN snaps /\ snaps[i].id > x BY <2>1, <1>1, <1>3
      <4>2. snaps[i] \in Range(snaps) BY <4>1 DEF Range
      <4>3. f[i] = snaps[i] OBVIOUS
      <4>4. QED BY <4>1, <4>2, <4>3
    <3>2. QED BY <3>1
  <2>3. f \in [m + 1 .. n -> young] BY <2>2
  <2>4. ASSUME NEW i \in m + 1 .. n, NEW j \in m + 1 .. n, f[i] = f[j], i < j PROVE FALSE
    <3>1. i \in DOMAIN snaps /\ j \in DOMAIN snaps BY <2>1, <1>1
    <3>2. snaps[i].id < snaps[j].id BY <3>1, <2>4 DEF Increasing
    <3>3. snaps[i] = snaps[j] BY <2>4
    <3>4. snaps[i].id \in Nat BY <3>1, <1>1, <1>2
    <3>5. QED BY <3>2, <3>3, <3>4
  <2>5. \A i, j \in m + 1 .. n : f[i] = f[j] => i = j
    <3>1. ASSUME NEW i \in m + 1 .. n, NEW j \in m + 1 .. n, f[i] = f[j] PROVE i = j
      <4>1. ~ (i < j) BY <2>4, <3>1
      <4>2. ~ (j < i) BY <2>4, <3>1
      <4>3. i \in Nat /\ j \in Nat BY <1>1, <1>3
      <4>4. QED BY <4>1, <4>2, <4>3
    <3>2. QED BY <3>1
  <2>6. \A s \in young : \E i \in m + 1 .. n : f[i] = s
    <3>1. ASSUME NEW s \in young PROVE \E i \in m + 1 .. n : f[i] = s
      <4>1. PICK i \in 1 .. n : s = snaps[i] BY <1>1 DEF Range
      <4>2. ~ (i <= m)
        <5>1. snaps[i].id > x /\ snaps[i].id \in Nat BY <4>1, <1>2
        <5>2. QED BY <5>1, <1>4, <4>1
      <4>3. i \in m + 1 .. n BY <4>1, <4>2, <1>1, <1>3
      <4>4. QED BY <4>1, <4>3
    <3>2. QED BY <3>1
  <2> HIDE DEF f, young
  <2>7. f \in Injection(m + 1 .. n, young) BY <2>3, <2>5, DOMAIN f = m + 1 .. n DEF Injection, IsInjective
  <2>8. f \in Surjection(m + 1 .. n, young) BY <2>3, <2>6 DEF Surjection
  <2>9. QED BY <2>7, <2>8 DEF Bijection
<1>7. IsFiniteSet(m + 1 .. n) /\ Cardinality(m + 1 .. n) = n - m
  <2>1. m + 1 \in Int /\ n \in Int /\ (m + 1 > n => n - m = 0) BY <1>1, <1>3
  <2>2. IsFiniteSet(m + 1 .. n) /\ Cardinality(m + 1 .. n) = IF m + 1 > n THEN 0 ELSE n - (m + 1) + 1
    BY <2>1, FS_Interval
  <2>3. n - (m + 1) + 1 = n - m BY <1>1, <1>3
  <2>4. QED BY <2>1, <2>2, <2>3
<1>8. ExistsBijection(m + 1 .. n, young) BY <1>6 DEF ExistsBijection
<1>9. Cardinality(young) = n - m BY <1>7, <1>8, FS_Bijection
<1>10. n - m \in Nat BY <1>1, <1>3
<1>11. QED BY <1>5, <1>9, <1>10

-----------------------------------------------------------------------------
(* What a step leaves *)

LEMMA SnapsDef ==
  ASSUME ManagerTypeOK
  PROVE  /\ Snaps = Range(snapshots) /\ IsFiniteSet(Snaps)
         /\ \A s \in Snaps : s \in Snapshot /\ s.id \in Nat /\ s.depth \in Nat /\ s.txn \in Txn
                             /\ s.list \in SUBSET Nat
         /\ \A x : IsFiniteSet(With(x)) /\ With(x) \subseteq Snaps
<1>1. snapshots \in Seq(Snapshot) BY DEF ManagerTypeOK
<1>2. IsFiniteSet(Snaps) BY <1>1, RangeFinite DEF Snaps
<1>3. \A s \in Snaps : s \in Snapshot BY <1>1, InRange DEF Snaps
<1>4. \A s \in Snapshot : s.id \in Nat /\ s.depth \in Nat /\ s.txn \in Txn /\ s.list \in SUBSET Nat
  BY DEF Snapshot
<1>5. \A x : With(x) \subseteq Snaps BY DEF With
<1>6. \A x : IsFiniteSet(With(x)) BY <1>2, <1>5, FS_Subset
<1>7. QED BY <1>2, <1>3, <1>4, <1>5, <1>6 DEF Snaps

LEMMA TxnDef ==
  ASSUME ManagerTypeOK, NEW t \in Txn
  PROVE  /\ txn[t] \in TxnRecord /\ txn[t].xid \in Nat /\ txn[t].type \in SnapshotType
         /\ txn[t].ro \in BOOLEAN /\ txn[t].kids \in Seq(Nat) /\ Depth(t) \in Nat
         /\ txn[t].last_kid \in Nat /\ txn[t].logged \in BOOLEAN
         /\ txn[t].state \in {"unborn", "live", "committing", "aborting", "done"}
<1>1. txn[t] \in TxnRecord BY DEF ManagerTypeOK
<1>2. txn[t].kids \in Seq(Nat) BY <1>1 DEF TxnRecord
<1>3. Depth(t) \in Nat BY <1>2 DEF Depth
<1>4. QED BY <1>1, <1>2, <1>3 DEF TxnRecord

\* A step that leaves the manager alone, and of the transactions only changes the state of
\* those that stay open and whether they wrote.
LEMMA QuietStep ==
  ASSUME SnapshotInv, UNCHANGED managerVars,
         work' \in [DOMAIN work' -> Clients], DOMAIN work' \subseteq Txn,
         txn' \in [Txn -> TxnRecord],
         \A t \in Txn : /\ txn'[t].xid = txn[t].xid /\ txn'[t].type = txn[t].type
                        /\ txn'[t].ro = txn[t].ro /\ txn'[t].kids = txn[t].kids
                        /\ \/ txn'[t] = txn[t]
                           \/ Open(t) /\ Open(t)'
  PROVE  SnapshotInv'
<1>1. ManagerTypeOK /\ IdsSound /\ SnapshotsSound /\ ListsSound /\ ReferencesSound BY DEF SnapshotInv
<1>2. /\ last_xid' = last_xid /\ live_root_ids' = live_root_ids /\ snapshots' = snapshots
      /\ referenced_xids' = referenced_xids /\ oldest_referenced_xid' = oldest_referenced_xid
  BY DEF managerVars
<1>3. Snaps' = Snaps /\ \A x : With(x)' = With(x) BY <1>2 DEF Snaps, With
<1>4. ManagerTypeOK' BY <1>1, <1>2 DEF ManagerTypeOK
<1>5. \A t \in Txn : (Open(t) <=> Open(t)') /\ (Begun(t) <=> Begun(t)') /\ Depth(t)' = Depth(t)
  BY DEF Open, Begun, Depth
<1>6. IdsSound'
  <2>1. {txn'[t].xid : t \in {u \in Txn : Open(u)' /\ ~txn'[u].ro}}
          = {txn[t].xid : t \in {u \in Txn : Open(u) /\ ~txn[u].ro}}
    BY <1>5
  <2>2. QED BY <2>1, <1>1, <1>2, <1>3, <1>5 DEF IdsSound, Increasing
<1>7. \A s \in Snaps : s.txn \in Txn BY <1>1, SnapsDef
<1>8. SnapshotsSound' BY <1>1, <1>3, <1>5, <1>7 DEF SnapshotsSound
<1>9. ListsSound' BY <1>1, <1>3, <1>5 DEF ListsSound
<1>10. \A t \in Txn : txn'[t].state = "done" <=> txn[t].state = "done" BY DEF Open
<1>11. \A t \in Txn : txn[t].state = "done" => txn'[t].logged = txn[t].logged BY DEF Open
<1>12. ReferencesSound'
  <2>1. ASSUME NEW r \in referenced_xids
        PROVE  /\ r.end_id <= last_xid' /\ r.references > 0
               /\ r.references = Cardinality(With(r.begin_id))'
               /\ \E t \in Txn : txn'[t].state = "done" /\ txn'[t].xid = r.begin_id
               /\ \A s \in Snaps' : r.begin_id \in s.list <=> r.begin_id < s.id /\ s.id < r.end_id
    <3>1. With(r.begin_id)' = With(r.begin_id) BY <1>3 DEF With
    <3>2. \E t \in Txn : txn'[t].state = "done" /\ txn'[t].xid = r.begin_id
      BY <1>1, <1>10 DEF ReferencesSound
    <3>3. QED BY <3>1, <3>2, <1>1, <1>2, <1>3 DEF ReferencesSound
  <2>2. ASSUME NEW t \in Txn, txn'[t].state = "done", txn'[t].logged, With(txn[t].xid)' # {}
        PROVE  \E r \in referenced_xids : r.begin_id = txn'[t].xid
    <3>1. With(txn[t].xid) # {} BY <2>2, <1>3 DEF With
    <3>2. txn[t].state = "done" /\ txn[t].logged BY <2>2, <1>10, <1>11
    <3>3. PICK r \in referenced_xids : r.begin_id = txn[t].xid
      BY ONLY <3>1, <3>2, <1>1, t \in Txn DEF ReferencesSound
    <3>4. QED BY <3>3
  <2>3. \A r, q \in referenced_xids : r.begin_id = q.begin_id => r = q
    BY <1>1 DEF ReferencesSound
  <2>4. QED BY ONLY <2>1, <2>2, <2>3, <1>2 DEF ReferencesSound
<1>13. QED BY <1>4, <1>6, <1>8, <1>9, <1>12 DEF SnapshotInv

\* What note_snapshot_txn_end leaves of the tuples when snapshot e goes.
LEMMA TuplesKept ==
  ASSUME ManagerTypeOK, ReferencesSound, NEW e \in Snaps
  PROVE  LET refs == note_snapshot_txn_end(e.list)
             Left(x) == With(x) \ {e}
         IN /\ refs \in SUBSET Tuple
            /\ \A r \in refs : /\ r.references > 0 /\ r.references = Cardinality(Left(r.begin_id))
                               /\ \E q \in referenced_xids : q.begin_id = r.begin_id /\ q.end_id = r.end_id
            /\ \A r, q \in refs : r.begin_id = q.begin_id => r = q
            /\ \A q \in referenced_xids :
                 Left(q.begin_id) # {} => \E r \in refs : r.begin_id = q.begin_id
<1> DEFINE refs == note_snapshot_txn_end(e.list)
           Left(x) == With(x) \ {e}
           Less(r) == IF r.begin_id \in e.list THEN [r EXCEPT !.references = @ - 1] ELSE r
           Stays(r) == ~ (r.begin_id \in e.list /\ r.references = 1)
<1>1. refs = {Less(r) : r \in {q \in referenced_xids : Stays(q)}} BY DEF note_snapshot_txn_end
<1>2. \A x : IsFiniteSet(With(x)) /\ Cardinality(With(x)) \in Nat
  BY SnapsDef, FS_CardinalityType
<1>3. \A x : Cardinality(Left(x)) = IF e \in With(x) THEN Cardinality(With(x)) - 1
                                   ELSE Cardinality(With(x))
  BY <1>2, FS_RemoveElement
<1>4. \A x : e \in With(x) <=> x \in e.list BY DEF With
<1>5. \A r \in referenced_xids : /\ r \in Tuple /\ r.references \in Nat /\ r.references > 0
                                 /\ r.references = Cardinality(With(r.begin_id))
  BY DEF ManagerTypeOK, ReferencesSound, Tuple
<1>6. ASSUME NEW q \in referenced_xids, Stays(q)
      PROVE  /\ Less(q) \in Tuple /\ Less(q).begin_id = q.begin_id /\ Less(q).end_id = q.end_id
             /\ Less(q).references > 0 /\ Less(q).references = Cardinality(Left(q.begin_id))
  <2>1. q \in Tuple /\ q.references \in Nat /\ q.references > 0 BY <1>5
  <2>2. CASE q.begin_id \in e.list
    <3>1. Less(q) = [q EXCEPT !.references = q.references - 1] BY <2>2
    <3>2. q.references - 1 \in Nat /\ q.references - 1 > 0 BY <2>1, <2>2, <1>6
    <3>3. /\ Less(q) \in Tuple /\ Less(q).begin_id = q.begin_id /\ Less(q).end_id = q.end_id
          /\ Less(q).references = q.references - 1
      BY <3>1, <3>2, <2>1 DEF Tuple
    <3>4. q.references - 1 = Cardinality(Left(q.begin_id)) BY <2>2, <1>3, <1>4, <1>5
    <3>5. QED BY <3>2, <3>3, <3>4
  <2>3. CASE q.begin_id \notin e.list
    <3>1. Less(q) = q BY <2>3
    <3>2. q.references = Cardinality(Left(q.begin_id)) BY <2>3, <1>3, <1>4, <1>5
    <3>3. QED BY <3>1, <3>2, <2>1
  <2>4. QED BY <2>2, <2>3
<1> HIDE DEF refs, Left, Less
<1>7. \A r \in refs : \E q \in referenced_xids : Stays(q) /\ r = Less(q) BY <1>1
<1>8. refs \in SUBSET Tuple BY <1>6, <1>7
<1>9. ASSUME NEW r \in refs
      PROVE  /\ r.references > 0 /\ r.references = Cardinality(Left(r.begin_id))
             /\ \E q \in referenced_xids : q.begin_id = r.begin_id /\ q.end_id = r.end_id
  <2>1. PICK q \in referenced_xids : Stays(q) /\ r = Less(q) BY <1>7
  <2>2. QED BY <2>1, <1>6
<1>10. ASSUME NEW r \in refs, NEW p \in refs, r.begin_id = p.begin_id PROVE r = p
  <2>1. PICK q \in referenced_xids : Stays(q) /\ r = Less(q) BY <1>7
  <2>2. PICK o \in referenced_xids : Stays(o) /\ p = Less(o) BY <1>7
  <2>3. q.begin_id = o.begin_id BY <2>1, <2>2, <1>6, <1>10
  <2>4. q = o BY <2>3 DEF ReferencesSound
  <2>5. QED BY <2>1, <2>2, <2>4
<1>11. ASSUME NEW q \in referenced_xids, Left(q.begin_id) # {}
       PROVE  \E r \in refs : r.begin_id = q.begin_id
  <2>1. Stays(q)
    <3>1. SUFFICES ASSUME q.begin_id \in e.list, q.references = 1 PROVE FALSE OBVIOUS
    <3>2. Cardinality(Left(q.begin_id)) = 0 BY <3>1, <1>3, <1>4, <1>5
    <3>3. IsFiniteSet(Left(q.begin_id)) BY <1>2, FS_RemoveElement DEF Left
    <3>4. Left(q.begin_id) = {} BY <3>2, <3>3, FS_EmptySet
    <3>5. QED BY <3>4, <1>11
  <2>2. Less(q) \in refs BY <2>1, <1>1
  <2>3. Less(q).begin_id = q.begin_id BY <2>1, <1>6
  <2>4. QED BY <2>2, <2>3
<1>12. QED BY <1>8, <1>9, <1>10, <1>11 DEF refs, Left

\* The innermost transaction of t has just begun: t itself, with the next id, or a child.
BeginsRoot(t) ==
  /\ txn[t].state = "unborn" /\ Open(t)' /\ Depth(t)' = 0
  /\ txn'[t].xid = last_xid + 1 /\ last_xid + 1 <= last_xid'
  /\ live_root_ids' = IF txn'[t].ro THEN live_root_ids ELSE live_root_ids \cup {txn'[t].xid}

BeginsChild(t) ==
  /\ Open(t) /\ Open(t)' /\ Depth(t)' = Depth(t) + 1
  /\ txn'[t].xid = txn[t].xid /\ txn'[t].ro = txn[t].ro /\ txn'[t].type = txn[t].type
  /\ live_root_ids' = live_root_ids

\* It takes a snapshot s, if its type says so.
Takes(t, s) ==
  /\ s \in Snapshot /\ s.txn = t /\ s.depth = Depth(t)' /\ s.list = live_root_ids'
  /\ s.id = last_xid' /\ last_xid < last_xid' /\ txn'[t].xid < last_xid'
  /\ snapshots' = Append(snapshots, s)

TakesSnapshot(t) ==
  IF txn_records_snapshot(txn'[t].type, Depth(t)') THEN \E s \in Snapshot : Takes(t, s)
  ELSE snapshots' = snapshots

LEMMA BeginStep ==
  ASSUME SnapshotInv, ManagerTypeOK', referenced_xids' = referenced_xids, last_xid <= last_xid',
         NEW t \in Txn, \A u \in Txn \ {t} : txn'[u] = txn[u],
         BeginsRoot(t) \/ BeginsChild(t), TakesSnapshot(t)
  PROVE  SnapshotInv'
<1>1. ManagerTypeOK /\ IdsSound /\ SnapshotsSound /\ ListsSound /\ ReferencesSound BY DEF SnapshotInv
<1>2. /\ \A s \in Snaps : s.id \in Nat /\ s.depth \in Nat /\ s.txn \in Txn /\ s.id <= last_xid
      /\ last_xid \in Nat /\ last_xid' \in Nat /\ last_xid <= last_xid'
  BY <1>1, SnapsDef DEF IdsSound, ManagerTypeOK
<1>3. \A u \in Txn : txn[u].xid \in Nat /\ Depth(u) \in Nat /\ txn[u].ro \in BOOLEAN BY <1>1, TxnDef
<1>4. PICK N : /\ Snaps' = Snaps \cup N
               /\ N = {} \/ \E s : N = {s}
               /\ txn_records_snapshot(txn'[t].type, Depth(t)') <=> N # {}
               /\ \A s \in N : Takes(t, s)
               /\ Increasing(snapshots)'
  <2>1. Increasing(snapshots) BY <1>1 DEF IdsSound
  <2>2. CASE txn_records_snapshot(txn'[t].type, Depth(t)')
    <3>1. PICK s \in Snapshot : Takes(t, s) BY <2>2 DEF TakesSnapshot
    <3>2. snapshots \in Seq(Snapshot) BY <1>1 DEF ManagerTypeOK
    <3>3. snapshots' = Append(snapshots, s) BY <3>1 DEF Takes
    <3>4. Range(snapshots') = Range(snapshots) \cup {s} BY <3>2, <3>3, AppendSnapshot
    <3>5. \A e \in Range(snapshots) : e.id < s.id BY <3>1, <1>2 DEF Takes, Snaps
    <3>6. Increasing(snapshots') BY <3>2, <3>3, <3>5, <2>1, AppendSnapshot
    <3>7. Increasing(snapshots)' BY <3>6 DEF Increasing
    <3>8. Snaps' = Snaps \cup {s} BY <3>4 DEF Snaps
    <3>9. WITNESS {s}
    <3>10. QED BY <3>1, <3>7, <3>8, <2>2
  <2>3. CASE ~ txn_records_snapshot(txn'[t].type, Depth(t)')
    <3>1. snapshots' = snapshots BY <2>3 DEF TakesSnapshot
    <3>2. PICK e : e = {} OBVIOUS
    <3>3. Snaps' = Snaps \cup e BY <3>1, <3>2 DEF Snaps
    <3>4. Increasing(snapshots)' BY <3>1, <2>1 DEF Increasing
    <3>5. WITNESS e
    <3>6. QED BY <3>2, <3>3, <3>4, <2>3
  <2>4. QED BY <2>2, <2>3
<1>5. \A u \in Txn \ {t} : /\ (Open(u) <=> Open(u)') /\ (Begun(u) <=> Begun(u)')
                          /\ Depth(u)' = Depth(u)
  BY DEF Open, Begun, Depth
<1>6. Open(t)' /\ Begun(t)' /\ (Begun(t) => Open(t) /\ txn'[t].xid = txn[t].xid /\ txn'[t].ro = txn[t].ro)
  BY DEF BeginsRoot, BeginsChild, Open, Begun
<1>7. ~ Begun(t) => txn'[t].xid = last_xid + 1 /\ last_xid + 1 <= last_xid'
  BY DEF BeginsRoot, BeginsChild, Open, Begun
<1>8. live_root_ids' = IF ~ Begun(t) /\ ~ txn'[t].ro THEN live_root_ids \cup {txn'[t].xid} ELSE live_root_ids
  BY DEF BeginsRoot, BeginsChild, Open, Begun
<1>9. \A s \in N : /\ s.txn = t /\ s.depth = Depth(t)' /\ s.list = live_root_ids'
                   /\ s.id = last_xid' /\ last_xid < last_xid' /\ txn'[t].xid < last_xid'
  BY <1>4 DEF Takes
<1>10. IdsSound'
  <2>1. \A u \in Txn : Begun(u)' => txn'[u].xid \in 1 .. last_xid'
    <3>1. \A u \in Txn : Begun(u) => txn[u].xid \in 1 .. last_xid BY <1>1 DEF IdsSound
    <3>2. QED BY <3>1, <1>2, <1>5, <1>6, <1>7
  <2>2. ASSUME NEW u \in Txn, NEW v \in Txn, Begun(u)', Begun(v)', txn'[u].xid = txn'[v].xid
        PROVE  u = v
    <3>1. \A w \in Txn : Begun(w) => txn[w].xid \in 1 .. last_xid BY <1>1 DEF IdsSound
    <3>2. \A w \in Txn : Begun(w)' => (txn'[w].xid <= last_xid <=> Begun(w))
      BY <3>1, <1>2, <1>5, <1>6, <1>7
    <3>3. \A w \in Txn : Begun(w) => txn'[w].xid = txn[w].xid BY <1>6
    <3>4. CASE Begun(u) /\ Begun(v) BY <3>3, <3>4, <2>2, <1>1 DEF IdsSound
    <3>5. CASE ~ Begun(u) /\ ~ Begun(v) BY <3>5, <2>2, <1>5
    <3>6. QED BY <3>2, <3>4, <3>5, <2>2
  <2>3. live_root_ids' = {txn'[u].xid : u \in {v \in Txn : Open(v)' /\ ~ txn'[v].ro}}
    <3>1. live_root_ids = {txn[u].xid : u \in {v \in Txn : Open(v) /\ ~ txn[v].ro}} BY <1>1 DEF IdsSound
    <3>2. CASE Begun(t)
      <4>1. \A u \in Txn : txn'[u].xid = txn[u].xid /\ (Open(u)' <=> Open(u)) /\ txn'[u].ro = txn[u].ro
        BY <3>2, <1>5, <1>6
      <4>2. QED BY <4>1, <3>1, <3>2, <1>8
    <3>3. CASE ~ Begun(t)
      <4>1. ~ Open(t) BY <3>3 DEF Open, Begun
      <4>2. ASSUME NEW x \in live_root_ids'
            PROVE  \E u \in Txn : Open(u)' /\ ~ txn'[u].ro /\ x = txn'[u].xid
        <5>1. CASE x \in live_root_ids
          <6>1. PICK u \in Txn : Open(u) /\ ~ txn[u].ro /\ x = txn[u].xid BY <5>1, <3>1
          <6>2. u # t BY <6>1, <4>1
          <6>3. QED BY <6>1, <6>2, <1>5
        <5>2. CASE x \notin live_root_ids BY <5>2, <4>2, <1>6, <1>8
        <5>3. QED BY <5>1, <5>2
      <4>3. ASSUME NEW u \in Txn, Open(u)', ~ txn'[u].ro PROVE txn'[u].xid \in live_root_ids'
        <5>1. CASE u = t BY <5>1, <3>3, <4>3, <1>8
        <5>2. CASE u # t
          <6>1. Open(u) /\ ~ txn[u].ro /\ txn'[u].xid = txn[u].xid BY <5>2, <4>3, <1>5
          <6>2. QED BY <6>1, <3>1, <1>8
        <5>3. QED BY <5>1, <5>2
      <4>4. QED BY <4>2, <4>3
    <3>4. QED BY <3>2, <3>3
  <2>4. \A s \in Snaps' : s.id <= last_xid' BY <1>2, <1>4, <1>9
  <2>5. QED BY <2>1, <2>2, <2>3, <2>4, <1>4 DEF IdsSound
<1>11. SnapshotsSound'
  <2>1. \A s \in Snaps : /\ Open(s.txn) /\ s.depth <= Depth(s.txn)
                        /\ txn_records_snapshot(txn[s.txn].type, s.depth)
    BY <1>1 DEF SnapshotsSound
  <2>2. Open(t) => Depth(t)' = Depth(t) + 1 /\ txn'[t].type = txn[t].type
    BY DEF BeginsRoot, BeginsChild, Open
  <2>3. ~ Open(t) => Depth(t)' = 0 BY DEF BeginsRoot, BeginsChild, Open
  <2>4. \A s \in Snaps : /\ Open(s.txn)' /\ s.depth <= Depth(s.txn)'
                        /\ txn_records_snapshot(txn'[s.txn].type, s.depth)
    <3>1. ASSUME NEW s \in Snaps
          PROVE  /\ Open(s.txn)' /\ s.depth <= Depth(s.txn)'
                 /\ txn_records_snapshot(txn'[s.txn].type, s.depth)
      <4>1. CASE s.txn = t
        <5>1. Depth(t) \in Nat /\ s.depth \in Nat BY <1>2, <1>3
        <5>2. QED BY <4>1, <5>1, <2>1, <2>2, <1>6
      <4>2. CASE s.txn # t BY <4>2, <2>1, <1>2, <1>5
      <4>3. QED BY <4>1, <4>2
    <3>2. QED BY <3>1
  <2>5. Depth(t)' \in Nat BY <2>2, <2>3, <1>3
  <2>6. \A s \in N : /\ Open(s.txn)' /\ s.depth <= Depth(s.txn)'
                    /\ txn_records_snapshot(txn'[s.txn].type, s.depth)
    BY <2>5, <1>4, <1>6, <1>9
  <2>7. \A s \in Snaps : s.txn = t => s.depth # Depth(t)'
    <3>1. ASSUME NEW s \in Snaps, s.txn = t PROVE s.depth # Depth(t)'
      <4>1. Open(t) /\ s.depth <= Depth(t) BY <3>1, <2>1
      <4>2. s.depth \in Nat /\ Depth(t) \in Nat /\ Depth(t)' = Depth(t) + 1 BY <4>1, <2>2, <1>2, <1>3
      <4>3. QED BY <4>1, <4>2
    <3>2. QED BY <3>1
  <2>8. ASSUME NEW s1 \in Snaps', NEW s2 \in Snaps', s1.txn = s2.txn, s1.depth = s2.depth
        PROVE  s1 = s2
    <3>1. CASE s1 \in Snaps /\ s2 \in Snaps BY <3>1, <2>8, <1>1 DEF SnapshotsSound
    <3>2. CASE s1 \in N /\ s2 \in N BY <3>2, <1>4
    <3>3. CASE s1 \in N /\ s2 \in Snaps BY <3>3, <2>7, <2>8, <1>9
    <3>4. CASE s1 \in Snaps /\ s2 \in N BY <3>4, <2>7, <2>8, <1>9
    <3>5. QED BY <3>1, <3>2, <3>3, <3>4, <1>4
  <2>9. ASSUME NEW u \in Txn, Open(u)', NEW d \in 0 .. Depth(u)',
               txn_records_snapshot(txn'[u].type, d)
        PROVE  \E s \in Snaps' : s.txn = u /\ s.depth = d
    <3>1. CASE u # t
      <4>1. Open(u) /\ d \in 0 .. Depth(u) /\ txn_records_snapshot(txn[u].type, d)
        BY <3>1, <2>9, <1>5
      <4>2. PICK s \in Snaps : s.txn = u /\ s.depth = d BY <4>1, <1>1 DEF SnapshotsSound
      <4>3. QED BY <4>2, <1>4
    <3>2. CASE u = t /\ d = Depth(t)'
      <4>1. N # {} BY <3>2, <2>9, <1>4
      <4>2. PICK s : s \in N BY <4>1
      <4>3. s \in Snaps' /\ s.txn = t /\ s.depth = Depth(t)' BY <4>2, <1>4, <1>9
      <4>4. QED BY <4>3, <3>2
    <3>3. CASE u = t /\ d # Depth(t)'
      <4>1. Open(t) BY <3>3, <2>3, <2>9
      <4>2. d \in 0 .. Depth(t) /\ txn_records_snapshot(txn[t].type, d)
        BY <4>1, <3>3, <2>2, <2>9, <1>3
      <4>3. PICK s \in Snaps : s.txn = t /\ s.depth = d BY <4>1, <4>2, <1>1 DEF SnapshotsSound
      <4>4. QED BY <4>3, <3>3, <1>4
    <3>4. QED BY <3>1, <3>2, <3>3
  <2>10. \A s \in Snaps' : /\ Open(s.txn)' /\ s.depth <= Depth(s.txn)'
                          /\ txn_records_snapshot(txn'[s.txn].type, s.depth)
    BY <2>4, <2>6, <1>4
  <2>11. QED BY ONLY <2>8, <2>9, <2>10 DEF SnapshotsSound
<1>12. \A x \in live_root_ids' : \E u \in Txn : Open(u)' /\ ~ txn'[u].ro /\ txn'[u].xid = x
  BY <1>10 DEF IdsSound
<1>13. ListsSound'
  <2>1. ASSUME NEW s \in Snaps, NEW x \in s.list
        PROVE  x <= last_xid /\ \E u \in Txn : Begun(u)' /\ ~ txn'[u].ro /\ txn'[u].xid = x
    <3>1. PICK u \in Txn : Begun(u) /\ ~ txn[u].ro /\ txn[u].xid = x BY <2>1, <1>1 DEF ListsSound
    <3>2. txn[u].xid \in 1 .. last_xid BY <3>1, <1>1 DEF IdsSound
    <3>3. QED BY <3>1, <3>2, <1>2, <1>5, <1>6
  <2>2. ASSUME NEW s \in Snaps, NEW u \in Txn, Open(u)', ~ txn'[u].ro
        PROVE  txn'[u].xid \in s.list <=> txn'[u].xid < s.id
    <3>1. CASE Begun(u)
      <4>1. Open(u) /\ ~ txn[u].ro /\ txn'[u].xid = txn[u].xid BY <3>1, <2>2, <1>5, <1>6
      <4>2. QED BY <4>1, <1>1 DEF ListsSound
    <3>2. CASE ~ Begun(u)
      <4>1. u = t BY <3>2, <2>2, <1>5 DEF Open, Begun
      <4>2. txn'[u].xid = last_xid + 1 BY <3>2, <4>1, <1>7
      <4>3. s.id \in Nat /\ s.id <= last_xid BY <1>2
      <4>4. ~ (txn'[u].xid \in s.list) BY <4>2, <2>1, <1>2
      <4>5. QED BY <4>2, <4>3, <4>4, <1>2
    <3>3. QED BY <3>1, <3>2
  <2>3. ASSUME NEW s \in N, NEW u \in Txn, Open(u)', ~ txn'[u].ro
        PROVE  txn'[u].xid \in s.list /\ txn'[u].xid < s.id
    <3>1. txn'[u].xid \in live_root_ids' BY <2>3, <1>10 DEF IdsSound
    <3>2. CASE u = t BY <3>1, <3>2, <1>9
    <3>3. CASE u # t
      <4>1. txn'[u].xid = txn[u].xid /\ Begun(u) BY <3>3, <2>3, <1>5 DEF Open, Begun
      <4>2. txn[u].xid \in 1 .. last_xid BY <4>1, <1>1 DEF IdsSound
      <4>3. QED BY <4>1, <4>2, <3>1, <1>2, <1>9
    <3>4. QED BY <3>2, <3>3
  <2>4. \A s \in N : \A x \in s.list : \E u \in Txn : Begun(u)' /\ ~ txn'[u].ro /\ txn'[u].xid = x
    BY <1>9, <1>12 DEF Open, Begun
  <2>5. QED BY <2>1, <2>2, <2>3, <2>4, <1>4 DEF ListsSound
<1>14. \A u \in Txn : txn'[u].state = "done" => u # t /\ txn[u].state = "done"
  BY <1>6 DEF Open
<1>15. ASSUME NEW u \in Txn, txn'[u].state = "done"
       PROVE  txn[u].state = "done" /\ txn'[u] = txn[u] /\ With(txn[u].xid)' = With(txn[u].xid)
  <2>1. u # t /\ txn[u].state = "done" /\ txn'[u] = txn[u] BY <1>14, <1>15
  <2>2. Begun(u)' /\ ~ Open(u)' BY <1>15 DEF Begun, Open
  <2>3. txn'[u].xid \notin live_root_ids'
    <3>1. SUFFICES ASSUME txn'[u].xid \in live_root_ids' PROVE FALSE OBVIOUS
    <3>2. PICK v \in Txn : Open(v)' /\ txn'[v].xid = txn'[u].xid BY <3>1, <1>12
    <3>3. Begun(v)' BY <3>2 DEF Open, Begun
    <3>4. v = u BY <3>2, <3>3, <2>2, <1>10 DEF IdsSound
    <3>5. QED BY <3>2, <3>4, <2>2
  <2>4. \A s \in N : txn'[u].xid \notin s.list BY <2>3, <1>9
  <2>5. With(txn[u].xid)' = {s \in Snaps' : txn'[u].xid \in s.list} BY DEF With
  <2>6. {s \in Snaps' : txn'[u].xid \in s.list} = {s \in Snaps : txn'[u].xid \in s.list}
    BY <2>4, <1>4
  <2>7. QED BY <2>1, <2>5, <2>6 DEF With
<1>16. ReferencesSound'
  <2>1. ASSUME NEW r \in referenced_xids
        PROVE  /\ r.end_id <= last_xid' /\ r.references > 0
               /\ r.references = Cardinality(With(r.begin_id))'
               /\ \E u \in Txn : txn'[u].state = "done" /\ txn'[u].xid = r.begin_id
               /\ \A s \in Snaps' : r.begin_id \in s.list <=> r.begin_id < s.id /\ s.id < r.end_id
    <3>1. r \in Tuple /\ r.end_id \in Nat /\ r.end_id <= last_xid BY <1>1 DEF ReferencesSound, ManagerTypeOK, Tuple
    <3>2. PICK u \in Txn : txn[u].state = "done" /\ txn[u].xid = r.begin_id BY <1>1 DEF ReferencesSound
    <3>3. u # t BY <3>2 DEF BeginsRoot, BeginsChild, Open
    <3>4. txn'[u].state = "done" /\ txn'[u].xid = r.begin_id BY <3>2, <3>3
    <3>5. With(r.begin_id)' = With(r.begin_id)
      <4>1. With(txn[u].xid)' = With(txn[u].xid) BY <3>4, <1>15
      <4>2. QED BY <4>1, <3>2, <3>4 DEF With
    <3>6. r.references > 0 /\ r.references = Cardinality(With(r.begin_id)) BY <1>1 DEF ReferencesSound
    <3>7. ASSUME NEW s \in Snaps' PROVE r.begin_id \in s.list <=> r.begin_id < s.id /\ s.id < r.end_id
      <4>1. CASE s \in Snaps BY <4>1, <1>1 DEF ReferencesSound
      <4>2. CASE s \in N /\ s \notin Snaps
        <5>1. s \notin With(r.begin_id)' BY <4>2, <3>5 DEF With
        <5>2. r.begin_id \notin s.list BY <5>1, <3>7 DEF With
        <5>3. s.id = last_xid' /\ last_xid < last_xid' BY <4>2, <1>9
        <5>4. QED BY <5>2, <5>3, <3>1, <1>2
      <4>3. QED BY <4>1, <4>2, <1>4, <3>7
    <3>8. QED BY <3>1, <3>4, <3>5, <3>6, <3>7, <1>2
  <2>2. ASSUME NEW u \in Txn, txn'[u].state = "done", txn'[u].logged, With(txn[u].xid)' # {}
        PROVE  \E r \in referenced_xids : r.begin_id = txn'[u].xid
    <3>1. txn[u].state = "done" /\ txn'[u] = txn[u] /\ With(txn[u].xid) # {} BY <2>2, <1>15
    <3>2. QED BY <3>1, <2>2, <1>1 DEF ReferencesSound
  <2>3. \A r, q \in referenced_xids : r.begin_id = q.begin_id => r = q
    BY <1>1 DEF ReferencesSound
  <2>4. QED BY ONLY <2>1, <2>2, <2>3, referenced_xids' = referenced_xids DEF ReferencesSound
<1>17. QED BY <1>10, <1>11, <1>13, <1>16 DEF SnapshotInv

-----------------------------------------------------------------------------
(* The end of a transaction *)

\* The snapshots, and the tuples, that the end of the innermost transaction of t leaves.
Records(t) == txn_records_snapshot(txn[t].type, Depth(t))
SnapshotsLeft(t) ==
  IF Records(t) THEN txn_manager_remove_snapshot_unlocked(t, Depth(t)) ELSE snapshots
TuplesLeft(t) == IF Records(t) THEN note_snapshot_txn_end(ListOf(t, Depth(t))) ELSE referenced_xids
Remaining(t) == {s \in Snaps : ~ (s.txn = t /\ s.depth = Depth(t))}
RemainingWith(t, x) == {s \in Remaining(t) : x \in s.list}

LEMMA EndOfSnapshot ==
  ASSUME SnapshotInv, NEW t \in Txn, Open(t)
  PROVE  /\ SnapshotsLeft(t) \in Seq(Snapshot) /\ Increasing(SnapshotsLeft(t))
         /\ Range(SnapshotsLeft(t)) = Remaining(t)
         /\ TuplesLeft(t) \in SUBSET Tuple
         /\ \A r \in TuplesLeft(t) :
              /\ r.references > 0 /\ r.references = Cardinality(RemainingWith(t, r.begin_id))
              /\ \E q \in referenced_xids : q.begin_id = r.begin_id /\ q.end_id = r.end_id
         /\ \A r, q \in TuplesLeft(t) : r.begin_id = q.begin_id => r = q
         /\ \A q \in referenced_xids :
              RemainingWith(t, q.begin_id) # {} => \E r \in TuplesLeft(t) : r.begin_id = q.begin_id
<1>1. ManagerTypeOK /\ IdsSound /\ SnapshotsSound /\ ListsSound /\ ReferencesSound BY DEF SnapshotInv
<1>2. snapshots \in Seq(Snapshot) /\ Increasing(snapshots) BY <1>1 DEF ManagerTypeOK, IdsSound
<1>3. CASE Records(t)
  <2>1. Depth(t) \in Nat BY <1>1, TxnDef
  <2>2. PICK e \in Snaps : e.txn = t /\ e.depth = Depth(t)
    <3>1. Depth(t) \in 0 .. Depth(t) /\ txn_records_snapshot(txn[t].type, Depth(t))
      BY <2>1, <1>3 DEF Records
    <3>2. QED BY <3>1, <1>1 DEF SnapshotsSound
  <2>3. PICK k : k = SnapshotIndex(t, Depth(t)) OBVIOUS
  <2>4. k \in DOMAIN snapshots /\ snapshots[k].txn = t /\ snapshots[k].depth = Depth(t)
    <3>1. \E i \in DOMAIN snapshots : snapshots[i].txn = t /\ snapshots[i].depth = Depth(t)
      BY <2>2, <1>2, InRange DEF Snaps
    <3>2. QED BY <3>1, <2>3 DEF SnapshotIndex
  <2>5. snapshots[k] \in Snaps BY <2>4, <1>2, InRange DEF Snaps
  <2>6. snapshots[k] = e BY <2>2, <2>4, <2>5, <1>1 DEF SnapshotsSound
  <2>7. Remaining(t) = Snaps \ {e}
    <3>1. \A s \in Snaps : s.txn = t /\ s.depth = Depth(t) => s = e BY <2>2, <1>1 DEF SnapshotsSound
    <3>2. QED BY <3>1, <2>2 DEF Remaining
  <2>8. SnapshotsLeft(t) = RemoveAt(snapshots, k)
    BY <1>3, <2>3 DEF SnapshotsLeft, txn_manager_remove_snapshot_unlocked
  <2>9. /\ SnapshotsLeft(t) \in Seq(Snapshot) /\ Increasing(SnapshotsLeft(t))
        /\ Range(SnapshotsLeft(t)) = Remaining(t)
    BY <2>4, <2>6, <2>7, <2>8, <1>2, RemoveSnapshot DEF Snaps
  <2>10. TuplesLeft(t) = note_snapshot_txn_end(e.list) BY <1>3, <2>3, <2>6 DEF TuplesLeft, ListOf
  <2>11. \A x : RemainingWith(t, x) = With(x) \ {e} BY <2>7 DEF RemainingWith, With
  <2>12. PICK refs : refs = note_snapshot_txn_end(e.list) OBVIOUS
  <2>13. /\ refs \in SUBSET Tuple
         /\ \A r \in refs : /\ r.references > 0 /\ r.references = Cardinality(With(r.begin_id) \ {e})
                            /\ \E q \in referenced_xids : q.begin_id = r.begin_id /\ q.end_id = r.end_id
         /\ \A r, q \in refs : r.begin_id = q.begin_id => r = q
         /\ \A q \in referenced_xids :
              With(q.begin_id) \ {e} # {} => \E r \in refs : r.begin_id = q.begin_id
    BY <2>12, <1>1, TuplesKept
  <2>14. TuplesLeft(t) = refs BY <2>10, <2>12
  <2>15. QED BY ONLY <2>9, <2>11, <2>13, <2>14
<1>4. CASE ~ Records(t)
  <2>1. SnapshotsLeft(t) = snapshots /\ TuplesLeft(t) = referenced_xids
    BY <1>4 DEF SnapshotsLeft, TuplesLeft
  <2>2. Remaining(t) = Snaps BY <1>4, <1>1 DEF Remaining, Records, SnapshotsSound
  <2>3. \A x : RemainingWith(t, x) = With(x) BY <2>2 DEF RemainingWith, With
  <2>4. TuplesLeft(t) \in SUBSET Tuple BY <2>1, <1>1 DEF ManagerTypeOK
  <2>5. Range(SnapshotsLeft(t)) = Remaining(t) BY <2>1, <2>2 DEF Snaps
  <2>6. QED BY <2>1, <2>3, <2>4, <2>5, <1>1, <1>2 DEF ReferencesSound
<1>5. QED BY <1>3, <1>4

LEMMA ChildEnds ==
  ASSUME SnapshotInv, ManagerTypeOK', NEW t \in Txn, Open(t), Open(t)', Depth(t) > 0,
         \A u \in Txn \ {t} : txn'[u] = txn[u],
         txn'[t].xid = txn[t].xid, txn'[t].ro = txn[t].ro, txn'[t].type = txn[t].type,
         Depth(t)' = Depth(t) - 1,
         snapshots' = SnapshotsLeft(t), referenced_xids' = TuplesLeft(t),
         live_root_ids' = live_root_ids, last_xid' = last_xid
  PROVE  SnapshotInv'
<1>1. ManagerTypeOK /\ IdsSound /\ SnapshotsSound /\ ListsSound /\ ReferencesSound BY DEF SnapshotInv
<1>2. Snaps' = Remaining(t) /\ Increasing(snapshots)' BY EndOfSnapshot DEF Snaps, Increasing
<1>3. Snaps' \subseteq Snaps BY <1>2 DEF Remaining
<1>4. \A u \in Txn : /\ (Open(u) <=> Open(u)') /\ (Begun(u) <=> Begun(u)')
                    /\ txn'[u].xid = txn[u].xid /\ txn'[u].ro = txn[u].ro /\ txn'[u].type = txn[u].type
                    /\ (u # t => Depth(u)' = Depth(u))
  BY DEF Open, Begun, Depth
<1>5. IdsSound'
  <2>1. {txn'[u].xid : u \in {v \in Txn : Open(v)' /\ ~ txn'[v].ro}}
          = {txn[u].xid : u \in {v \in Txn : Open(v) /\ ~ txn[v].ro}}
    BY <1>4
  <2>2. live_root_ids' = {txn'[u].xid : u \in {v \in Txn : Open(v)' /\ ~ txn'[v].ro}}
    BY <2>1, <1>1 DEF IdsSound
  <2>3. QED BY <2>2, <1>1, <1>2, <1>3, <1>4 DEF IdsSound
<1>6. \A s \in Snaps : s.txn \in Txn /\ s.depth \in Nat BY <1>1, SnapsDef
<1>7. \A u \in Txn : Depth(u) \in Nat BY <1>1, TxnDef
<1>8. SnapshotsSound'
  <2>1. ASSUME NEW s \in Snaps'
        PROVE  /\ Open(s.txn)' /\ s.depth <= Depth(s.txn)'
               /\ txn_records_snapshot(txn'[s.txn].type, s.depth)
    <3>1. s \in Snaps /\ s.txn \in Txn /\ s.depth \in Nat BY <1>3, <1>6
    <3>2. Open(s.txn) /\ s.depth <= Depth(s.txn) /\ txn_records_snapshot(txn[s.txn].type, s.depth)
      BY <3>1, <1>1 DEF SnapshotsSound
    <3>3. s.txn = t => s.depth # Depth(t) BY <1>2 DEF Remaining
    <3>4. s.depth <= Depth(s.txn)'
      <4>1. CASE s.txn = t BY <4>1, <3>1, <3>2, <3>3, <1>7
      <4>2. CASE s.txn # t BY <4>2, <3>1, <3>2, <1>4
      <4>3. QED BY <4>1, <4>2
    <3>5. QED BY <3>1, <3>2, <3>4, <1>4
  <2>2. ASSUME NEW u \in Txn, Open(u)', NEW d \in 0 .. Depth(u)',
               txn_records_snapshot(txn'[u].type, d)
        PROVE  \E s \in Snaps' : s.txn = u /\ s.depth = d
    <3>1. d \in 0 .. Depth(u) /\ (u = t => d # Depth(t)) BY <2>2, <1>4, <1>7
    <3>2. PICK s \in Snaps : s.txn = u /\ s.depth = d BY <3>1, <2>2, <1>1, <1>4 DEF SnapshotsSound
    <3>3. s \in Snaps' BY <3>1, <3>2, <1>2 DEF Remaining
    <3>4. QED BY <3>2, <3>3
  <2>3. \A s1, s2 \in Snaps' : s1.txn = s2.txn /\ s1.depth = s2.depth => s1 = s2
    BY <1>1, <1>3 DEF SnapshotsSound
  <2>4. QED BY ONLY <2>1, <2>2, <2>3 DEF SnapshotsSound
<1>9. ListsSound' BY <1>1, <1>3, <1>4 DEF ListsSound
<1>10. ReferencesSound'
  <2>1. \A x : {s \in Snaps' : x \in s.list} = RemainingWith(t, x) BY <1>2 DEF RemainingWith
  <2>2. ASSUME NEW r \in referenced_xids'
        PROVE  /\ r.end_id <= last_xid' /\ r.references > 0
               /\ r.references = Cardinality({s \in Snaps' : r.begin_id \in s.list})
               /\ \E u \in Txn : txn'[u].state = "done" /\ txn'[u].xid = r.begin_id
               /\ \A s \in Snaps' : r.begin_id \in s.list <=> r.begin_id < s.id /\ s.id < r.end_id
    <3>1. r.references > 0 /\ r.references = Cardinality(RemainingWith(t, r.begin_id))
      BY <2>2, EndOfSnapshot
    <3>2. PICK q \in referenced_xids : q.begin_id = r.begin_id /\ q.end_id = r.end_id
      BY <2>2, EndOfSnapshot
    <3>3. PICK u \in Txn : txn[u].state = "done" /\ txn[u].xid = r.begin_id
      BY <3>2, <1>1 DEF ReferencesSound
    <3>4. txn'[u].state = "done" /\ txn'[u].xid = r.begin_id BY <3>3 DEF Open
    <3>5. r.end_id <= last_xid' BY <3>2, <1>1 DEF ReferencesSound
    <3>6. \A s \in Snaps' : r.begin_id \in s.list <=> r.begin_id < s.id /\ s.id < r.end_id
      BY <3>2, <1>1, <1>3 DEF ReferencesSound
    <3>7. QED BY <3>1, <3>4, <3>5, <3>6, <2>1
  <2>3. ASSUME NEW u \in Txn, txn'[u].state = "done", txn'[u].logged,
               {s \in Snaps' : txn'[u].xid \in s.list} # {}
        PROVE  \E r \in referenced_xids' : r.begin_id = txn'[u].xid
    <3>1. u # t /\ txn'[u] = txn[u] BY <2>3 DEF Open
    <3>2. With(txn[u].xid) # {} BY <2>3, <3>1, <1>3 DEF With
    <3>3. PICK q \in referenced_xids : q.begin_id = txn[u].xid
      BY <3>1, <3>2, <2>3, <1>1 DEF ReferencesSound
    <3>4. RemainingWith(t, q.begin_id) # {} BY <3>1, <3>3, <2>1, <2>3
    <3>5. QED BY <3>1, <3>3, <3>4, EndOfSnapshot
  <2>4. \A r, q \in referenced_xids' : r.begin_id = q.begin_id => r = q BY EndOfSnapshot
  <2>5. QED BY ONLY <2>2, <2>3, <2>4 DEF ReferencesSound, With
<1>11. QED BY <1>5, <1>8, <1>9, <1>10 DEF SnapshotInv

\* A root ends; a writer that snapshots saw live leaves a tuple.
LEMMA RootEnds ==
  ASSUME SnapshotInv, ManagerTypeOK', NEW t \in Txn, Open(t), Depth(t) = 0,
         \A u \in Txn \ {t} : txn'[u] = txn[u],
         txn'[t].state = "done", txn'[t].xid = txn[t].xid, txn'[t].logged = txn[t].logged,
         txn'[t].ro = txn[t].ro,
         snapshots' = SnapshotsLeft(t), live_root_ids' = live_root_ids \ {txn[t].xid},
         NEW n \in Nat,
         n = IF txn[t].ro \/ ~ txn[t].logged THEN 0
             ELSE Cardinality({s \in Remaining(t) : s.id > txn[t].xid}),
         last_xid' = IF n > 0 THEN last_xid + 1 ELSE last_xid,
         referenced_xids' = IF n = 0 THEN TuplesLeft(t)
           ELSE TuplesLeft(t) \cup {[begin_id |-> txn[t].xid, end_id |-> last_xid + 1, references |-> n]}
  PROVE  SnapshotInv'
<1>1. ManagerTypeOK /\ IdsSound /\ SnapshotsSound /\ ListsSound /\ ReferencesSound BY DEF SnapshotInv
<1>2. Snaps' = Remaining(t) /\ Increasing(snapshots)' BY EndOfSnapshot DEF Snaps, Increasing
<1>3. Snaps' \subseteq Snaps BY <1>2 DEF Remaining
<1>4. \A u \in Txn : /\ (u # t => (Open(u) <=> Open(u)')) /\ (Begun(u) <=> Begun(u)')
                    /\ txn'[u].xid = txn[u].xid /\ txn'[u].ro = txn[u].ro
                    /\ (u # t => txn'[u] = txn[u] /\ Depth(u)' = Depth(u))
  BY DEF Open, Begun, Depth
<1>5. ~ Open(t)' /\ Begun(t) BY DEF Open, Begun
<1>6. /\ \A s \in Snaps : s.txn \in Txn /\ s.depth \in Nat /\ s.id \in Nat /\ s.id <= last_xid
      /\ last_xid \in Nat /\ last_xid' \in Nat /\ last_xid <= last_xid'
  BY <1>1, SnapsDef DEF ManagerTypeOK, IdsSound
<1>7. \A u \in Txn : Depth(u) \in Nat /\ txn[u].xid \in Nat /\ txn[u].ro \in BOOLEAN /\ txn[u].logged \in BOOLEAN
  BY <1>1, TxnDef
<1>8. \A u, v \in Txn : Begun(u) /\ Begun(v) /\ txn[u].xid = txn[v].xid => u = v BY <1>1 DEF IdsSound
<1>9. IdsSound'
  <2>1. live_root_ids = {txn[u].xid : u \in {v \in Txn : Open(v) /\ ~ txn[v].ro}} BY <1>1 DEF IdsSound
  <2>2. \A v \in Txn : Open(v)' <=> Open(v) /\ v # t BY <1>4, <1>5
  <2>3. \A v \in Txn : Open(v) /\ v # t => txn[v].xid # txn[t].xid BY <1>5, <1>8 DEF Open, Begun
  <2>4. live_root_ids' = {txn'[u].xid : u \in {v \in Txn : Open(v)' /\ ~ txn'[v].ro}}
    BY <2>1, <2>2, <2>3, <1>4
  <2>5. \A u \in Txn : Begun(u)' => txn'[u].xid \in 1 .. last_xid'
    <3>1. \A u \in Txn : Begun(u) => txn[u].xid \in 1 .. last_xid BY <1>1 DEF IdsSound
    <3>2. QED BY <3>1, <1>4, <1>6
  <2>6. \A s \in Snaps' : s.id <= last_xid' BY <1>3, <1>6
  <2>7. QED BY <2>4, <2>5, <2>6, <1>2, <1>4, <1>8 DEF IdsSound
<1>10. \A s \in Snaps' : s.txn # t
  <2>1. ASSUME NEW s \in Snaps', s.txn = t PROVE FALSE
    <3>1. s \in Snaps /\ s.depth \in Nat /\ s.depth <= Depth(t)
      BY <2>1, <1>1, <1>3, <1>6 DEF SnapshotsSound
    <3>2. s.depth = Depth(t) BY <3>1
    <3>3. QED BY <3>2, <2>1, <1>2 DEF Remaining
  <2>2. QED BY <2>1
<1>11. SnapshotsSound'
  <2>1. ASSUME NEW s \in Snaps'
        PROVE  /\ Open(s.txn)' /\ s.depth <= Depth(s.txn)'
               /\ txn_records_snapshot(txn'[s.txn].type, s.depth)
    <3>1. s \in Snaps /\ s.txn \in Txn \ {t} BY <1>3, <1>6, <1>10
    <3>2. Open(s.txn) /\ s.depth <= Depth(s.txn) /\ txn_records_snapshot(txn[s.txn].type, s.depth)
      BY <3>1, <1>1 DEF SnapshotsSound
    <3>3. QED BY <3>1, <3>2, <1>4
  <2>2. ASSUME NEW u \in Txn, Open(u)', NEW d \in 0 .. Depth(u)',
               txn_records_snapshot(txn'[u].type, d)
        PROVE  \E s \in Snaps' : s.txn = u /\ s.depth = d
    <3>1. u # t /\ Open(u) /\ d \in 0 .. Depth(u) /\ txn[u] = txn'[u] BY <2>2, <1>4, <1>5
    <3>2. PICK s \in Snaps : s.txn = u /\ s.depth = d BY <3>1, <2>2, <1>1 DEF SnapshotsSound
    <3>3. s \in Snaps' BY <3>1, <3>2, <1>2 DEF Remaining
    <3>4. QED BY <3>2, <3>3
  <2>3. \A s1, s2 \in Snaps' : s1.txn = s2.txn /\ s1.depth = s2.depth => s1 = s2
    BY <1>1, <1>3 DEF SnapshotsSound
  <2>4. QED BY ONLY <2>1, <2>2, <2>3 DEF SnapshotsSound
<1>12. ListsSound'
  <2>1. \A u \in Txn : Open(u)' => Open(u) BY <1>4, <1>5
  <2>2. QED BY <2>1, <1>1, <1>3, <1>4 DEF ListsSound
<1>13. \A x : {s \in Snaps' : x \in s.list} = RemainingWith(t, x) BY <1>2 DEF RemainingWith
<1>14. ~ txn[t].ro => {s \in Remaining(t) : s.id > txn[t].xid} = RemainingWith(t, txn[t].xid)
  <2>1. SUFFICES ASSUME ~ txn[t].ro
                 PROVE  {s \in Remaining(t) : s.id > txn[t].xid} = RemainingWith(t, txn[t].xid)
    OBVIOUS
  <2>2. \A s \in Snaps : txn[t].xid \in s.list <=> txn[t].xid < s.id BY <2>1, <1>1 DEF ListsSound
  <2>3. \A s \in Snaps : txn[t].xid < s.id <=> s.id > txn[t].xid BY <1>6, <1>7
  <2>4. QED BY <2>2, <2>3 DEF RemainingWith, Remaining
<1>15. txn[t].ro => RemainingWith(t, txn[t].xid) = {}
  <2>1. SUFFICES ASSUME txn[t].ro, NEW s \in Snaps, txn[t].xid \in s.list PROVE FALSE
    BY DEF RemainingWith, Remaining
  <2>2. PICK u \in Txn : Begun(u) /\ ~ txn[u].ro /\ txn[u].xid = txn[t].xid
    BY <2>1, <1>1 DEF ListsSound
  <2>3. QED BY <2>1, <2>2, <1>5, <1>8
<1>16. IsFiniteSet(RemainingWith(t, txn[t].xid))
  <2>1. RemainingWith(t, txn[t].xid) \subseteq Snaps BY DEF RemainingWith, Remaining
  <2>2. QED BY <2>1, <1>1, SnapsDef, FS_Subset
<1>17. \A r \in TuplesLeft(t) :
         /\ r.references > 0 /\ r.references = Cardinality(RemainingWith(t, r.begin_id))
         /\ \E q \in referenced_xids : q.begin_id = r.begin_id /\ q.end_id = r.end_id
  BY EndOfSnapshot
<1>18. \A q \in referenced_xids :
         RemainingWith(t, q.begin_id) # {} => \E r \in TuplesLeft(t) : r.begin_id = q.begin_id
  BY EndOfSnapshot
<1>19. ASSUME NEW r \in TuplesLeft(t)
       PROVE  /\ r.end_id <= last_xid' /\ r.references > 0
              /\ r.references = Cardinality({s \in Snaps' : r.begin_id \in s.list})
              /\ \E u \in Txn : txn'[u].state = "done" /\ txn'[u].xid = r.begin_id
              /\ \A s \in Snaps' : r.begin_id \in s.list <=> r.begin_id < s.id /\ s.id < r.end_id
              /\ r.begin_id # txn[t].xid
  <2>1. PICK q \in referenced_xids : q.begin_id = r.begin_id /\ q.end_id = r.end_id BY <1>17
  <2>2. PICK u \in Txn : txn[u].state = "done" /\ txn[u].xid = r.begin_id
    BY <2>1, <1>1 DEF ReferencesSound
  <2>3. u # t /\ Begun(u) BY <2>2 DEF Open, Begun
  <2>4. txn'[u].state = "done" /\ txn'[u].xid = r.begin_id BY <2>2, <2>3
  <2>5. r.begin_id # txn[t].xid BY <2>2, <2>3, <1>5, <1>8
  <2>6. r.end_id <= last_xid'
    <3>1. q.end_id \in Nat /\ q.end_id <= last_xid BY <2>1, <1>1 DEF ReferencesSound, ManagerTypeOK, Tuple
    <3>2. QED BY <3>1, <2>1, <1>6
  <2>7. \A s \in Snaps' : r.begin_id \in s.list <=> r.begin_id < s.id /\ s.id < r.end_id
    BY <2>1, <1>1, <1>3 DEF ReferencesSound
  <2>8. r.references > 0 /\ r.references = Cardinality({s \in Snaps' : r.begin_id \in s.list})
    <3>1. r.references > 0 /\ r.references = Cardinality(RemainingWith(t, r.begin_id)) BY ONLY <1>17
    <3>2. {s \in Snaps' : r.begin_id \in s.list} = RemainingWith(t, r.begin_id) BY ONLY <1>13
    <3>3. QED BY ONLY <3>1, <3>2
  <2>9. QED BY ONLY <2>4, <2>5, <2>6, <2>7, <2>8, t \in Txn, txn'[t].xid = txn[t].xid, u \in Txn
<1> DEFINE new == [begin_id |-> txn[t].xid, end_id |-> last_xid + 1, references |-> n]
<1>20. ASSUME n # 0
       PROVE  /\ new.end_id <= last_xid' /\ new.references > 0
              /\ new.references = Cardinality({s \in Snaps' : new.begin_id \in s.list})
              /\ \E u \in Txn : txn'[u].state = "done" /\ txn'[u].xid = new.begin_id
              /\ \A s \in Snaps' : new.begin_id \in s.list <=> new.begin_id < s.id /\ s.id < new.end_id
  <2>1. ~ txn[t].ro /\ n = Cardinality(RemainingWith(t, txn[t].xid)) BY <1>14, <1>20
  <2>2. n > 0 /\ last_xid' = last_xid + 1 BY <1>20
  <2>3. \A s \in Snaps' : txn[t].xid \in s.list <=> txn[t].xid < s.id /\ s.id < last_xid + 1
    <3>1. \A s \in Snaps : txn[t].xid \in s.list <=> txn[t].xid < s.id BY <2>1, <1>1 DEF ListsSound
    <3>2. \A s \in Snaps : s.id < last_xid + 1 BY <1>6
    <3>3. QED BY <3>1, <3>2, <1>3
  <2>4. new.begin_id = txn[t].xid /\ new.end_id = last_xid + 1 /\ new.references = n OBVIOUS
  <2>5. {s \in Snaps' : txn[t].xid \in s.list} = RemainingWith(t, txn[t].xid) BY ONLY <1>13
  <2>6. txn'[t].state = "done" /\ txn'[t].xid = txn[t].xid OBVIOUS
  <2>7. last_xid + 1 <= last_xid' BY <2>2, <1>6
  <2> HIDE DEF new
  <2>8. n = Cardinality({s \in Snaps' : txn[t].xid \in s.list}) BY ONLY <2>1, <2>5
  <2>9. QED BY ONLY <2>2, <2>3, <2>4, <2>6, <2>7, <2>8, t \in Txn
<1>21. n = 0 => ~ txn[t].logged \/ RemainingWith(t, txn[t].xid) = {}
  BY <1>7, <1>14, <1>15, <1>16, FS_EmptySet
<1> HIDE DEF new
<1>22. referenced_xids' = IF n = 0 THEN TuplesLeft(t) ELSE TuplesLeft(t) \cup {new} BY DEF new
<1>23. new.begin_id = txn[t].xid BY DEF new
<1>24. ReferencesSound'
  <2>1. \A r \in referenced_xids' :
          /\ r.end_id <= last_xid' /\ r.references > 0
          /\ r.references = Cardinality({s \in Snaps' : r.begin_id \in s.list})
          /\ \E u \in Txn : txn'[u].state = "done" /\ txn'[u].xid = r.begin_id
          /\ \A s \in Snaps' : r.begin_id \in s.list <=> r.begin_id < s.id /\ s.id < r.end_id
    BY ONLY <1>19, <1>20, <1>22
  <2>2. ASSUME NEW u \in Txn, txn'[u].state = "done", txn'[u].logged,
               {s \in Snaps' : txn'[u].xid \in s.list} # {}
        PROVE  \E r \in referenced_xids' : r.begin_id = txn'[u].xid
    <3>1. CASE u # t
      <4>1. txn'[u] = txn[u] BY <3>1, <1>4
      <4>2. With(txn[u].xid) # {} BY <2>2, <4>1, <1>3 DEF With
      <4>3. PICK q \in referenced_xids : q.begin_id = txn[u].xid
        BY <4>1, <4>2, <2>2, <1>1 DEF ReferencesSound
      <4>4. RemainingWith(t, q.begin_id) # {} BY <4>1, <4>3, <1>13, <2>2
      <4>5. PICK r \in TuplesLeft(t) : r.begin_id = q.begin_id BY ONLY <4>3, <4>4, <1>18
      <4>6. r \in referenced_xids' /\ r.begin_id = txn'[u].xid BY ONLY <4>1, <4>3, <4>5, <1>22
      <4>7. QED BY <4>6
    <3>2. CASE u = t
      <4>1. n # 0 BY <3>2, <2>2, <1>13, <1>21
      <4>2. new \in referenced_xids' BY <4>1, <1>22
      <4>3. QED BY <4>2, <3>2, <1>23
    <3>3. QED BY <3>1, <3>2
  <2>3. \A r, q \in referenced_xids' : r.begin_id = q.begin_id => r = q
    <3>1. \A r, q \in TuplesLeft(t) : r.begin_id = q.begin_id => r = q BY EndOfSnapshot
    <3>2. QED BY <3>1, <1>19, <1>22, <1>23
  <2>4. QED BY ONLY <2>1, <2>2, <2>3 DEF ReferencesSound, With
<1>25. QED BY <1>9, <1>11, <1>12, <1>24 DEF SnapshotInv

-----------------------------------------------------------------------------
(* The steps *)

LEMMA RootBegins ==
  ASSUME SnapshotInv, NEW t \in DOMAIN work, toku_txn_begin(t)
  PROVE  SnapshotInv'
<1>1. ManagerTypeOK BY DEF SnapshotInv
<1>2. t \in Txn /\ work[t].type \in SnapshotType /\ work[t].ro \in BOOLEAN
  <2>1. t \in Txn /\ work[t] \in Clients BY <1>1 DEF ManagerTypeOK
  <2>2. QED BY <2>1 DEF Clients
<1>3. PICK type, ro : type = work[t].type /\ ro = work[t].ro OBVIOUS
<1>4. /\ last_xid \in Nat /\ live_root_ids \in SUBSET Nat /\ snapshots \in Seq(Snapshot)
      /\ referenced_xids \in SUBSET Tuple /\ txn \in [Txn -> TxnRecord]
  BY <1>1 DEF ManagerTypeOK
<1>5. toku_txn_manager_start_txn(t, type, ro) /\ work' = work BY <1>3 DEF toku_txn_begin
<1>6. PICK new : new = [NewTxn EXCEPT !.state = "live", !.xid = last_xid + 1, !.type = type, !.ro = ro]
  OBVIOUS
<1>7. /\ new \in TxnRecord /\ new.state = "live" /\ new.xid = last_xid + 1
      /\ new.type = type /\ new.ro = ro /\ new.kids = <<>>
  <2>1. new = [state |-> "live", xid |-> last_xid + 1, type |-> type, ro |-> ro,
               kids |-> <<>>, last_kid |-> 0, logged |-> FALSE]
    BY <1>6 DEF NewTxn
  <2>2. last_xid + 1 \in Nat /\ type \in SnapshotType /\ ro \in BOOLEAN /\ <<>> \in Seq(Nat)
    BY <1>2, <1>3, <1>4
  <2>3. QED BY <2>1, <2>2 DEF TxnRecord
<1>8. PICK live : live = IF ro THEN live_root_ids ELSE live_root_ids \cup {last_xid + 1} OBVIOUS
<1>9. /\ txn[t].state = "unborn" /\ txn' = [txn EXCEPT ![t] = new]
      /\ live_root_ids' = live /\ referenced_xids' = referenced_xids
      /\ oldest_referenced_xid' = set_oldest_referenced_xid(last_xid + 1, live)
      /\ last_xid' = IF txn_records_snapshot(type, 0) THEN last_xid + 1 + 1 ELSE last_xid + 1
      /\ snapshots' = IF txn_records_snapshot(type, 0)
           THEN NewSnapshot(t, 0, last_xid + 1, last_xid + 1 + 1, live) ELSE snapshots
  BY <1>5, <1>6, <1>8 DEF toku_txn_manager_start_txn
<1>10. txn'[t] = new /\ txn' \in [Txn -> TxnRecord] /\ \A u \in Txn \ {t} : txn'[u] = txn[u]
  BY <1>2, <1>4, <1>7, <1>9
<1>11. Depth(t)' = 0 /\ Open(t)' BY <1>7, <1>10 DEF Depth, Open
<1>12. live \in SUBSET Nat BY <1>4, <1>8
<1>13. last_xid' \in Nat /\ last_xid + 1 <= last_xid' /\ last_xid <= last_xid' BY <1>4, <1>9
<1>14. TakesSnapshot(t)
  <2>1. CASE txn_records_snapshot(type, 0)
    <3>1. PICK s : s = [txn |-> t, depth |-> 0, root |-> last_xid + 1, id |-> last_xid + 1 + 1, list |-> live]
      OBVIOUS
    <3>2. s \in Snapshot BY <3>1, <1>2, <1>4, <1>12 DEF Snapshot
    <3>3. s.txn = t /\ s.depth = 0 /\ s.id = last_xid + 1 + 1 /\ s.list = live BY <3>1
    <3>4. snapshots' = Append(snapshots, s) /\ last_xid' = last_xid + 1 + 1
      BY <2>1, <3>1, <1>9 DEF NewSnapshot
    <3>5. Takes(t, s) BY <3>2, <3>3, <3>4, <1>4, <1>7, <1>9, <1>10, <1>11 DEF Takes
    <3>6. QED BY <2>1, <3>2, <3>5, <1>7, <1>10, <1>11 DEF TakesSnapshot
  <2>2. CASE ~ txn_records_snapshot(type, 0)
    BY <2>2, <1>7, <1>9, <1>10, <1>11 DEF TakesSnapshot
  <2>3. QED BY <2>1, <2>2
<1>15. snapshots' \in Seq(Snapshot)
  <2>1. CASE \E s \in Snapshot : Takes(t, s) BY <2>1, <1>4, AppendSnapshot DEF Takes
  <2>2. CASE snapshots' = snapshots BY <2>2, <1>4
  <2>3. QED BY <2>1, <2>2, <1>14 DEF TakesSnapshot
<1>16. oldest_referenced_xid' \in Nat
  <2>1. PICK S : S = live \cup {r.begin_id : r \in referenced_xids}
                       \cup (IF snapshots = <<>> THEN {} ELSE {snapshots[1].id}) \cup {last_xid + 1}
    OBVIOUS
  <2>2. oldest_referenced_xid' = Min(S) BY <2>1, <1>9 DEF set_oldest_referenced_xid
  <2>3. \A r \in referenced_xids : r.begin_id \in Nat BY <1>4 DEF Tuple
  <2>4. snapshots # <<>> => snapshots[1].id \in Nat
    <3>1. snapshots # <<>> => snapshots[1] \in Snapshot BY <1>4
    <3>2. QED BY <3>1 DEF Snapshot
  <2>5. S \in SUBSET Nat /\ S # {}
    <3>1. {r.begin_id : r \in referenced_xids} \in SUBSET Nat BY <2>3
    <3>2. (IF snapshots = <<>> THEN {} ELSE {snapshots[1].id}) \in SUBSET Nat BY <2>4
    <3>3. {last_xid + 1} \in SUBSET Nat /\ last_xid + 1 \in S BY <2>1, <1>4
    <3>4. QED BY <3>1, <3>2, <3>3, <2>1, <1>12
  <2>6. QED BY <2>2, <2>5, LeastIs
<1>17. work' \in [DOMAIN work' -> Clients] /\ DOMAIN work' \subseteq Txn
  BY <1>1, <1>5 DEF ManagerTypeOK
<1>18. ManagerTypeOK'
  BY ONLY <1>4, <1>9, <1>10, <1>12, <1>13, <1>15, <1>16, <1>17 DEF ManagerTypeOK
<1>19. BeginsRoot(t) BY <1>7, <1>8, <1>9, <1>10, <1>11, <1>13 DEF BeginsRoot
<1>20. QED BY <1>2, <1>9, <1>10, <1>13, <1>14, <1>18, <1>19, BeginStep

LEMMA ChildBegins ==
  ASSUME SnapshotInv, NEW t \in DOMAIN work, toku_txn_begin_child(t)
  PROVE  SnapshotInv'
<1>1. ManagerTypeOK BY DEF SnapshotInv
<1>2. t \in Txn BY <1>1 DEF ManagerTypeOK
<1>3. /\ last_xid \in Nat /\ live_root_ids \in SUBSET Nat /\ snapshots \in Seq(Snapshot)
      /\ referenced_xids \in SUBSET Tuple /\ txn \in [Txn -> TxnRecord] /\ oldest_referenced_xid \in Nat
  BY <1>1 DEF ManagerTypeOK
<1>4. toku_txn_manager_start_child_txn(t) /\ work' = work BY DEF toku_txn_begin_child
<1>5. /\ txn[t] \in TxnRecord /\ txn[t].xid \in Nat /\ txn[t].kids \in Seq(Nat) /\ Depth(t) \in Nat
      /\ txn[t].last_kid \in Nat
  BY <1>1, <1>2, TxnDef
<1>6. PICK kid : kid = NextKid(t) OBVIOUS
<1>7. kid \in Nat BY <1>5, <1>6 DEF NextKid
<1>8. PICK new : new = [txn[t] EXCEPT !.kids = Append(@, kid), !.last_kid = kid] OBVIOUS
<1>9. /\ new \in TxnRecord /\ new.xid = txn[t].xid /\ new.ro = txn[t].ro /\ new.type = txn[t].type
      /\ new.kids = Append(txn[t].kids, kid) /\ new.state = txn[t].state
  <2>1. Append(txn[t].kids, kid) \in Seq(Nat) BY <1>5, <1>7
  <2>2. QED BY <2>1, <1>5, <1>7, <1>8 DEF TxnRecord
<1>10. PICK d : d = Depth(t) + 1 OBVIOUS
<1>11. /\ txn[t].state = "live" /\ txn' = [txn EXCEPT ![t] = new]
       /\ live_root_ids' = live_root_ids /\ referenced_xids' = referenced_xids
       /\ oldest_referenced_xid' = oldest_referenced_xid
       /\ last_xid' = IF txn_records_snapshot(txn[t].type, d) THEN last_xid + 1 ELSE last_xid
       /\ snapshots' = IF txn_records_snapshot(txn[t].type, d)
            THEN NewSnapshot(t, d, txn[t].xid, last_xid + 1, live_root_ids) ELSE snapshots
  <2>1. txn' = [txn EXCEPT ![t].kids = Append(@, kid), ![t].last_kid = kid]
    BY <1>4, <1>6 DEF toku_txn_manager_start_child_txn
  <2>2. txn' = [txn EXCEPT ![t] = new] BY <2>1, <1>2, <1>3, <1>8
  <2>3. QED BY <2>2, <1>4, <1>10 DEF toku_txn_manager_start_child_txn
<1>12. txn'[t] = new /\ txn' \in [Txn -> TxnRecord] /\ \A u \in Txn \ {t} : txn'[u] = txn[u]
  BY <1>2, <1>3, <1>9, <1>11
<1>13. Open(t) /\ Open(t)' BY <1>9, <1>11, <1>12 DEF Open
<1>14. Depth(t)' = d /\ d \in Nat
  <2>1. Len(Append(txn[t].kids, kid)) = Len(txn[t].kids) + 1 BY <1>5, <1>7
  <2>2. QED BY <2>1, <1>5, <1>9, <1>10, <1>12 DEF Depth
<1>15. last_xid' \in Nat /\ last_xid <= last_xid' BY <1>3, <1>11
<1>16. TakesSnapshot(t)
  <2>1. CASE txn_records_snapshot(txn[t].type, d)
    <3>1. PICK s : s = [txn |-> t, depth |-> d, root |-> txn[t].xid, id |-> last_xid + 1, list |-> live_root_ids]
      OBVIOUS
    <3>2. s \in Snapshot BY <3>1, <1>2, <1>3, <1>5, <1>14 DEF Snapshot
    <3>3. s.txn = t /\ s.depth = d /\ s.id = last_xid + 1 /\ s.list = live_root_ids BY <3>1
    <3>4. snapshots' = Append(snapshots, s) /\ last_xid' = last_xid + 1
      BY <2>1, <3>1, <1>11 DEF NewSnapshot
    <3>5. txn'[t].xid < last_xid'
      <4>1. txn[t].xid \in 1 .. last_xid BY <1>2, <1>13 DEF SnapshotInv, IdsSound, Open, Begun
      <4>2. QED BY <4>1, <3>4, <1>3, <1>9, <1>12
    <3>6. Takes(t, s) BY <3>2, <3>3, <3>4, <3>5, <1>3, <1>11, <1>14 DEF Takes
    <3>7. QED BY <2>1, <3>2, <3>6, <1>9, <1>12, <1>14 DEF TakesSnapshot
  <2>2. CASE ~ txn_records_snapshot(txn[t].type, d)
    BY <2>2, <1>9, <1>11, <1>12, <1>14 DEF TakesSnapshot
  <2>3. QED BY <2>1, <2>2
<1>17. snapshots' \in Seq(Snapshot)
  <2>1. CASE \E s \in Snapshot : Takes(t, s) BY <2>1, <1>3, AppendSnapshot DEF Takes
  <2>2. CASE snapshots' = snapshots BY <2>2, <1>3
  <2>3. QED BY <2>1, <2>2, <1>16 DEF TakesSnapshot
<1>18. work' \in [DOMAIN work' -> Clients] /\ DOMAIN work' \subseteq Txn
  BY <1>1, <1>4 DEF ManagerTypeOK
<1>19. ManagerTypeOK'
  BY ONLY <1>3, <1>11, <1>12, <1>15, <1>17, <1>18 DEF ManagerTypeOK
<1>20. BeginsChild(t) BY <1>9, <1>10, <1>11, <1>12, <1>13, <1>14 DEF BeginsChild
<1>21. QED BY <1>2, <1>11, <1>12, <1>15, <1>16, <1>19, <1>20, BeginStep

LEMMA ChildCompletes ==
  ASSUME SnapshotInv, NEW t \in DOMAIN work, CompleteChild(t)
  PROVE  SnapshotInv'
<1>1. ManagerTypeOK BY DEF SnapshotInv
<1>2. t \in Txn BY <1>1 DEF ManagerTypeOK
<1>3. txn \in [Txn -> TxnRecord] BY <1>1 DEF ManagerTypeOK
<1>4. txn[t] \in TxnRecord /\ txn[t].kids \in Seq(Nat) /\ Depth(t) \in Nat BY <1>1, <1>2, TxnDef
<1>5. toku_txn_manager_finish_child_txn(t) /\ work' = work /\ txn[t].state \in {"committing", "aborting"}
  BY DEF CompleteChild
<1>6. PICK new : new = [txn[t] EXCEPT !.kids = Front(@), !.state = "live"] OBVIOUS
<1>7. Front(txn[t].kids) \in Seq(Nat) /\ Len(Front(txn[t].kids)) = Depth(t) - 1
  <2>1. PICK kids \in Seq(Nat) : kids = txn[t].kids BY <1>4
  <2>2. Len(kids) > 0 BY <2>1, <1>5 DEF toku_txn_manager_finish_child_txn, Depth
  <2>3. PICK front : front = SubSeq(kids, 1, Len(kids) - 1) OBVIOUS
  <2>4. Len(kids) \in Nat /\ \A i \in 1 .. Len(kids) - 1 : kids[i] \in Nat BY <2>2
  <2>5. \A m \in 0 .. Len(kids) : SubSeq(kids, 1, m) \in Seq(Nat) /\ Len(SubSeq(kids, 1, m)) = m
    BY ONLY kids \in Seq(Nat)
  <2>6. Len(kids) - 1 \in 0 .. Len(kids) BY <2>2, <2>4
  <2>7. front \in Seq(Nat) /\ Len(front) = Len(kids) - 1 BY ONLY <2>3, <2>5, <2>6
  <2>8. QED BY <2>1, <2>3, <2>7 DEF Front, Depth
<1>8. /\ new \in TxnRecord /\ new.xid = txn[t].xid /\ new.ro = txn[t].ro /\ new.type = txn[t].type
      /\ new.kids = Front(txn[t].kids) /\ new.state = "live"
  BY <1>4, <1>6, <1>7 DEF TxnRecord
<1>9. /\ Depth(t) > 0 /\ txn' = [txn EXCEPT ![t] = new]
      /\ live_root_ids' = live_root_ids /\ last_xid' = last_xid
      /\ oldest_referenced_xid' = oldest_referenced_xid
      /\ snapshots' = SnapshotsLeft(t) /\ referenced_xids' = TuplesLeft(t)
  <2>1. txn' = [txn EXCEPT ![t].kids = Front(@), ![t].state = "live"]
    BY <1>5 DEF toku_txn_manager_finish_child_txn
  <2>2. txn' = [txn EXCEPT ![t] = new] BY <2>1, <1>2, <1>3, <1>6
  <2>3. QED BY <2>2, <1>5 DEF toku_txn_manager_finish_child_txn, SnapshotsLeft, TuplesLeft, Records
<1>10. txn'[t] = new /\ txn' \in [Txn -> TxnRecord] /\ \A u \in Txn \ {t} : txn'[u] = txn[u]
  BY <1>2, <1>3, <1>8, <1>9
<1>11. Open(t) /\ Open(t)' BY <1>5, <1>8, <1>10 DEF Open
<1>12. Depth(t)' = Depth(t) - 1 BY <1>7, <1>8, <1>10 DEF Depth
<1>13. snapshots' \in Seq(Snapshot) /\ referenced_xids' \in SUBSET Tuple
  BY <1>2, <1>9, <1>11, EndOfSnapshot
<1>14. ManagerTypeOK' BY <1>1, <1>5, <1>9, <1>10, <1>13 DEF ManagerTypeOK
<1>15. QED BY <1>2, <1>8, <1>9, <1>10, <1>11, <1>12, <1>14, ChildEnds

\* What the end of a root changes, n being the references its tuple gets.
EndsWith(t, n) ==
  /\ n = IF txn[t].ro \/ ~ txn[t].logged THEN 0 ELSE NumReferences(SnapshotsLeft(t), txn[t].xid)
  /\ snapshots' = SnapshotsLeft(t) /\ live_root_ids' = live_root_ids \ {txn[t].xid}
  /\ last_xid' = IF n > 0 THEN last_xid + 1 ELSE last_xid
  /\ referenced_xids' = IF n = 0 THEN TuplesLeft(t)
       ELSE TuplesLeft(t) \cup {[begin_id |-> txn[t].xid, end_id |-> last_xid + 1, references |-> n]}
  /\ txn' = [txn EXCEPT ![t].state = "done"]
  /\ oldest_referenced_xid' = oldest_referenced_xid

LEMMA RootEndsWith ==
  ASSUME NEW t, CompleteRoot(t)
  PROVE  \E n : EndsWith(t, n)
<1>1. toku_txn_manager_finish_txn(t) /\ Depth(t) = 0 BY DEF CompleteRoot
<1>2. SnapshotsLeft(t) = IF txn_records_snapshot(txn[t].type, 0)
                         THEN txn_manager_remove_snapshot_unlocked(t, 0) ELSE snapshots
  BY <1>1 DEF SnapshotsLeft, Records
<1>3. TuplesLeft(t) = IF txn_records_snapshot(txn[t].type, 0)
                      THEN note_snapshot_txn_end(ListOf(t, 0)) ELSE referenced_xids
  BY <1>1 DEF TuplesLeft, Records
<1>4. PICK n : n = IF txn[t].ro \/ ~ txn[t].logged THEN 0
                   ELSE NumReferences(SnapshotsLeft(t), txn[t].xid)
  OBVIOUS
<1>5. EndsWith(t, n) BY <1>1, <1>2, <1>3, <1>4 DEF toku_txn_manager_finish_txn, EndsWith
<1>6. QED BY <1>5

LEMMA RootCompletes ==
  ASSUME SnapshotInv, NEW t \in DOMAIN work, CompleteRoot(t)
  PROVE  SnapshotInv'
<1>1. ManagerTypeOK BY DEF SnapshotInv
<1>2. t \in Txn BY <1>1 DEF ManagerTypeOK
<1>3. txn \in [Txn -> TxnRecord] /\ last_xid \in Nat /\ live_root_ids \in SUBSET Nat
  BY <1>1 DEF ManagerTypeOK
<1>4. txn[t] \in TxnRecord /\ txn[t].xid \in Nat BY <1>1, <1>2, TxnDef
<1>5. /\ toku_txn_manager_finish_txn(t) /\ work' = work
      /\ txn[t].state \in {"committing", "aborting"} /\ Depth(t) = 0
  BY DEF CompleteRoot
<1>6. Open(t) BY <1>5 DEF Open
<1>7. PICK n : EndsWith(t, n) BY RootEndsWith
<1>8. PICK tuple : tuple = [begin_id |-> txn[t].xid, end_id |-> last_xid + 1, references |-> n] OBVIOUS
<1>9. /\ n = IF txn[t].ro \/ ~ txn[t].logged THEN 0 ELSE NumReferences(SnapshotsLeft(t), txn[t].xid)
      /\ snapshots' = SnapshotsLeft(t) /\ live_root_ids' = live_root_ids \ {txn[t].xid}
      /\ last_xid' = IF n > 0 THEN last_xid + 1 ELSE last_xid
      /\ referenced_xids' = IF n = 0 THEN TuplesLeft(t) ELSE TuplesLeft(t) \cup {tuple}
      /\ txn' = [txn EXCEPT ![t].state = "done"]
      /\ oldest_referenced_xid' = oldest_referenced_xid
  BY <1>7, <1>8 DEF EndsWith
<1>10. SnapshotsLeft(t) \in Seq(Snapshot) /\ Increasing(SnapshotsLeft(t))
       /\ Range(SnapshotsLeft(t)) = Remaining(t) /\ TuplesLeft(t) \in SUBSET Tuple
  BY <1>2, <1>6, EndOfSnapshot
<1>11. PICK snaps : snaps = SnapshotsLeft(t) OBVIOUS
<1>12. /\ NumReferences(snaps, txn[t].xid) = Cardinality({s \in Range(snaps) : s.id > txn[t].xid})
       /\ NumReferences(snaps, txn[t].xid) \in Nat
  BY <1>4, <1>10, <1>11, ReferencesCounted
<1>13. /\ n \in Nat
       /\ n = IF txn[t].ro \/ ~ txn[t].logged THEN 0
              ELSE Cardinality({s \in Remaining(t) : s.id > txn[t].xid})
  BY <1>9, <1>10, <1>11, <1>12
<1>14. PICK new : new = [txn[t] EXCEPT !.state = "done"] OBVIOUS
<1>15. /\ new \in TxnRecord /\ new.state = "done" /\ new.xid = txn[t].xid /\ new.logged = txn[t].logged
       /\ new.ro = txn[t].ro
  BY <1>4, <1>14 DEF TxnRecord
<1>16. txn' = [txn EXCEPT ![t] = new] BY <1>2, <1>3, <1>9, <1>14
<1>17. txn'[t] = new /\ txn' \in [Txn -> TxnRecord] /\ \A u \in Txn \ {t} : txn'[u] = txn[u]
  BY <1>2, <1>3, <1>15, <1>16
<1>18. tuple \in Tuple BY <1>3, <1>4, <1>8, <1>13 DEF Tuple
<1>19. last_xid' \in Nat BY <1>3, <1>9
<1>20. ManagerTypeOK'
  <2>1. referenced_xids' \in SUBSET Tuple BY <1>9, <1>10, <1>18
  <2>2. snapshots' \in Seq(Snapshot) BY <1>9, <1>10
  <2>3. live_root_ids' \in SUBSET Nat BY <1>3, <1>9
  <2>4. QED BY <2>1, <2>2, <2>3, <1>1, <1>5, <1>9, <1>17, <1>19 DEF ManagerTypeOK
<1>21. QED BY <1>2, <1>5, <1>6, <1>8, <1>9, <1>13, <1>15, <1>17, <1>20, RootEnds

LEMMA NothingOfTheManager ==
  ASSUME SnapshotInv, UNCHANGED <<managerVars, txn, work>>
  PROVE  SnapshotInv'
<1>1. ManagerTypeOK BY DEF SnapshotInv
<1>2. work' \in [DOMAIN work' -> Clients] /\ DOMAIN work' \subseteq Txn /\ txn' \in [Txn -> TxnRecord]
  BY <1>1 DEF ManagerTypeOK
<1>3. UNCHANGED managerVars /\ txn' = txn OBVIOUS
<1>4. QED BY <1>2, <1>3, QuietStep

LEMMA EndNoted ==
  ASSUME SnapshotInv, NEW t \in DOMAIN work, NEW state \in {"committing", "aborting"}, NoteEnd(t, state)
  PROVE  SnapshotInv'
<1>1. ManagerTypeOK BY DEF SnapshotInv
<1>2. t \in Txn /\ txn \in [Txn -> TxnRecord] BY <1>1 DEF ManagerTypeOK
<1>3. /\ UNCHANGED managerVars /\ work' = work /\ txn[t].state = "live"
      /\ txn' = [txn EXCEPT ![t].state = state]
  BY DEF NoteEnd, clientVars
<1>4. PICK new : new = [txn[t] EXCEPT !.state = state] OBVIOUS
<1>5. txn[t] \in TxnRecord BY <1>2
<1>6. /\ new \in TxnRecord /\ new.state = state /\ new.xid = txn[t].xid /\ new.type = txn[t].type
      /\ new.ro = txn[t].ro /\ new.kids = txn[t].kids
  BY <1>4, <1>5 DEF TxnRecord
<1>7. txn'[t] = new /\ txn' \in [Txn -> TxnRecord] /\ \A u \in Txn \ {t} : txn'[u] = txn[u]
  BY <1>2, <1>3, <1>4, <1>6
<1>8. Open(t) /\ Open(t)' BY <1>3, <1>6, <1>7 DEF Open
<1>9. work' \in [DOMAIN work' -> Clients] /\ DOMAIN work' \subseteq Txn
  BY <1>1, <1>3 DEF ManagerTypeOK
<1>10. \A u \in Txn : /\ txn'[u].xid = txn[u].xid /\ txn'[u].type = txn[u].type
                      /\ txn'[u].ro = txn[u].ro /\ txn'[u].kids = txn[u].kids
                      /\ \/ txn'[u] = txn[u]
                         \/ Open(u) /\ Open(u)'
  BY <1>6, <1>7, <1>8
<1>11. QED BY <1>3, <1>7, <1>9, <1>10, QuietStep

LEMMA Written ==
  ASSUME SnapshotInv, NEW t \in DOMAIN work, Write(t)
  PROVE  SnapshotInv'
<1>1. ManagerTypeOK BY DEF SnapshotInv
<1>2. t \in Txn /\ txn \in [Txn -> TxnRecord] /\ work \in [DOMAIN work -> Clients] /\ DOMAIN work \subseteq Txn
  BY <1>1 DEF ManagerTypeOK
<1>3. /\ UNCHANGED managerVars /\ txn[t].state = "live" /\ work[t].writes # <<>>
      /\ work' = [work EXCEPT ![t].writes = Tail(@)]
      /\ txn' = [txn EXCEPT ![t].logged = TRUE]
  BY DEF Write, Put
<1>4. PICK new : new = [txn[t] EXCEPT !.logged = TRUE] OBVIOUS
<1>5. txn[t] \in TxnRecord BY <1>2
<1>6. /\ new \in TxnRecord /\ new.state = "live" /\ new.xid = txn[t].xid /\ new.type = txn[t].type
      /\ new.ro = txn[t].ro /\ new.kids = txn[t].kids
  BY <1>3, <1>4, <1>5 DEF TxnRecord
<1>7. txn'[t] = new /\ txn' \in [Txn -> TxnRecord] /\ \A u \in Txn \ {t} : txn'[u] = txn[u]
  BY <1>2, <1>3, <1>4, <1>6
<1>8. Open(t) /\ Open(t)' BY <1>3, <1>6, <1>7 DEF Open
<1>9. work' \in [DOMAIN work' -> Clients] /\ DOMAIN work' \subseteq Txn
  <2>1. PICK c \in Clients : c = work[t] BY <1>2
  <2>2. PICK writes : writes = c.writes OBVIOUS
  <2>3. writes \in Seq(UserOps) /\ writes # <<>> BY <2>1, <2>2, <1>3 DEF Clients
  <2>4. Tail(writes) \in Seq(UserOps) BY ONLY <2>3
  <2>5. [c EXCEPT !.writes = Tail(writes)] \in Clients BY <2>4 DEF Clients
  <2>6. work' = [work EXCEPT ![t] = [c EXCEPT !.writes = Tail(writes)]] BY <2>1, <2>2, <1>2, <1>3
  <2>7. QED BY <2>5, <2>6, <1>2
<1>10. \A u \in Txn : /\ txn'[u].xid = txn[u].xid /\ txn'[u].type = txn[u].type
                      /\ txn'[u].ro = txn[u].ro /\ txn'[u].kids = txn[u].kids
                      /\ \/ txn'[u] = txn[u]
                         \/ Open(u) /\ Open(u)'
  BY <1>6, <1>7, <1>8
<1>11. QED BY <1>3, <1>7, <1>9, <1>10, QuietStep

-----------------------------------------------------------------------------
(* The invariant *)

LEMMA InitiallySound == MvccInit => SnapshotInv
<1> SUFFICES ASSUME MvccInit PROVE SnapshotInv OBVIOUS
<1>1. /\ last_xid = 0 /\ live_root_ids = {} /\ snapshots = <<>> /\ referenced_xids = {}
      /\ oldest_referenced_xid = 0 /\ txn = [t \in Txn |-> NewTxn] /\ work \in Workloads
  BY DEF MvccInit, Init
<1>2. NewTxn \in TxnRecord /\ NewTxn.state = "unborn"
  BY DEF NewTxn, TxnRecord, SnapshotType, TXNID_NONE
<1>3. \A t \in Txn : txn[t].state = "unborn" /\ ~ Begun(t) /\ ~ Open(t)
  BY <1>1, <1>2 DEF Begun, Open
<1>4. work \in [DOMAIN work -> Clients] /\ DOMAIN work \subseteq Txn BY <1>1, MvccAssumption
<1>5. ManagerTypeOK BY <1>1, <1>2, <1>4 DEF ManagerTypeOK
<1>6. Snaps = {} BY <1>1 DEF Snaps, Range
<1>7. IdsSound BY <1>1, <1>3, <1>6 DEF IdsSound, Increasing
<1>8. SnapshotsSound /\ ListsSound BY <1>3, <1>6 DEF SnapshotsSound, ListsSound
<1>9. ReferencesSound BY <1>1, <1>3, <1>6 DEF ReferencesSound
<1>10. QED BY <1>5, <1>7, <1>8, <1>9 DEF SnapshotInv

LEMMA StepsSound == SnapshotInv /\ [Next]_vars => SnapshotInv'
<1> SUFFICES ASSUME SnapshotInv, [Next]_vars PROVE SnapshotInv' OBVIOUS
<1>1. CASE \E t \in DOMAIN work : toku_txn_begin(t) BY <1>1, RootBegins
<1>2. CASE \E t \in DOMAIN work : toku_txn_begin_child(t) BY <1>2, ChildBegins
<1>3. CASE \E t \in DOMAIN work : Write(t) BY <1>3, Written
<1>4. CASE \E t \in DOMAIN work : \E state \in {"committing", "aborting"} : NoteEnd(t, state)
  BY <1>4, EndNoted
<1>5. CASE \E t \in DOMAIN work : toku_abort_rollback_item(t)
  BY <1>5, NothingOfTheManager DEF toku_abort_rollback_item, Put
<1>6. CASE \E t \in DOMAIN work : toku_commit_rollback_item(t)
  BY <1>6, NothingOfTheManager DEF toku_commit_rollback_item, Put
<1>7. CASE \E t \in DOMAIN work : CompleteChild(t) BY <1>7, ChildCompletes
<1>8. CASE \E t \in DOMAIN work : CompleteRoot(t) BY <1>8, RootCompletes
<1>9. CASE toku_ft_optimize \/ Query \/ FlushDetach \/ FlushClone \/ FlushApply
  BY <1>9, NothingOfTheManager
     DEF toku_ft_optimize, Query, FlushDetach, FlushClone, FlushApply, clientVars
<1>10. CASE GcClone \/ WriteLeaf \/ EvictLeaf
  BY <1>10, NothingOfTheManager DEF GcClone, WriteLeaf, EvictLeaf, clientVars
<1>11. CASE UNCHANGED vars BY <1>11, NothingOfTheManager DEF vars
<1>12. QED
  BY <1>1, <1>2, <1>3, <1>4, <1>5, <1>6, <1>7, <1>8, <1>9, <1>10, <1>11 DEF Next

\* Ids and snapshots are given out in order, every open transaction that records a snapshot
\* has one, live lists hold the writers that had not ended, and every tuple counts the
\* snapshots that saw its writer live: toku_txn_manager_start_txn, start_child_txn,
\* finish_txn and finish_child_txn of txn_manager.cc keep all of it together.
THEOREM SnapshotInvariantHolds == Spec => []SnapshotInv
<1>1. MvccInit => SnapshotInv BY InitiallySound
<1>2. SnapshotInv /\ [Next]_vars => SnapshotInv' BY StepsSound
<1>3. QED BY <1>1, <1>2, PTL DEF Spec

LEMMA SnapshotSystemSound == SnapshotInv => SnapshotSystem
<1> SUFFICES ASSUME SnapshotInv PROVE SnapshotSystem OBVIOUS
<1>1. ManagerTypeOK /\ IdsSound /\ SnapshotsSound /\ ListsSound /\ ReferencesSound BY DEF SnapshotInv
<1>2. ASSUME NEW r \in referenced_xids
      PROVE  /\ r.references = Cardinality(With(r.begin_id)) /\ With(r.begin_id) # {}
             /\ r.begin_id \notin live_root_ids
             /\ toku_get_youngest_live_list_txnid_for(r.begin_id, snapshot_xids, referenced_xids)
                  = Max({s.id : s \in With(r.begin_id)})
  <2>1. r.references > 0 /\ r.references = Cardinality(With(r.begin_id))
    BY <1>1 DEF ReferencesSound
  <2>2. With(r.begin_id) # {}
    <3>1. With(r.begin_id) = {} => Cardinality(With(r.begin_id)) = 0 BY FS_EmptySet
    <3>2. QED BY <3>1, <2>1
  <2>3. r.begin_id \notin live_root_ids
    <3>1. SUFFICES ASSUME r.begin_id \in live_root_ids PROVE FALSE OBVIOUS
    <3>2. PICK t \in Txn : txn[t].state = "done" /\ txn[t].xid = r.begin_id BY <1>1 DEF ReferencesSound
    <3>3. PICK u \in Txn : Open(u) /\ txn[u].xid = r.begin_id BY <3>1, <1>1 DEF IdsSound
    <3>4. Begun(t) /\ Begun(u) /\ t # u BY <3>2, <3>3 DEF Begun, Open
    <3>5. QED BY <3>2, <3>3, <3>4, <1>1 DEF IdsSound
  <2>4. toku_get_youngest_live_list_txnid_for(r.begin_id, snapshot_xids, referenced_xids)
          = Max({s.id : s \in With(r.begin_id)})
    <3>1. \A q \in referenced_xids : q.begin_id = r.begin_id => q = r BY <1>1 DEF ReferencesSound
    <3>2. PICK older : older = {y \in snapshot_xids : y < r.end_id} OBVIOUS
    <3>3. PICK ids : ids = {s.id : s \in With(r.begin_id)} OBVIOUS
    <3>4. snapshot_xids = {s.id : s \in Snaps} BY DEF snapshot_xids, Snaps, Range
    <3>5. /\ last_xid \in Nat /\ r.begin_id \in Nat
          /\ \A s \in Snaps : s.id \in Nat /\ s.id <= last_xid
      BY <1>1, SnapsDef DEF ManagerTypeOK, IdsSound, Tuple
    <3>6. older \in SUBSET Nat /\ \A x \in older : x <= last_xid BY <3>2, <3>4, <3>5
    <3>7. \A s \in Snaps : r.begin_id \in s.list <=> r.begin_id < s.id /\ s.id < r.end_id
      BY <1>1 DEF ReferencesSound
    <3>8. ids = {x \in older : r.begin_id < x} BY <3>2, <3>3, <3>4, <3>7 DEF With
    <3>9. ids \in SUBSET Nat /\ ids # {} /\ \A x \in ids : x <= last_xid
      <4>1. ids # {} BY <2>2, <3>3
      <4>2. QED BY <4>1, <3>6, <3>8
    <3>10. PICK m : m = Max(ids) OBVIOUS
    <3>11. m \in ids /\ \A x \in ids : m >= x BY <3>5, <3>9, <3>10, GreatestIs
    <3>12. older # {} /\ m \in older /\ m \in Nat /\ r.begin_id < m BY <3>6, <3>8, <3>11
    <3>13. PICK y : y = get_next_older_txnid(r.end_id, snapshot_xids) OBVIOUS
    <3>14. y = CHOOSE x \in older : \A z \in older : z <= x
      BY <3>2, <3>12, <3>13 DEF get_next_older_txnid
    <3>15. y \in older /\ \A z \in older : z <= y
      <4>1. \E x \in older : \A z \in older : x >= z BY <3>5, <3>6, <3>12, GreatestExists
      <4>2. \E x \in older : \A z \in older : z <= x BY <4>1, <3>6
      <4>3. QED BY ONLY <4>2, <3>14
    <3>16. y \in Nat /\ m <= y /\ r.begin_id < y BY <3>5, <3>6, <3>12, <3>15
    <3>17. y = m
      <4>1. y \in ids BY <3>8, <3>15, <3>16
      <4>2. QED BY <4>1, <3>11, <3>12, <3>16
    <3>18. {q \in referenced_xids : q.begin_id = r.begin_id} = {r} BY <3>1
    <3>19. (CHOOSE q \in {r} : TRUE) = r OBVIOUS
    <3>20. toku_get_youngest_live_list_txnid_for(r.begin_id, snapshot_xids, referenced_xids)
             = IF y > r.begin_id THEN y ELSE TXNID_NONE
      BY <3>13, <3>18, <3>19 DEF toku_get_youngest_live_list_txnid_for
    <3>21. QED BY <3>3, <3>5, <3>10, <3>16, <3>17, <3>20
  <2>5. QED BY <2>1, <2>2, <2>3, <2>4
<1>3. ASSUME NEW t \in Txn, txn[t].state = "done", txn[t].logged
      PROVE  (\E r \in referenced_xids : r.begin_id = txn[t].xid)
               <=> \E s \in Snaps : txn[t].xid \in s.list
  <2>1. ASSUME NEW r \in referenced_xids, r.begin_id = txn[t].xid
        PROVE  \E s \in Snaps : txn[t].xid \in s.list
    BY <2>1, <1>2 DEF With
  <2>2. ASSUME NEW s \in Snaps, txn[t].xid \in s.list
        PROVE  \E r \in referenced_xids : r.begin_id = txn[t].xid
    <3>1. With(txn[t].xid) # {} BY <2>2 DEF With
    <3>2. QED BY <3>1, <1>1, <1>3 DEF ReferencesSound
  <2>3. QED BY <2>1, <2>2
<1>4. \A x : With(x) = {s \in Range(snapshots) : x \in s.list} BY DEF With, Snaps
<1>5. Snaps = Range(snapshots) BY DEF Snaps
<1>6. QED BY ONLY <1>2, <1>3, <1>4, <1>5 DEF SnapshotSystem

\* What verify_snapshot_system of txn_manager.cc asserts, in every reachable state: every
\* finished writer in a live list has its tuple, the tuple counts exactly the snapshots that
\* have it, and garbage collection finds the youngest of them.
THEOREM SnapshotSystemHolds == Spec => []SnapshotSystem
<1>1. SnapshotInv => SnapshotSystem BY SnapshotSystemSound
<1>2. QED BY <1>1, SnapshotInvariantHolds, PTL

-----------------------------------------------------------------------------
(* What promotion goes by *)

\* A step that does not recompute the oldest id makes nothing older than it.
LEMMA OldestStays ==
  ASSUME OldestSound, ManagerTypeOK, ManagerTypeOK',
         oldest_referenced_xid' = oldest_referenced_xid, last_xid <= last_xid',
         live_root_ids' \subseteq live_root_ids,
         \A r \in referenced_xids' : \/ \E q \in referenced_xids : q.begin_id = r.begin_id
                                     \/ r.begin_id \in live_root_ids,
         \A s \in Snaps' : s \in Snaps \/ last_xid < s.id,
         \A t \in Txn : txn'[t].logged => Begun(t)' /\ ~ txn'[t].ro
  PROVE  OldestSound'
<1>1. oldest_referenced_xid \in Nat /\ last_xid \in Nat /\ last_xid' \in Nat /\ Snaps' = Range(snapshots')
  BY DEF ManagerTypeOK, Snaps
<1>2. \A s \in Snaps' : s.id \in Nat
  <2>1. snapshots' \in Seq(Snapshot) BY DEF ManagerTypeOK
  <2>2. \A s \in Range(snapshots') : s \in Snapshot BY <2>1, InRange
  <2>3. QED BY <2>2, <1>1 DEF Snapshot
<1>3. oldest_referenced_xid <= last_xid BY DEF OldestSound
<1>4. \A s \in Snaps' : oldest_referenced_xid <= s.id
  <2>1. ASSUME NEW s \in Snaps', last_xid < s.id PROVE oldest_referenced_xid <= s.id
    BY <2>1, <1>1, <1>2, <1>3
  <2>2. QED BY <2>1 DEF OldestSound
<1>5. \A r \in referenced_xids' : oldest_referenced_xid <= r.begin_id BY DEF OldestSound
<1>6. oldest_referenced_xid <= last_xid' BY <1>1, <1>3
<1>7. \A x \in live_root_ids' : oldest_referenced_xid <= x BY DEF OldestSound
<1>8. QED BY <1>4, <1>5, <1>6, <1>7 DEF OldestSound

\* The begin of a root recomputes it.
LEMMA OldestAtBegin ==
  ASSUME SnapshotInv, OldestSound, NEW t \in DOMAIN work, toku_txn_begin(t)
  PROVE  OldestSound' /\ oldest_referenced_xid <= oldest_referenced_xid'
<1>1. ManagerTypeOK /\ IdsSound BY DEF SnapshotInv
<1>2. PICK type, ro : type = work[t].type /\ ro = work[t].ro OBVIOUS
<1>3. /\ last_xid \in Nat /\ live_root_ids \in SUBSET Nat /\ snapshots \in Seq(Snapshot)
      /\ referenced_xids \in SUBSET Tuple /\ txn \in [Txn -> TxnRecord] /\ oldest_referenced_xid \in Nat
      /\ t \in Txn
  BY <1>1 DEF ManagerTypeOK
<1>4. PICK live : live = IF ro THEN live_root_ids ELSE live_root_ids \cup {last_xid + 1} OBVIOUS
<1>5. /\ live_root_ids' = live /\ referenced_xids' = referenced_xids
      /\ oldest_referenced_xid' = set_oldest_referenced_xid(last_xid + 1, live)
      /\ last_xid' = IF txn_records_snapshot(type, 0) THEN last_xid + 1 + 1 ELSE last_xid + 1
      /\ snapshots' = IF txn_records_snapshot(type, 0)
           THEN NewSnapshot(t, 0, last_xid + 1, last_xid + 1 + 1, live) ELSE snapshots
      /\ \A u \in Txn \ {t} : txn'[u] = txn[u]
      /\ txn'[t].logged = FALSE
  BY <1>2, <1>3, <1>4 DEF toku_txn_begin, toku_txn_manager_start_txn, NewTxn
<1>6. PICK S : S = live \cup {r.begin_id : r \in referenced_xids}
                     \cup (IF snapshots = <<>> THEN {} ELSE {snapshots[1].id}) \cup {last_xid + 1}
  OBVIOUS
<1>7. oldest_referenced_xid' = Min(S) BY <1>5, <1>6 DEF set_oldest_referenced_xid
<1>8. /\ \A s \in Snaps : s.id \in Nat /\ s.id <= last_xid
      /\ \A r \in referenced_xids : r.begin_id \in Nat
  BY <1>1, <1>3, SnapsDef DEF IdsSound, Tuple
<1>9. snapshots # <<>> => /\ snapshots[1] \in Snaps
                          /\ \A s \in Snaps : snapshots[1].id <= s.id
  <2>1. SUFFICES ASSUME snapshots # <<>>
                 PROVE  snapshots[1] \in Snaps /\ \A s \in Snaps : snapshots[1].id <= s.id
    OBVIOUS
  <2>2. 1 \in DOMAIN snapshots BY <2>1, <1>3
  <2>3. snapshots[1] \in Snaps BY <2>2 DEF Snaps, Range
  <2>4. ASSUME NEW s \in Snaps PROVE snapshots[1].id <= s.id
    <3>1. PICK i \in DOMAIN snapshots : s = snapshots[i] BY <2>4 DEF Snaps, Range
    <3>2. i \in Nat /\ i >= 1 BY <3>1, <1>3
    <3>3. CASE i = 1 BY <3>1, <3>3, <2>3, <1>8
    <3>4. CASE i > 1
      <4>1. snapshots[1].id < snapshots[i].id BY <3>1, <3>2, <3>4, <2>2, <1>1 DEF IdsSound, Increasing
      <4>2. QED BY <4>1, <3>1, <2>3, <1>8
    <3>5. QED BY <3>2, <3>3, <3>4
  <2>5. QED BY <2>3, <2>4
<1>10. \A x \in S : x \in Nat /\ oldest_referenced_xid <= x
  <2>1. \A x \in live : x \in Nat /\ oldest_referenced_xid <= x BY <1>3, <1>4 DEF OldestSound
  <2>2. \A r \in referenced_xids : r.begin_id \in Nat /\ oldest_referenced_xid <= r.begin_id
    BY <1>8 DEF OldestSound
  <2>3. \A s \in Snaps : s.id \in Nat /\ oldest_referenced_xid <= s.id BY <1>8 DEF OldestSound
  <2>4. last_xid + 1 \in Nat /\ oldest_referenced_xid <= last_xid + 1 BY <1>3 DEF OldestSound
  <2>5. \A x \in (IF snapshots = <<>> THEN {} ELSE {snapshots[1].id}) :
          x \in Nat /\ oldest_referenced_xid <= x
    BY <2>3, <1>9
  <2>6. QED BY <2>1, <2>2, <2>4, <2>5, <1>6
<1>11. Min(S) \in S /\ \A x \in S : Min(S) <= x
  <2>1. S \in SUBSET Nat /\ last_xid + 1 \in S BY <1>6, <1>10
  <2>2. QED BY <2>1, LeastIs
<1>12. PICK o : o = oldest_referenced_xid' OBVIOUS
<1>13. o \in Nat /\ o \in S /\ (\A x \in S : o <= x) /\ oldest_referenced_xid <= o
  BY <1>7, <1>10, <1>11, <1>12
<1>14. o <= last_xid + 1 /\ (\A x \in live_root_ids' : o <= x) /\ \A r \in referenced_xids' : o <= r.begin_id
  BY <1>5, <1>6, <1>13
<1>15. o <= last_xid' BY <1>3, <1>5, <1>13, <1>14
<1>16. ASSUME NEW s \in Snaps' PROVE o <= s.id
  <2>1. CASE s \in Snaps
    <3>1. snapshots # <<>> BY <2>1, <1>3 DEF Snaps, Range
    <3>2. snapshots[1].id \in S BY <3>1, <1>6
    <3>3. o <= snapshots[1].id /\ snapshots[1].id <= s.id BY <3>1, <3>2, <2>1, <1>9, <1>13
    <3>4. snapshots[1].id \in Nat /\ s.id \in Nat BY <3>1, <2>1, <1>8, <1>9
    <3>5. QED BY <3>3, <3>4, <1>13
  <2>2. CASE s \notin Snaps
    <3>1. txn_records_snapshot(type, 0) BY <2>2, <1>5, <1>16 DEF Snaps
    <3>2. PICK new : new = [txn |-> t, depth |-> 0, root |-> last_xid + 1, id |-> last_xid + 1 + 1, list |-> live]
      OBVIOUS
    <3>3. new \in Snapshot /\ new.id = last_xid + 1 + 1
      <4>1. live \in SUBSET Nat BY <1>3, <1>4
      <4>2. QED BY <4>1, <3>2, <1>3 DEF Snapshot
    <3>4. snapshots' = Append(snapshots, new) BY <3>1, <3>2, <1>5 DEF NewSnapshot
    <3>5. Snaps' = Snaps \cup {new}
      <4>1. Range(Append(snapshots, new)) = Range(snapshots) \cup {new} BY <3>3, <1>3, AppendSnapshot
      <4>2. QED BY <4>1, <3>4 DEF Snaps
    <3>6. s.id = last_xid + 1 + 1 BY <3>3, <3>5, <2>2, <1>16
    <3>7. QED BY <3>6, <1>3, <1>13, <1>14
  <2>3. QED BY <2>1, <2>2
<1>17. \A u \in Txn : txn'[u].logged => Begun(u)' /\ ~ txn'[u].ro
  BY <1>5 DEF OldestSound, Begun
<1>18. OldestSound' BY <1>12, <1>14, <1>15, <1>16, <1>17 DEF OldestSound
<1>19. QED BY <1>12, <1>13, <1>18

LEMMA OldestAtChildBegin ==
  ASSUME SnapshotInv, SnapshotInv', OldestSound, NEW t \in DOMAIN work, toku_txn_begin_child(t)
  PROVE  OldestSound' /\ oldest_referenced_xid' = oldest_referenced_xid
<1>1. ManagerTypeOK /\ ManagerTypeOK' BY DEF SnapshotInv
<1>2. /\ t \in Txn /\ txn \in [Txn -> TxnRecord] /\ last_xid \in Nat /\ live_root_ids \in SUBSET Nat
      /\ snapshots \in Seq(Snapshot)
  BY <1>1 DEF ManagerTypeOK
<1>3. PICK d, kid : d = Depth(t) + 1 /\ kid = NextKid(t) OBVIOUS
<1>4. /\ txn[t].state = "live" /\ txn' = [txn EXCEPT ![t].kids = Append(@, kid), ![t].last_kid = kid]
      /\ live_root_ids' = live_root_ids /\ referenced_xids' = referenced_xids
      /\ oldest_referenced_xid' = oldest_referenced_xid
      /\ last_xid' = IF txn_records_snapshot(txn[t].type, d) THEN last_xid + 1 ELSE last_xid
      /\ snapshots' = IF txn_records_snapshot(txn[t].type, d)
           THEN NewSnapshot(t, d, txn[t].xid, last_xid + 1, live_root_ids) ELSE snapshots
  BY <1>3 DEF toku_txn_begin_child, toku_txn_manager_start_child_txn
<1>5. \A u \in Txn : txn'[u].logged = txn[u].logged /\ txn'[u].state = txn[u].state /\ txn'[u].ro = txn[u].ro
  <2>1. txn[t] \in TxnRecord BY <1>2
  <2>2. QED BY <2>1, <1>2, <1>4 DEF TxnRecord
<1>6. ASSUME NEW s \in Snaps', s \notin Snaps PROVE last_xid < s.id
  <2>1. txn_records_snapshot(txn[t].type, d) BY <1>4, <1>6 DEF Snaps
  <2>2. PICK new : new = [txn |-> t, depth |-> d, root |-> txn[t].xid, id |-> last_xid + 1, list |-> live_root_ids]
    OBVIOUS
  <2>3. new \in Snapshot /\ new.id = last_xid + 1
    <3>1. d \in Nat /\ txn[t].xid \in Nat BY <1>1, <1>2, <1>3, TxnDef
    <3>2. QED BY <3>1, <2>2, <1>2 DEF Snapshot
  <2>4. snapshots' = Append(snapshots, new) BY <2>1, <2>2, <1>4 DEF NewSnapshot
  <2>5. Range(Append(snapshots, new)) = Range(snapshots) \cup {new} BY <2>3, <1>2, AppendSnapshot
  <2>6. Snaps' = Snaps \cup {new} BY <2>4, <2>5 DEF Snaps
  <2>7. QED BY <2>3, <2>6, <1>2, <1>6
<1>7. \A u \in Txn : txn'[u].logged => Begun(u)' /\ ~ txn'[u].ro BY <1>5 DEF OldestSound, Begun
<1>8. last_xid <= last_xid' BY <1>2, <1>4
<1>9. QED BY <1>1, <1>4, <1>6, <1>7, <1>8, OldestStays

LEMMA OldestAtEnd ==
  ASSUME SnapshotInv, SnapshotInv', OldestSound, NEW t \in DOMAIN work,
         CompleteChild(t) \/ CompleteRoot(t)
  PROVE  OldestSound' /\ oldest_referenced_xid' = oldest_referenced_xid
<1>1. ManagerTypeOK /\ ManagerTypeOK' /\ IdsSound BY DEF SnapshotInv
<1>2. /\ t \in Txn /\ txn \in [Txn -> TxnRecord] /\ last_xid \in Nat /\ txn[t] \in TxnRecord
  BY <1>1 DEF ManagerTypeOK
<1>3. Open(t)
  <2>1. CompleteChild(t) => txn[t].state \in {"committing", "aborting"} BY DEF CompleteChild
  <2>2. CompleteRoot(t) => txn[t].state \in {"committing", "aborting"} BY DEF CompleteRoot
  <2>3. QED BY <2>1, <2>2 DEF Open
<1>4. Range(SnapshotsLeft(t)) \subseteq Snaps
      /\ \A r \in TuplesLeft(t) : \E q \in referenced_xids : q.begin_id = r.begin_id
  BY <1>2, <1>3, EndOfSnapshot DEF Remaining
<1>5. CASE CompleteChild(t)
  <2>1. /\ live_root_ids' = live_root_ids /\ last_xid' = last_xid
        /\ oldest_referenced_xid' = oldest_referenced_xid
        /\ snapshots' = SnapshotsLeft(t) /\ referenced_xids' = TuplesLeft(t)
        /\ txn' = [txn EXCEPT ![t].kids = Front(@), ![t].state = "live"]
    BY <1>5 DEF CompleteChild, toku_txn_manager_finish_child_txn, SnapshotsLeft, TuplesLeft, Records
  <2>2. \A u \in Txn : /\ txn'[u].logged = txn[u].logged /\ txn'[u].ro = txn[u].ro
                       /\ txn'[u].state = txn[u].state \/ txn'[u].state = "live"
    BY <2>1, <1>2 DEF TxnRecord
  <2>3. \A u \in Txn : txn'[u].logged => Begun(u)' /\ ~ txn'[u].ro BY <2>2 DEF OldestSound, Begun
  <2>4. last_xid <= last_xid' /\ Snaps' \subseteq Snaps BY <2>1, <1>2, <1>4 DEF Snaps
  <2>5. QED BY <2>1, <2>3, <2>4, <1>1, <1>4, OldestStays
<1>6. CASE CompleteRoot(t)
  <2>1. PICK n : EndsWith(t, n) BY <1>6, RootEndsWith
  <2>2. PICK tuple : tuple = [begin_id |-> txn[t].xid, end_id |-> last_xid + 1, references |-> n] OBVIOUS
  <2>3. /\ txn[t].ro => n = 0
        /\ snapshots' = SnapshotsLeft(t) /\ live_root_ids' = live_root_ids \ {txn[t].xid}
        /\ last_xid' = IF n > 0 THEN last_xid + 1 ELSE last_xid
        /\ referenced_xids' = IF n = 0 THEN TuplesLeft(t) ELSE TuplesLeft(t) \cup {tuple}
        /\ txn' = [txn EXCEPT ![t].state = "done"]
        /\ oldest_referenced_xid' = oldest_referenced_xid
    BY <2>1, <2>2 DEF EndsWith
  <2>4. ~ txn[t].ro => tuple.begin_id \in live_root_ids BY <2>2, <1>1, <1>2, <1>3 DEF IdsSound
  <2>5. \A u \in Txn : /\ txn'[u].logged = txn[u].logged /\ txn'[u].ro = txn[u].ro
                       /\ txn'[u].state = txn[u].state \/ txn'[u].state = "done"
    BY <2>3, <1>2 DEF TxnRecord
  <2>6. \A u \in Txn : txn'[u].logged => Begun(u)' /\ ~ txn'[u].ro BY <2>5 DEF OldestSound, Begun
  <2>7. last_xid <= last_xid' /\ Snaps' \subseteq Snaps BY <2>3, <1>2, <1>4 DEF Snaps
  <2>8. \A r \in referenced_xids' : \/ \E q \in referenced_xids : q.begin_id = r.begin_id
                                    \/ r.begin_id \in live_root_ids
    BY <2>3, <2>4, <1>2, <1>4 DEF TxnRecord
  <2>9. live_root_ids' \subseteq live_root_ids BY <2>3
  <2>10. QED BY <2>3, <2>6, <2>7, <2>8, <2>9, <1>1, OldestStays
<1>7. QED BY <1>5, <1>6

\* Whatever else leaves the manager alone; who writes has begun and is no reader.
LEMMA OldestElsewhere ==
  ASSUME SnapshotInv, SnapshotInv', OldestSound, UNCHANGED managerVars,
         \A u \in Txn : txn'[u].logged => Begun(u)' /\ ~ txn'[u].ro
  PROVE  OldestSound' /\ oldest_referenced_xid' = oldest_referenced_xid
<1>1. ManagerTypeOK /\ ManagerTypeOK' BY DEF SnapshotInv
<1>2. last_xid \in Nat BY <1>1 DEF ManagerTypeOK
<1>3. QED BY <1>1, <1>2, OldestStays DEF managerVars, Snaps

LEMMA OldestSteps ==
  ASSUME SnapshotInv, SnapshotInv', OldestSound, [Next]_vars
  PROVE  OldestSound' /\ oldest_referenced_xid <= oldest_referenced_xid'
<1>1. ManagerTypeOK BY DEF SnapshotInv
<1>2. /\ oldest_referenced_xid \in Nat /\ DOMAIN work \subseteq Txn /\ txn \in [Txn -> TxnRecord]
      /\ \A u \in Txn : txn[u] \in TxnRecord
  BY <1>1 DEF ManagerTypeOK
<1>3. \A u \in Txn : txn[u].logged => Begun(u) /\ ~ txn[u].ro BY DEF OldestSound
<1>4. CASE UNCHANGED <<managerVars, txn>>
  <2>1. \A u \in Txn : txn'[u].logged => Begun(u)' /\ ~ txn'[u].ro BY <1>3, <1>4 DEF Begun
  <2>2. QED BY <2>1, <1>2, <1>4, OldestElsewhere
<1>5. CASE \E t \in DOMAIN work : toku_txn_begin(t) BY <1>5, OldestAtBegin
<1>6. CASE \E t \in DOMAIN work : toku_txn_begin_child(t) BY <1>6, <1>2, OldestAtChildBegin
<1>7. CASE \E t \in DOMAIN work : CompleteChild(t) \/ CompleteRoot(t) BY <1>7, <1>2, OldestAtEnd
<1>8. CASE \E t \in DOMAIN work : Write(t)
  <2>1. PICK t \in DOMAIN work : Write(t) BY <1>8
  <2>2. /\ UNCHANGED managerVars /\ txn[t].state = "live" /\ ~ txn[t].ro
        /\ txn' = [txn EXCEPT ![t].logged = TRUE] /\ t \in Txn
    BY <2>1, <1>2 DEF Write, Put
  <2>3. \A u \in Txn : /\ txn'[u].ro = txn[u].ro /\ txn'[u].state = txn[u].state
                       /\ u # t => txn'[u].logged = txn[u].logged
    BY <2>2, <1>2 DEF TxnRecord
  <2>4. \A u \in Txn : txn'[u].logged => Begun(u)' /\ ~ txn'[u].ro BY <2>2, <2>3, <1>3 DEF Begun
  <2>5. QED BY <2>2, <2>4, <1>2, OldestElsewhere
<1>9. CASE \E t \in DOMAIN work : \E state \in {"committing", "aborting"} : NoteEnd(t, state)
  <2>1. PICK t \in DOMAIN work, state \in {"committing", "aborting"} : NoteEnd(t, state) BY <1>9
  <2>2. UNCHANGED managerVars /\ txn' = [txn EXCEPT ![t].state = state] /\ t \in Txn
    BY <2>1, <1>2 DEF NoteEnd
  <2>3. \A u \in Txn : /\ txn'[u].ro = txn[u].ro /\ txn'[u].logged = txn[u].logged
                       /\ txn'[u].state = txn[u].state \/ txn'[u].state = state
    BY <2>2, <1>2 DEF TxnRecord
  <2>4. \A u \in Txn : txn'[u].logged => Begun(u)' /\ ~ txn'[u].ro BY <2>3, <1>3 DEF Begun
  <2>5. QED BY <2>2, <2>4, <1>2, OldestElsewhere
<1>10. CASE \E t \in DOMAIN work : toku_abort_rollback_item(t) \/ toku_commit_rollback_item(t)
  BY <1>4, <1>10 DEF toku_abort_rollback_item, toku_commit_rollback_item, Put
<1>11. CASE toku_ft_optimize \/ Query \/ FlushDetach \/ FlushClone \/ FlushApply
  BY <1>4, <1>11 DEF toku_ft_optimize, Query, FlushDetach, FlushClone, FlushApply
<1>12. CASE GcClone \/ WriteLeaf \/ EvictLeaf BY <1>4, <1>12 DEF GcClone, WriteLeaf, EvictLeaf
<1>13. CASE UNCHANGED vars BY <1>4, <1>13 DEF vars
<1>14. QED BY <1>5, <1>6, <1>7, <1>8, <1>9, <1>10, <1>11, <1>12, <1>13 DEF Next

\* A leaf has the fields a leaf has.
IsLeaf(l) == l = [le |-> l.le, known |-> l.known, dirty |-> l.dirty, applied |-> l.applied]

\* A step in which nodes learn what was known already, or the oldest id itself.
LEMMA KnownFrom ==
  ASSUME KnownSound, oldest_referenced_xid \in Nat, oldest_referenced_xid' \in Nat,
         oldest_referenced_xid <= oldest_referenced_xid', IsLeaf(leaf'), IsLeaf(disk'),
         KnownIds' \subseteq KnownIds \cup {oldest_referenced_xid}
  PROVE  KnownSound'
<1>1. \A id \in KnownIds : id \in Nat /\ id <= oldest_referenced_xid BY DEF KnownSound
<1>2. \A id \in KnownIds' : id \in Nat /\ id <= oldest_referenced_xid' BY <1>1
<1>3. \A l \in {leaf', disk'} :
        l = [le |-> l.le, known |-> l.known, dirty |-> l.dirty, applied |-> l.applied]
  BY DEF IsLeaf
<1>4. QED BY <1>2, <1>3 DEF KnownSound

LEMMA KnownSteps ==
  ASSUME SnapshotInv, SnapshotInv', KnownSound, oldest_referenced_xid <= oldest_referenced_xid',
         [Next]_vars
  PROVE  KnownSound'
<1>1. oldest_referenced_xid \in Nat /\ oldest_referenced_xid' \in Nat
  BY DEF SnapshotInv, ManagerTypeOK
<1>2. IsLeaf(leaf) /\ IsLeaf(disk) BY DEF KnownSound, IsLeaf
<1>3. PICK a, b, c, d : leaf = [le |-> a, known |-> b, dirty |-> c, applied |-> d] BY <1>2 DEF IsLeaf
<1>4. SUFFICES IsLeaf(leaf') /\ IsLeaf(disk') /\ KnownIds' \subseteq KnownIds \cup {oldest_referenced_xid}
  BY <1>1, KnownFrom
<1>5. CASE UNCHANGED treeVars BY <1>2, <1>5 DEF treeVars, KnownIds
<1>6. ASSUME NEW m, InjectAbove(m) \/ InjectLeaf(m), UNCHANGED <<disk, job>>
      PROVE  IsLeaf(leaf') /\ IsLeaf(disk') /\ KnownIds' \subseteq KnownIds \cup {oldest_referenced_xid}
  <2>1. CASE InjectAbove(m)
    <3>1. leaf' = leaf /\ above_known' \in {above_known, oldest_referenced_xid}
      BY <2>1 DEF InjectAbove, Newer
    <3>2. QED BY <3>1, <1>2, <1>6 DEF KnownIds
  <2>2. CASE InjectLeaf(m)
    <3>1. PICK known : known = Newer(leaf.known, oldest_referenced_xid) OBVIOUS
    <3>2. PICK gc : gc = GcInfo(oldest_referenced_xid, known, FALSE, toku_txn_manager_clone_state_for_gc)
      OBVIOUS
    <3>3. PICK le : le = toku_ft_bn_apply_msg(leaf.le, m, gc, ForceGc) OBVIOUS
    <3>4. leaf' = [leaf EXCEPT !.le = le, !.known = known, !.dirty = TRUE]
      BY <2>2, <3>1, <3>2, <3>3 DEF InjectLeaf
    <3>5. above_known' = above_known BY <2>2 DEF InjectLeaf
    <3>6. leaf' = [le |-> le, known |-> known, dirty |-> TRUE, applied |-> leaf.applied]
      BY <3>4, <1>3
    <3>7. IsLeaf(leaf') /\ leaf'.known = known BY <3>6 DEF IsLeaf
    <3>8. known \in {leaf.known, oldest_referenced_xid} BY <3>1 DEF Newer
    <3>9. QED BY <3>5, <3>7, <3>8, <1>2, <1>6 DEF KnownIds
  <2>3. QED BY <2>1, <2>2, <1>6
<1>7. CASE \E t \in DOMAIN work : \/ toku_txn_begin(t) \/ toku_txn_begin_child(t)
                                  \/ CompleteChild(t) \/ CompleteRoot(t)
  <2>1. ASSUME NEW t, toku_txn_begin(t) PROVE UNCHANGED treeVars BY <2>1 DEF toku_txn_begin
  <2>2. ASSUME NEW t, toku_txn_begin_child(t) PROVE UNCHANGED treeVars BY <2>2 DEF toku_txn_begin_child
  <2>3. ASSUME NEW t, CompleteChild(t) PROVE UNCHANGED treeVars BY <2>3 DEF CompleteChild
  <2>4. ASSUME NEW t, CompleteRoot(t) PROVE UNCHANGED treeVars BY <2>4 DEF CompleteRoot
  <2>5. UNCHANGED treeVars BY ONLY <2>1, <2>2, <2>3, <2>4, <1>7
  <2>6. QED BY <2>5, <1>5
<1>8. CASE \E t \in DOMAIN work : \E state \in {"committing", "aborting"} : NoteEnd(t, state)
  BY <1>5, <1>8 DEF NoteEnd
<1>9. CASE \E t \in DOMAIN work : Write(t) BY <1>6, <1>9 DEF Write, Put
<1>10. CASE \E t \in DOMAIN work : toku_abort_rollback_item(t)
  BY <1>6, <1>10 DEF toku_abort_rollback_item, Put
<1>11. CASE \E t \in DOMAIN work : toku_commit_rollback_item(t)
  BY <1>5, <1>6, <1>11 DEF toku_commit_rollback_item, Put
<1>12. CASE toku_ft_optimize
  <2>1. leaf' = leaf /\ disk' = disk /\ job' = job
        /\ above_known' \in {above_known, oldest_referenced_xid}
    BY <1>12 DEF toku_ft_optimize, Newer
  <2>2. QED BY <2>1, <1>2 DEF KnownIds
<1>13. CASE Query
  <2>1. PICK gc : gc = GcInfo(oldest_referenced_xid, leaf.known, FALSE, toku_txn_manager_clone_state_for_gc)
    OBVIOUS
  <2>2. PICK n : n = Len(above) OBVIOUS
  <2>3. PICK le : le = ApplyAll(leaf.le, SubSeq(above, leaf.applied + 1, n), gc) OBVIOUS
  <2>4. leaf' = [leaf EXCEPT !.le = le, !.applied = n] BY <1>13, <2>1, <2>2, <2>3 DEF Query
  <2>5. disk' = disk /\ job' = job /\ above_known' = above_known BY <1>13 DEF Query
  <2>6. leaf' = [le |-> le, known |-> leaf.known, dirty |-> leaf.dirty, applied |-> n]
    BY <2>4, <1>3
  <2>7. IsLeaf(leaf') /\ leaf'.known = leaf.known BY <2>6 DEF IsLeaf
  <2>8. QED BY <2>5, <2>7, <1>2 DEF KnownIds
<1>14. CASE FlushDetach
  <2>1. leaf' = [leaf EXCEPT !.applied = 0, !.dirty = TRUE] /\ disk' = disk /\ above_known' = above_known
    BY <1>14 DEF FlushDetach
  <2>2. leaf' = [le |-> leaf.le, known |-> leaf.known, dirty |-> TRUE, applied |-> 0]
    BY <2>1, <1>3
  <2>3. IsLeaf(leaf') /\ leaf'.known = leaf.known BY <2>2 DEF IsLeaf
  <2>4. job'.kind = "detached" /\ job'.known = above_known BY <1>14 DEF FlushDetach
  <2>5. QED BY <2>1, <2>3, <2>4, <1>2 DEF KnownIds
<1>15. CASE FlushClone
  <2>1. leaf' = leaf /\ disk' = disk /\ above_known' = above_known /\ job.kind = "detached"
    BY <1>15 DEF FlushClone
  <2>2. /\ job'.kind = "flush" /\ job'.known = job.known
        /\ job'.gc.simple = oldest_referenced_xid /\ job'.gc.promote = leaf.known
    BY <1>15 DEF FlushClone, GcInfo
  <2>3. QED BY <2>1, <2>2, <1>2 DEF KnownIds
<1>16. CASE FlushApply
  <2>1. PICK le : le = ApplyAll(leaf.le, job.msgs, job.gc) OBVIOUS
  <2>2. leaf' = [leaf EXCEPT !.le = le, !.known = job.known] BY <1>16, <2>1 DEF FlushApply
  <2>3. disk' = disk /\ above_known' = above_known /\ job.kind = "flush" /\ job' = Idle
    BY <1>16 DEF FlushApply
  <2>4. leaf' = [le |-> le, known |-> job.known, dirty |-> leaf.dirty, applied |-> leaf.applied]
    BY <2>2, <1>3
  <2>5. IsLeaf(leaf') /\ leaf'.known = job.known BY <2>4 DEF IsLeaf
  <2>6. job'.kind = "idle" BY <2>3 DEF Idle
  <2>7. QED BY <2>3, <2>5, <2>6, <1>2 DEF KnownIds
<1>17. CASE GcClone
  <2>1. leaf' = leaf /\ disk' = disk /\ above_known' = above_known BY <1>17 DEF GcClone
  <2>2. /\ job'.kind = "gc"
        /\ job'.gc.simple = oldest_referenced_xid /\ job'.gc.promote = leaf.known
    BY <1>17 DEF GcClone, GcInfo
  <2>3. QED BY <2>1, <2>2, <1>2 DEF KnownIds
<1>18. CASE WriteLeaf
  <2>1. PICK le : le = IF toku_le_worth_running_garbage_collection(leaf.le, job.gc)
                       THEN toku_le_garbage_collect(leaf.le, job.gc) ELSE leaf.le
    OBVIOUS
  <2>2. leaf' = [leaf EXCEPT !.le = le, !.dirty = FALSE] BY <1>18, <2>1 DEF WriteLeaf
  <2>3. disk' = leaf' /\ above_known' = above_known /\ job' = Idle BY <1>18 DEF WriteLeaf
  <2>4. leaf' = [le |-> le, known |-> leaf.known, dirty |-> FALSE, applied |-> leaf.applied]
    BY <2>2, <1>3
  <2>5. IsLeaf(leaf') /\ leaf'.known = leaf.known BY <2>4 DEF IsLeaf
  <2>6. job'.kind = "idle" BY <2>3 DEF Idle
  <2>7. QED BY <2>3, <2>5, <2>6 DEF KnownIds
<1>19. CASE EvictLeaf
  <2>1. leaf' = disk /\ disk' = disk /\ above_known' = above_known /\ job' = job
    BY <1>19 DEF EvictLeaf
  <2>2. QED BY <2>1, <1>2 DEF KnownIds
<1>20. CASE UNCHANGED vars BY <1>5, <1>20 DEF vars, treeVars
<1>21. QED
  BY <1>7, <1>8, <1>9, <1>10, <1>11, <1>12, <1>13, <1>14, <1>15, <1>16, <1>17, <1>18, <1>19, <1>20 DEF Next

LEMMA InitiallyKnown == MvccInit => PromotionInv
<1> SUFFICES ASSUME MvccInit PROVE PromotionInv OBVIOUS
<1>1. /\ last_xid = 0 /\ live_root_ids = {} /\ snapshots = <<>> /\ referenced_xids = {}
      /\ oldest_referenced_xid = 0 /\ txn = [t \in Txn |-> NewTxn]
      /\ above_known = 0 /\ job = Idle /\ leaf = EmptyLeaf /\ disk = EmptyLeaf
  BY DEF MvccInit, Init
<1>2. \A t \in Txn : txn[t].logged = FALSE BY <1>1 DEF NewTxn
<1>3. Snaps = {} BY <1>1 DEF Snaps, Range
<1>4. OldestSound BY <1>1, <1>2, <1>3 DEF OldestSound
<1>5. KnownIds = {0} BY <1>1 DEF KnownIds, Idle, EmptyLeaf
<1>6. KnownSound BY <1>1, <1>5 DEF KnownSound, EmptyLeaf
<1>7. QED BY <1>4, <1>6 DEF PromotionInv

\* No live transaction, snapshot or tuple is older than the oldest referenced id, and no node,
\* flush or garbage collection knows a younger one: what toku_txn_manager_start_txn computes
\* and oldest_referenced_xid_known of the nodes and the gc_info of flushes carry down the tree.
THEOREM PromotionInvariantHolds == Spec => []PromotionInv
<1>1. MvccInit => PromotionInv BY InitiallyKnown
<1>2. SnapshotInv /\ SnapshotInv' /\ PromotionInv /\ [Next]_vars => PromotionInv'
  BY OldestSteps, KnownSteps DEF PromotionInv
<1>3. QED BY <1>1, <1>2, SnapshotInvariantHolds, PTL DEF Spec

\* The oldest referenced id never goes back (txn_manager.cc recomputes it at every begin), so
\* a node that learned it before is told nothing false.
THEOREM OldestNeverGoesBack == Spec => OldestGrows
<1>1. SnapshotInv /\ SnapshotInv' /\ PromotionInv /\ [Next]_vars
        => [oldest_referenced_xid <= oldest_referenced_xid']_vars
  BY OldestSteps DEF PromotionInv
<1>2. QED BY <1>1, SnapshotInvariantHolds, PromotionInvariantHolds, PTL DEF Spec, OldestGrows

LEMMA PromotionIsSafe == SnapshotInv /\ PromotionInv => PromotionSafe
<1> SUFFICES ASSUME SnapshotInv, PromotionInv,
                    NEW id \in KnownIds \cup {oldest_referenced_xid},
                    NEW t \in Txn, txn[t].logged, txn[t].xid < id
             PROVE  txn[t].state = "done" /\ \A s \in Range(snapshots) : txn[t].xid \notin s.list
  BY DEF PromotionSafe
<1>1. ManagerTypeOK /\ IdsSound /\ ReferencesSound /\ OldestSound /\ KnownSound
  BY DEF SnapshotInv, PromotionInv
<1>2. oldest_referenced_xid \in Nat /\ txn[t].xid \in Nat BY <1>1, TxnDef DEF ManagerTypeOK
<1>3. txn[t].xid < oldest_referenced_xid
  <2>1. id \in Nat /\ id <= oldest_referenced_xid BY <1>1, <1>2 DEF KnownSound
  <2>2. QED BY <2>1, <1>2
<1>4. Begun(t) /\ ~ txn[t].ro BY <1>1 DEF OldestSound
<1>5. txn[t].state = "done"
  <2>1. SUFFICES ASSUME txn[t].state # "done" PROVE FALSE OBVIOUS
  <2>2. Open(t) BY <2>1, <1>4 DEF Open, Begun
  <2>3. txn[t].xid \in live_root_ids BY <2>2, <1>1, <1>4 DEF IdsSound
  <2>4. oldest_referenced_xid <= txn[t].xid BY <2>3, <1>1 DEF OldestSound
  <2>5. QED BY <2>4, <1>2, <1>3
<1>6. ASSUME NEW s \in Range(snapshots), txn[t].xid \in s.list PROVE FALSE
  <2>1. With(txn[t].xid) # {} BY <1>6 DEF With, Snaps
  <2>2. PICK r \in referenced_xids : r.begin_id = txn[t].xid BY <2>1, <1>1, <1>5 DEF ReferencesSound
  <2>3. oldest_referenced_xid <= txn[t].xid BY <2>2, <1>1 DEF OldestSound
  <2>4. QED BY <2>3, <1>2, <1>3
<1>7. QED BY <1>5, <1>6

\* Garbage collection and implicit promotion are told the truth: the tuples are exact, and
\* a writer below any id that a node knows has ended and is in no live list, however long
\* ago the node learned the id (ule.cc goes by them without a lock of the manager).
THEOREM CollectionIsSafe == Spec => []CollectionSafe
<1>1. SnapshotInv /\ PromotionInv => CollectionSafe
  BY SnapshotSystemSound, PromotionIsSafe DEF CollectionSafe
<1>2. QED BY <1>1, SnapshotInvariantHolds, PromotionInvariantHolds, PTL
=============================================================================
