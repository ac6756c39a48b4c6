-------------------------- MODULE BlockTableProofs --------------------------
(***************************************************************************)
(* Proofs about the block table, for any number of blocks, places, changes,*)
(* checkpoints and crashes: recovery always finds a header whose           *)
(* checkpoint is whole, and the space of the file is accounted for.        *)
(***************************************************************************)
EXTENDS BlockTable, FiniteSetTheorems, TLAPS

(* The least and the greatest of a set of numbers *)

LEMMA LeastExists ==
  ASSUME NEW S \in SUBSET Nat, S # {}
  PROVE  \E x \in S : \A y \in S : x <= y
<1>1. PICK x \in S : \A y \in S : ~ (<<y, x>> \in OpToRel(<, Nat))
  BY NatLessThanWellFounded, WFMin
<1>2. ASSUME NEW y \in S PROVE x <= y
  <2>1. x \in Nat /\ y \in Nat OBVIOUS
  <2>2. ~ (y < x) BY <1>1, <2>1 DEF OpToRel
  <2>3. QED BY <2>1, <2>2
<1>3. QED BY <1>2

LEMMA MinIs ==
  ASSUME NEW S \in SUBSET Nat, S # {}
  PROVE  Min(S) \in S /\ \A y \in S : Min(S) <= y
BY LeastExists DEF Min

LEMMA MaxIs ==
  ASSUME NEW S \in SUBSET Nat, NEW n \in Nat, S # {}, \A x \in S : x <= n
  PROVE  Max(S) \in S /\ \A y \in S : Max(S) >= y
<1> DEFINE B == {m \in Nat : \A x \in S : x <= m}
<1>1. PICK m \in B : \A k \in B : m <= k
  <2>1. B \in SUBSET Nat /\ n \in B OBVIOUS
  <2>2. QED BY <2>1, LeastExists
<1>2. m \in S
  <2>1. SUFFICES ASSUME m \notin S PROVE FALSE OBVIOUS
  <2>2. PICK s \in S : TRUE OBVIOUS
  <2>3. m \in Nat /\ s \in Nat /\ s <= m /\ s # m BY <2>1
  <2>4. m - 1 \in Nat BY <2>3
  <2>5. \A x \in S : x <= m - 1
    <3>1. ASSUME NEW x \in S PROVE x <= m - 1
      <4>1. x \in Nat /\ x <= m /\ x # m BY <2>1
      <4>2. QED BY <4>1, <2>3
    <3>2. QED BY <3>1
  <2>6. m <= m - 1 BY <2>4, <2>5, <1>1
  <2>7. QED BY <2>6, <2>3
<1>3. \A y \in S : m >= y OBVIOUS
<1>4. QED BY <1>2, <1>3 DEF Max

-----------------------------------------------------------------------------
(* Translations *)

LEMMA Constants ==
  /\ NumBlocks \in Nat /\ Blocks \in SUBSET Nat /\ Blocks \in SUBSET Int
  /\ Offsets \in SUBSET Nat /\ Offsets \in SUBSET Int /\ Offsets # {}
  /\ None \notin Int /\ None \notin Offsets /\ None \notin Blocks /\ None \notin Stamps
  /\ Null \notin Offsets /\ Unused \notin Offsets /\ Null \notin Blocks /\ Unused \notin Blocks
  /\ Null # Unused /\ Null \in Int /\ Unused \in Int /\ None # Unused /\ None # Null
<1>1. /\ NumBlocks \in Nat /\ Offsets \in SUBSET Nat /\ Offsets # {} /\ None \notin Int
      /\ MaxStamp \in Nat
  BY BlockTableAssumption DEF BlockTableAssumption
<1>2. Blocks \in SUBSET Nat /\ Stamps \in SUBSET Nat BY <1>1 DEF Blocks, Stamps
<1>3. /\ Blocks \in SUBSET Int /\ Offsets \in SUBSET Int /\ Null \in Int /\ Unused \in Int
      /\ Null \notin Nat /\ Unused \notin Nat /\ Null # Unused /\ Stamps \in SUBSET Int
  BY <1>1, <1>2 DEF Null, Unused
<1>4. QED BY <1>1, <1>2, <1>3

LEMMA FieldTypes ==
  ASSUME NEW t \in Translations
  PROVE  /\ t.u \in [Blocks -> Values] /\ t.free \in SUBSET Blocks /\ t.head \in Blocks \cup {Null}
         /\ t.smallest \in 0 .. NumBlocks /\ t.smallest \in Nat /\ t.btt \in Offsets \cup {Unused}
         /\ t = Translation(t.u, t.free, t.head, t.smallest, t.btt)
<1>1. NumBlocks \in Nat BY Constants
<1>2. QED BY <1>1 DEF Translations, Translation

LEMMA MakeTranslation ==
  ASSUME NEW u \in [Blocks -> Values], NEW f \in SUBSET Blocks, NEW h \in Blocks \cup {Null},
         NEW s \in 0 .. NumBlocks, NEW o \in Offsets \cup {Unused}
  PROVE  /\ Translation(u, f, h, s, o) \in Translations
         /\ Translation(u, f, h, s, o).u = u /\ Translation(u, f, h, s, o).free = f
         /\ Translation(u, f, h, s, o).head = h /\ Translation(u, f, h, s, o).smallest = s
         /\ Translation(u, f, h, s, o).btt = o
BY DEF Translations, Translation

\* The blocks have the same places in both; what the free list looks like does not matter.
SamePlaces(s, t) ==
  \A b \in Blocks : (HasPlace(s, b) <=> HasPlace(t, b)) /\ (HasPlace(t, b) => s.u[b] = t.u[b])

\* s is t with block b at o.
Moved(s, t, b, o) ==
  /\ s.btt = t.btt
  /\ \A c \in Blocks : (IsAllocated(s, c) <=> IsAllocated(t, c)) /\ s.u[c] = IF c = b THEN o ELSE t.u[c]

\* s is t without block b.
Dropped(s, t, b) ==
  /\ s.btt = t.btt
  /\ \A c \in Blocks : /\ IsAllocated(s, c) <=> IsAllocated(t, c) /\ c # b
                       /\ c # b => s.u[c] = t.u[c]

LEMMA PlaceIsOffset ==
  ASSUME NEW t \in Translations, Usable(t), NEW b \in Blocks, HasPlace(t, b)
  PROVE  t.u[b] \in Offsets /\ t.u[b] \in OffsetsOf(t) /\ t.u[b] # Unused /\ t.u[b] # None
<1>1. t.u[b] \in Offsets BY DEF Usable, HasPlace
<1>2. QED BY <1>1, Constants DEF OffsetsOf, HasPlace

LEMMA OffsetIs ==
  ASSUME NEW t \in Translations, NEW x \in OffsetsOf(t)
  PROVE  x = t.btt \/ \E b \in Blocks : HasPlace(t, b) /\ t.u[b] = x
BY DEF OffsetsOf

LEMMA OffsetsAre ==
  ASSUME NEW t \in Translations, Usable(t)
  PROVE  OffsetsOf(t) \subseteq Offsets
<1>1. ASSUME NEW x \in OffsetsOf(t) PROVE x \in Offsets
  <2>1. x # Unused BY DEF OffsetsOf
  <2>2. CASE x = t.btt BY <2>1, <2>2, FieldTypes
  <2>3. CASE \E b \in Blocks : HasPlace(t, b) /\ t.u[b] = x BY <2>3, PlaceIsOffset
  <2>4. QED BY <2>2, <2>3, OffsetIs
<1>2. QED BY <1>1

LEMMA NoTranslationFacts ==
  /\ NoTranslation \in Translations /\ Usable(NoTranslation) /\ NoTranslation.btt = Unused
  /\ \A b : ~ IsAllocated(NoTranslation, b) \/ b \notin Blocks
  /\ \A b \in Blocks : ~ HasPlace(NoTranslation, b)
  /\ OffsetsOf(NoTranslation) = {}
<1> DEFINE u == [b \in Blocks |-> Null]
<1>1. u \in [Blocks -> Values] BY DEF Values
<1>2. 0 \in 0 .. NumBlocks BY Constants
<1>3. /\ NoTranslation \in Translations /\ NoTranslation.u = u /\ NoTranslation.free = {}
      /\ NoTranslation.head = Null /\ NoTranslation.smallest = 0 /\ NoTranslation.btt = Unused
  BY <1>1, <1>2, MakeTranslation DEF NoTranslation
<1>4. \A b \in Blocks : ~ IsAllocated(NoTranslation, b)
  BY <1>3, Constants DEF IsAllocated, Blocks
<1>5. \A b \in Blocks : ~ HasPlace(NoTranslation, b) BY <1>4 DEF HasPlace
<1>6. FreeListSound(NoTranslation) BY <1>3 DEF FreeListSound
<1>7. QED BY <1>3, <1>4, <1>5, <1>6 DEF Usable, OffsetsOf

LEMMA AllocateInFacts ==
  ASSUME NEW t \in Translations, Usable(t), NEW n \in Blocks, n = NextBlocknum(t)
  PROVE  /\ AllocateIn(t) \in Translations /\ Usable(AllocateIn(t)) /\ AllocateIn(t).btt = t.btt
         /\ ~ IsAllocated(t, n) /\ IsAllocated(AllocateIn(t), n) /\ AllocateIn(t).u[n] = Unused
         /\ \A c \in Blocks : c # n =>
              (IsAllocated(AllocateIn(t), c) <=> IsAllocated(t, c)) /\ AllocateIn(t).u[c] = t.u[c]
<1> DEFINE v == [t.u EXCEPT ![n] = Unused]
<1>0. /\ t.u \in [Blocks -> Values] /\ t.free \in SUBSET Blocks /\ t.head \in Blocks \cup {Null}
      /\ t.smallest \in 0 .. NumBlocks /\ t.smallest \in Nat /\ t.btt \in Offsets \cup {Unused}
      /\ t = Translation(t.u, t.free, t.head, t.smallest, t.btt)
  BY FieldTypes
<1>1. v \in [Blocks -> Values] /\ v[n] = Unused /\ \A c \in Blocks : c # n => v[c] = t.u[c]
  BY <1>0 DEF Values
<1> HIDE DEF v
<1>2. /\ FreeListSound(t)
      /\ \A b \in Blocks : IsAllocated(t, b) => t.u[b] \in Offsets \cup {Unused}
      /\ \A b \in Blocks : HasPlace(t, b) => t.u[b] # t.btt
      /\ \A b, c \in Blocks : HasPlace(t, b) /\ HasPlace(t, c) /\ t.u[b] = t.u[c] => b = c
  BY DEF Usable
<1>3. /\ t.free \subseteq 0 .. t.smallest - 1 /\ t.head \in t.free \cup {Null}
      /\ \A b \in t.free : t.u[b] = Null \/ (t.u[b] \in t.free /\ t.u[b] # t.head)
      /\ \A b, c \in t.free : t.u[b] = t.u[c] /\ t.u[b] # Null => b = c
  BY <1>2 DEF FreeListSound
<1>4. CASE t.head = Null
  <2>1. n = t.smallest /\ t.smallest + 1 \in 0 .. NumBlocks /\ n \in Nat
    BY <1>4, <1>0, Constants DEF NextBlocknum, Blocks
  <2>2. AllocateIn(t) = Translation(v, t.free, t.head, t.smallest + 1, t.btt)
    BY <1>0, <1>4, <2>1 DEF AllocateIn, Translation, v
  <2>3. /\ AllocateIn(t) \in Translations /\ AllocateIn(t).u = v /\ AllocateIn(t).free = t.free
        /\ AllocateIn(t).head = t.head /\ AllocateIn(t).smallest = t.smallest + 1
        /\ AllocateIn(t).btt = t.btt
    BY <1>0, <1>1, <2>1, <2>2, MakeTranslation
  <2>4. \A c \in Blocks : c \in t.free => c # n BY <1>3, <2>1, <1>0
  <2>5. /\ ~ IsAllocated(t, n) /\ IsAllocated(AllocateIn(t), n)
        /\ \A c \in Blocks : c # n => (IsAllocated(AllocateIn(t), c) <=> IsAllocated(t, c))
    BY <2>1, <2>3, <2>4, <1>0, Constants DEF IsAllocated
  <2>6. FreeListSound(AllocateIn(t))
    <3>1. t.free \subseteq 0 .. (t.smallest + 1) - 1 BY <1>3, <1>0
    <3>2. \A b \in t.free : b \in Blocks /\ v[b] = t.u[b] BY <1>0, <1>1, <2>4
    <3>3. QED BY <3>1, <3>2, <1>3, <2>3 DEF FreeListSound
  <2>7. QED BY <2>3, <2>5, <2>6, <1>1, <1>2 DEF Usable, HasPlace
<1>5. CASE t.head # Null
  <2>1. n = t.head /\ n \in t.free BY <1>5, <1>3 DEF NextBlocknum
  <2>2. AllocateIn(t) = Translation(v, t.free \ {n}, t.u[n], t.smallest, t.btt)
    BY <1>0, <1>5, <2>1 DEF AllocateIn, Translation, v
  <2>3. t.u[n] \in (t.free \ {n}) \cup {Null} BY <1>3, <2>1
  <2>4. /\ AllocateIn(t) \in Translations /\ AllocateIn(t).u = v /\ AllocateIn(t).free = t.free \ {n}
        /\ AllocateIn(t).head = t.u[n] /\ AllocateIn(t).smallest = t.smallest
        /\ AllocateIn(t).btt = t.btt
    <3>1. t.u[n] \in Blocks \cup {Null} /\ t.free \ {n} \in SUBSET Blocks BY <2>3, <1>0
    <3>2. QED BY <3>1, <1>0, <1>1, <2>2, MakeTranslation
  <2>5. /\ ~ IsAllocated(t, n) /\ IsAllocated(AllocateIn(t), n)
        /\ \A c \in Blocks : c # n => (IsAllocated(AllocateIn(t), c) <=> IsAllocated(t, c))
    <3>1. n < t.smallest BY <2>1, <1>3, <1>0
    <3>2. QED BY <3>1, <2>1, <2>4 DEF IsAllocated
  <2>6. FreeListSound(AllocateIn(t))
    <3>1. t.free \ {n} \subseteq 0 .. t.smallest - 1 BY <1>3
    <3>2. \A b \in t.free \ {n} : b \in Blocks /\ v[b] = t.u[b] BY <1>0, <1>1
    <3>3. ASSUME NEW b \in t.free \ {n}
          PROVE  v[b] = Null \/ (v[b] \in t.free \ {n} /\ v[b] # t.u[n])
      <4>1. t.u[b] = Null \/ (t.u[b] \in t.free /\ t.u[b] # n) BY <1>3, <2>1
      <4>2. t.u[b] # Null => t.u[b] # t.u[n] BY <1>3, <2>1
      <4>3. QED BY <4>1, <4>2, <3>2
    <3>4. QED BY <3>1, <3>2, <3>3, <2>3, <1>3, <2>4 DEF FreeListSound
  <2>7. QED BY <2>4, <2>5, <2>6, <1>1, <1>2 DEF Usable, HasPlace
<1>6. QED BY <1>4, <1>5

LEMMA MovedFacts ==
  ASSUME NEW t \in Translations, Usable(t), NEW b \in Blocks, IsAllocated(t, b), NEW o \in Offsets,
         o # t.btt, \A c \in Blocks : HasPlace(t, c) /\ t.u[c] = o => c = b
  PROVE  /\ [t EXCEPT !.u[b] = o] \in Translations /\ Usable([t EXCEPT !.u[b] = o])
         /\ Moved([t EXCEPT !.u[b] = o], t, b, o)
<1> DEFINE v == [t.u EXCEPT ![b] = o]
           s == [t EXCEPT !.u[b] = o]
<1>0. /\ t.u \in [Blocks -> Values] /\ t.free \in SUBSET Blocks /\ t.head \in Blocks \cup {Null}
      /\ t.smallest \in 0 .. NumBlocks /\ t.smallest \in Nat /\ t.btt \in Offsets \cup {Unused}
      /\ t = Translation(t.u, t.free, t.head, t.smallest, t.btt)
  BY FieldTypes
<1>1. v \in [Blocks -> Values] /\ v[b] = o /\ \A c \in Blocks : c # b => v[c] = t.u[c]
  BY <1>0 DEF Values
<1>2. s = Translation(v, t.free, t.head, t.smallest, t.btt)
  BY <1>0 DEF Translation
<1> HIDE DEF v, s
<1>3. /\ s \in Translations /\ s.u = v /\ s.free = t.free /\ s.head = t.head
      /\ s.smallest = t.smallest /\ s.btt = t.btt
  BY <1>0, <1>1, <1>2, MakeTranslation
<1>4. \A c \in Blocks : IsAllocated(s, c) <=> IsAllocated(t, c) BY <1>3 DEF IsAllocated
<1>5. Moved(s, t, b, o) BY <1>1, <1>3, <1>4 DEF Moved
<1>6. FreeListSound(s)
  <2>1. b \notin t.free BY DEF IsAllocated
  <2>2. \A c \in t.free : c \in Blocks /\ v[c] = t.u[c] BY <1>0, <1>1, <2>1
  <2>3. QED BY <2>2, <1>3 DEF Usable, FreeListSound
<1>7. \A c \in Blocks : HasPlace(s, c) <=> (c = b \/ HasPlace(t, c))
  BY <1>1, <1>3, <1>4, Constants DEF HasPlace
<1>8. Usable(s)
  <2>1. \A c \in Blocks : IsAllocated(s, c) => s.u[c] \in Offsets \cup {Unused}
    BY <1>1, <1>3, <1>4 DEF Usable
  <2>2. \A c \in Blocks : HasPlace(s, c) => s.u[c] # s.btt
    BY <1>1, <1>3, <1>7 DEF Usable
  <2>3. \A c, d \in Blocks : HasPlace(s, c) /\ HasPlace(s, d) /\ s.u[c] = s.u[d] => c = d
    BY <1>1, <1>3, <1>7 DEF Usable
  <2>4. QED BY <1>6, <2>1, <2>2, <2>3 DEF Usable
<1>9. QED BY <1>3, <1>5, <1>8 DEF s

LEMMA FreeInFacts ==
  ASSUME NEW t \in Translations, Usable(t), NEW b \in Blocks, IsAllocated(t, b)
  PROVE  /\ FreeIn(t, b) \in Translations /\ Usable(FreeIn(t, b)) /\ Dropped(FreeIn(t, b), t, b)
         /\ FreeIn(t, b).u[b] \notin Offsets \/ FreeIn(t, b).u[b] \in Blocks
<1> DEFINE v == [t.u EXCEPT ![b] = t.head]
           s == FreeIn(t, b)
<1>0. /\ t.u \in [Blocks -> Values] /\ t.free \in SUBSET Blocks /\ t.head \in Blocks \cup {Null}
      /\ t.smallest \in 0 .. NumBlocks /\ t.smallest \in Nat /\ t.btt \in Offsets \cup {Unused}
      /\ t = Translation(t.u, t.free, t.head, t.smallest, t.btt)
  BY FieldTypes
<1>1. v \in [Blocks -> Values] /\ v[b] = t.head /\ \A c \in Blocks : c # b => v[c] = t.u[c]
  BY <1>0 DEF Values
<1>2. s = Translation(v, t.free \cup {b}, b, t.smallest, t.btt)
  <2>1. PICK u, f, h, n, o : t = [u |-> u, free |-> f, head |-> h, smallest |-> n, btt |-> o]
    BY <1>0 DEF Translation
  <2> DEFINE w == [t EXCEPT !.u[b] = t.head]
  <2>2. w = [u |-> [u EXCEPT ![b] = h], free |-> f, head |-> h, smallest |-> n, btt |-> o]
    BY ONLY <2>1
  <2>3. FreeIn(t, b) = [w EXCEPT !.head = b, !.free = t.free \cup {b}] BY ONLY DEF FreeIn
  <2>4. s = [u |-> [u EXCEPT ![b] = h], free |-> f \cup {b}, head |-> b, smallest |-> n, btt |-> o]
    BY ONLY <2>1, <2>2, <2>3 DEF s
  <2>5. QED BY ONLY <2>1, <2>4 DEF Translation, v
<1> HIDE DEF v, s
<1>3. /\ s \in Translations /\ s.u = v /\ s.free = t.free \cup {b} /\ s.head = b
      /\ s.smallest = t.smallest /\ s.btt = t.btt
  BY <1>0, <1>1, <1>2, MakeTranslation
<1>4. \A c \in Blocks : IsAllocated(s, c) <=> IsAllocated(t, c) /\ c # b BY <1>3 DEF IsAllocated
<1>5. Dropped(s, t, b) BY <1>1, <1>3, <1>4 DEF Dropped
<1>6. FreeListSound(s)
  <2>1. b \notin t.free /\ b < t.smallest BY DEF IsAllocated
  <2>2. \A c \in t.free : c \in Blocks /\ v[c] = t.u[c] BY <1>0, <1>1, <2>1
  <2>3. /\ t.free \subseteq 0 .. t.smallest - 1 /\ t.head \in t.free \cup {Null}
        /\ \A c \in t.free : t.u[c] = Null \/ (t.u[c] \in t.free /\ t.u[c] # t.head)
        /\ \A c, d \in t.free : t.u[c] = t.u[d] /\ t.u[c] # Null => c = d
    BY DEF Usable, FreeListSound
  <2>4. t.free \cup {b} \subseteq 0 .. t.smallest - 1
    BY <2>1, <2>3, <1>0, Constants
  <2>5. ASSUME NEW c \in t.free \cup {b}
        PROVE  v[c] = Null \/ (v[c] \in t.free \cup {b} /\ v[c] # b)
    BY <2>1, <2>2, <2>3, <1>1
  <2>6. ASSUME NEW c \in t.free \cup {b}, NEW d \in t.free \cup {b}, v[c] = v[d], v[c] # Null
        PROVE  c = d
    BY <2>2, <2>3, <2>6, <1>1
  <2>7. QED BY <1>3, <2>4, <2>5, <2>6 DEF FreeListSound
<1>7. Usable(s)
  <2>1. \A c \in Blocks : HasPlace(s, c) => HasPlace(t, c) /\ c # b /\ s.u[c] = t.u[c]
    BY <1>1, <1>3, <1>4 DEF HasPlace
  <2>2. \A c \in Blocks : IsAllocated(s, c) => s.u[c] \in Offsets \cup {Unused}
    BY <1>1, <1>3, <1>4 DEF Usable
  <2>3. QED BY <1>3, <1>6, <2>1, <2>2 DEF Usable
<1>8. QED BY <1>0, <1>1, <1>3, <1>5, <1>7, Constants DEF s

LEMMA ListFacts ==
  ASSUME NEW F \in SUBSET Blocks, NEW h, NEW b \in F
  PROVE  /\ ListHead(F, h) \in F /\ b <= ListHead(F, h)
         /\ \/ ListNext(F, h, b) = h /\ \A c \in F : ~ (c < b)
            \/ /\ ListNext(F, h, b) \in F /\ ListNext(F, h, b) < b
               /\ \A c \in F : c < b => c <= ListNext(F, h, b)
<1>0. F \in SUBSET Nat /\ NumBlocks \in Nat /\ \A x \in F : x <= NumBlocks
  BY Constants DEF Blocks
<1>1. Max(F) \in F /\ \A y \in F : Max(F) >= y
  BY <1>0, MaxIs
<1>2. ListHead(F, h) \in F /\ b <= ListHead(F, h)
  <2>1. ListHead(F, h) = Max(F) BY DEF ListHead
  <2>2. QED BY <2>1, <1>1, <1>0
<1> DEFINE L == {c \in F : c < b}
<1>3. ListNext(F, h, b) = IF L = {} THEN h ELSE Max(L) BY DEF ListNext, ListHead
<1>4. CASE L = {} BY <1>2, <1>3, <1>4
<1>5. CASE L # {}
  <2>1. L \in SUBSET Nat /\ \A x \in L : x <= NumBlocks BY <1>0
  <2> HIDE DEF L
  <2>2. Max(L) \in L /\ \A y \in L : Max(L) >= y BY <2>1, <1>0, <1>5, MaxIs
  <2>3. Max(L) \in F /\ Max(L) < b BY <2>2 DEF L
  <2>4. ASSUME NEW c \in F, c < b PROVE c <= Max(L)
    <3>1. c \in L /\ c \in Nat /\ Max(L) \in Nat BY <2>4, <2>3, <1>0 DEF L
    <3>2. QED BY <3>1, <2>2
  <2>5. QED BY <1>2, <1>3, <1>5, <2>3, <2>4
<1>6. QED BY <1>4, <1>5

LinksSound(u, G, h) ==
  /\ h \in G \cup {Null}
  /\ \A b \in G : u[b] = Null \/ (u[b] \in G /\ u[b] # h)
  /\ \A b, c \in G : u[b] = u[c] /\ u[b] # Null => b = c
Pushed(v, u, F, G, h) ==
  (\A b \in F : v[b] = ListNext(F, h, b)) /\ \A b \in G : v[b] = u[b]

\* Pushing the block numbers of F on the list of G gives a list of both.
LEMMA PushedList ==
  ASSUME NEW F \in SUBSET Blocks, NEW G \in SUBSET Blocks, F \cap G = {}, NEW h, NEW u, NEW v,
         LinksSound(u, G, h), Pushed(v, u, F, G, h)
  PROVE  LinksSound(v, F \cup G, ListHead(F, h))
<1> USE DEF LinksSound, Pushed
<1>0. F \in SUBSET Nat BY Constants
<1>1. ListHead(F, h) \in F \/ (F = {} /\ ListHead(F, h) = h)
  <2>1. CASE F = {} BY <2>1 DEF ListHead
  <2>2. CASE F # {} BY <2>2, ListFacts
  <2>3. QED BY <2>1, <2>2
<1>2. ASSUME NEW b \in F \cup G PROVE v[b] = Null \/ (v[b] \in F \cup G /\ v[b] # ListHead(F, h))
  <2>1. CASE b \in G BY <2>1, <1>1
  <2>2. CASE b \in F
    <3>1. ListHead(F, h) \in F /\ b <= ListHead(F, h) BY <2>2, ListFacts
    <3>2. v[b] = h \/ (v[b] \in F /\ v[b] < b) BY <2>2, ListFacts
    <3>3. CASE v[b] = h BY <3>1, <3>3
    <3>4. CASE v[b] \in F /\ v[b] < b
      <4>1. v[b] \in Nat /\ b \in Nat /\ ListHead(F, h) \in Nat BY <3>1, <3>4, <2>2, <1>0
      <4>2. v[b] # ListHead(F, h) BY <4>1, <3>1, <3>4
      <4>3. QED BY <4>2, <3>4
    <3>5. QED BY <3>2, <3>3, <3>4
  <2>3. QED BY <2>1, <2>2
<1>3. ASSUME NEW b \in F, NEW c \in F, v[b] = v[c] PROVE ~ (b < c)
  <2>1. SUFFICES ASSUME b < c PROVE FALSE OBVIOUS
  <2>2. v[c] \in F /\ b <= v[c] BY <2>1, ListFacts
  <2>3. v[b] \in F /\ v[b] < b
    <3>1. v[b] \in F BY <2>2, <1>3
    <3>2. h \notin F BY Constants
    <3>3. v[b] = h \/ v[b] < b BY ListFacts
    <3>4. QED BY <3>1, <3>2, <3>3
  <2>4. b \in Nat /\ v[b] \in Nat BY <2>3, <1>0
  <2>5. QED BY <2>2, <2>3, <2>4, <1>3
<1>4. ASSUME NEW b \in F \cup G, NEW c \in F \cup G, v[b] = v[c], v[b] # Null PROVE b = c
  <2>1. CASE b \in G /\ c \in G BY <2>1, <1>4
  <2>2. CASE b \in F /\ c \in F
    <3>1. ~ (b < c) /\ ~ (c < b) /\ b \in Nat /\ c \in Nat BY <2>2, <1>3, <1>4, <1>0
    <3>2. QED BY <3>1
  <2>3. ASSUME NEW x \in F, NEW y \in G, v[x] = v[y], v[x] # Null PROVE FALSE
    <3>1. v[y] \in G /\ v[y] # h BY <2>3
    <3>2. v[x] = h \/ v[x] \in F BY ListFacts
    <3>3. QED BY <3>1, <3>2, <2>3
  <2>4. QED BY <2>1, <2>2, <2>3, <1>4
<1>5. QED BY <1>1, <1>2, <1>4

\* s is t with another free list: the same blocks at the same places.
SameBlocks(s, t) ==
  \A b \in Blocks : (IsAllocated(s, b) <=> IsAllocated(t, b)) /\ (IsAllocated(t, b) => s.u[b] = t.u[b])

LEMMA UsableFromPlaces ==
  ASSUME NEW s \in Translations, NEW t \in Translations, Usable(t), s.btt \in {t.btt, Unused},
         FreeListSound(s), SamePlaces(s, t), \A b \in Blocks : IsAllocated(s, b) => IsAllocated(t, b) /\ s.u[b] = t.u[b]
  PROVE  Usable(s)
<1>1. \A b \in Blocks : HasPlace(s, b) => HasPlace(t, b) /\ s.u[b] = t.u[b] BY DEF SamePlaces
<1>2. \A b \in Blocks : HasPlace(s, b) => s.u[b] # s.btt
  <2>1. ASSUME NEW b \in Blocks, HasPlace(s, b) PROVE s.u[b] # s.btt
    <3>1. s.u[b] = t.u[b] /\ t.u[b] # t.btt BY <2>1, <1>1 DEF Usable
    <3>2. s.u[b] # Unused BY <2>1 DEF HasPlace
    <3>3. QED BY <3>1, <3>2
  <2>2. QED BY <2>1
<1>3. QED BY <1>1, <1>2 DEF Usable

LEMMA SameBlocksSamePlaces ==
  ASSUME NEW s, NEW t, SameBlocks(s, t) PROVE SamePlaces(s, t)
BY DEF SameBlocks, SamePlaces, HasPlace

LEMMA CopyFacts ==
  ASSUME NEW t \in Translations, Usable(t)
  PROVE  /\ CopyTranslation(t) \in Translations /\ Usable(CopyTranslation(t))
         /\ CopyTranslation(t).btt = Unused /\ SameBlocks(CopyTranslation(t), t)
         /\ CopyTranslation(t).u = t.u /\ CopyTranslation(t).free = t.free
         /\ CopyTranslation(t).smallest = t.smallest /\ CopyTranslation(t).head = t.head
<1>0. /\ t.u \in [Blocks -> Values] /\ t.free \in SUBSET Blocks /\ t.head \in Blocks \cup {Null}
      /\ t.smallest \in 0 .. NumBlocks /\ t.smallest \in Nat /\ t.btt \in Offsets \cup {Unused}
      /\ t = Translation(t.u, t.free, t.head, t.smallest, t.btt)
  BY FieldTypes
<1> DEFINE s == CopyTranslation(t)
<1>1. s = Translation(t.u, t.free, t.head, t.smallest, Unused)
  BY <1>0 DEF CopyTranslation, Translation
<1> HIDE DEF s
<1>2. /\ s \in Translations /\ s.u = t.u /\ s.free = t.free /\ s.head = t.head
      /\ s.smallest = t.smallest /\ s.btt = Unused
  BY <1>0, <1>1, MakeTranslation
<1>3. SameBlocks(s, t) BY <1>2 DEF SameBlocks, IsAllocated
<1>4. FreeListSound(s) BY <1>2 DEF Usable, FreeListSound
<1>5. Usable(s) BY <1>2, <1>3, <1>4, SameBlocksSamePlaces, UsableFromPlaces DEF SameBlocks
<1>6. QED BY <1>2, <1>3, <1>5 DEF s

LEMMA OptimizeFacts ==
  ASSUME NEW t \in Translations, Usable(t)
  PROVE  /\ Optimize(t) \in Translations /\ Usable(Optimize(t)) /\ Optimize(t).btt = t.btt
         /\ SameBlocks(Optimize(t), t)
<1>0. /\ t.u \in [Blocks -> Values] /\ t.free \in SUBSET Blocks /\ t.head \in Blocks \cup {Null}
      /\ t.smallest \in 0 .. NumBlocks /\ t.smallest \in Nat /\ t.btt \in Offsets \cup {Unused}
  BY FieldTypes
<1> DEFINE N == {n \in 0 .. t.smallest : \A b \in n .. t.smallest - 1 : b \in t.free}
           m == Min(N)
           F == {b \in t.free : b < m}
           v == [b \in Blocks |-> IF b \in F THEN ListNext(F, Null, b) ELSE IF b < m THEN t.u[b] ELSE Null]
           s == Translation(v, F, ListHead(F, Null), m, t.btt)
<1>1. Optimize(t) = IF m = t.smallest THEN t ELSE s BY DEF Optimize
<1>2. m \in N
  <2>1. N \in SUBSET Nat /\ t.smallest \in N BY <1>0
  <2>2. QED BY <2>1, MinIs
<1>3. m \in 0 .. t.smallest /\ m \in Nat /\ \A b \in m .. t.smallest - 1 : b \in t.free
  BY <1>2, <1>0
<1> HIDE DEF N, m
<1>4. F \in SUBSET Blocks /\ F \subseteq 0 .. m - 1
  BY <1>0, <1>3, Constants DEF Blocks
<1>5. \A b \in F : v[b] = ListNext(F, Null, b) BY <1>4
<1>6. \A b \in Blocks : b \notin F => v[b] = IF b < m THEN t.u[b] ELSE Null OBVIOUS
<1>7. DOMAIN v = Blocks OBVIOUS
<1> HIDE DEF F, v
<1>8. /\ ListHead(F, Null) \in F \cup {Null}
      /\ \A b \in F : v[b] = Null \/ (v[b] \in F /\ v[b] # ListHead(F, Null))
      /\ \A b, c \in F : v[b] = v[c] /\ v[b] # Null => b = c
  <2>1. PICK G : G = {} OBVIOUS
  <2>2. G \in SUBSET Blocks /\ F \cap G = {} /\ F \cup G = F BY <2>1
  <2>3. LinksSound(t.u, G, Null) /\ Pushed(v, t.u, F, G, Null)
    BY <2>1, <1>5 DEF LinksSound, Pushed
  <2>4. LinksSound(v, F \cup G, ListHead(F, Null)) BY <2>2, <2>3, <1>4, PushedList
  <2>5. QED BY <2>2, <2>4 DEF LinksSound
<1>9. v \in [Blocks -> Values]
  <2>1. ASSUME NEW b \in Blocks PROVE v[b] \in Values
    <3>1. CASE b \in F BY <3>1, <1>8, <1>4 DEF Values
    <3>2. CASE b \notin F BY <3>2, <1>6, <1>0 DEF Values
    <3>3. QED BY <3>1, <3>2
  <2>2. v = [b \in Blocks |-> v[b]] BY DEF v
  <2>3. QED BY <2>1, <2>2
<1>s. s = Translation(v, F, ListHead(F, Null), m, t.btt) OBVIOUS
<1> HIDE DEF s
<1>10. /\ s \in Translations /\ s.u = v /\ s.free = F /\ s.head = ListHead(F, Null)
       /\ s.smallest = m /\ s.btt = t.btt
  <2>1. m \in 0 .. NumBlocks /\ ListHead(F, Null) \in Blocks \cup {Null}
    <3>1. ListHead(F, Null) \in Blocks \cup {Null} BY <1>8, <1>4
    <3>2. m \in 0 .. NumBlocks BY <1>3, <1>0, Constants
    <3>3. QED BY <3>1, <3>2
  <2>2. t.btt \in Offsets \cup {Unused} BY <1>0
  <2>3. F \in SUBSET Blocks BY <1>4
  <2>4. QED BY ONLY <2>1, <2>2, <2>3, <1>s, <1>9, MakeTranslation
<1>11. SameBlocks(s, t)
  <2>1. ASSUME NEW b \in Blocks PROVE IsAllocated(s, b) <=> IsAllocated(t, b)
    <3>1. b \in Nat BY Constants
    <3>2. CASE b < m
      <4>1. b < t.smallest /\ (b \in F <=> b \in t.free) BY <3>2, <1>3, <3>1, <1>0 DEF F
      <4>2. QED BY <3>2, <4>1, <1>10 DEF IsAllocated
    <3>3. CASE ~ (b < m)
      <4>1. b < t.smallest => b \in t.free
        <5>1. b < t.smallest => b \in m .. t.smallest - 1 BY <3>1, <3>3, <1>3, <1>0
        <5>2. QED BY <5>1, <1>3
      <4>2. QED BY <3>3, <4>1, <1>10 DEF IsAllocated
    <3>4. QED BY <3>2, <3>3
  <2>2. ASSUME NEW b \in Blocks, IsAllocated(t, b) PROVE s.u[b] = t.u[b]
    <3>1. b \notin F /\ b < m BY <2>1, <2>2, <1>10 DEF IsAllocated
    <3>2. QED BY <3>1, <1>6, <1>10
  <2>3. QED BY <2>1, <2>2 DEF SameBlocks
<1>12. FreeListSound(s) BY <1>4, <1>8, <1>10 DEF FreeListSound
<1>13. Usable(s) BY <1>10, <1>11, <1>12, SameBlocksSamePlaces, UsableFromPlaces DEF SameBlocks
<1>14. SameBlocks(t, t) BY DEF SameBlocks
<1>15. QED BY <1>1, <1>10, <1>11, <1>13, <1>14

LEMMA FreeUnusedFacts ==
  ASSUME NEW t \in Translations, Usable(t)
  PROVE  /\ FreeUnused(t) \in Translations /\ Usable(FreeUnused(t)) /\ FreeUnused(t).btt = t.btt
         /\ SamePlaces(FreeUnused(t), t)
         /\ \A b \in Blocks : IsAllocated(FreeUnused(t), b) <=> HasPlace(t, b)
<1>0. /\ t.u \in [Blocks -> Values] /\ t.free \in SUBSET Blocks /\ t.head \in Blocks \cup {Null}
      /\ t.smallest \in 0 .. NumBlocks /\ t.smallest \in Nat /\ t.btt \in Offsets \cup {Unused}
      /\ t = Translation(t.u, t.free, t.head, t.smallest, t.btt)
  BY FieldTypes
<1> DEFINE F == {b \in 0 .. t.smallest - 1 : t.u[b] = Unused}
           v == [b \in Blocks |-> IF b \in F THEN ListNext(F, t.head, b) ELSE t.u[b]]
           s == FreeUnused(t)
<1>1. s = [t EXCEPT !.u = v, !.free = t.free \cup F, !.head = ListHead(F, t.head)]
  BY DEF FreeUnused
<1>2. s = Translation(v, t.free \cup F, ListHead(F, t.head), t.smallest, t.btt)
  <2> HIDE DEF v, F, s
  <2>1. QED BY <1>0, <1>1 DEF Translation
<1>3. /\ t.free \subseteq 0 .. t.smallest - 1 /\ t.head \in t.free \cup {Null}
      /\ \A b \in t.free : t.u[b] = Null \/ (t.u[b] \in t.free /\ t.u[b] # t.head)
      /\ \A b, c \in t.free : t.u[b] = t.u[c] /\ t.u[b] # Null => b = c
  BY DEF Usable, FreeListSound
<1>4. F \in SUBSET Blocks /\ F \cap t.free = {} /\ F \subseteq 0 .. t.smallest - 1
  <2>1. \A b \in t.free : t.u[b] # Unused BY <1>3, <1>0, Constants
  <2>2. F \subseteq 0 .. t.smallest - 1 OBVIOUS
  <2>3. 0 .. t.smallest - 1 \subseteq Blocks BY <1>0, Constants DEF Blocks
  <2>4. QED BY <2>1, <2>2, <2>3
<1>5. /\ \A b \in F : v[b] = ListNext(F, t.head, b)
      /\ \A b \in Blocks : b \notin F => v[b] = t.u[b]
  BY <1>4
<1>6. \A b \in Blocks : b \in F <=> b < t.smallest /\ t.u[b] = Unused
  BY <1>0, Constants
<1>7. v = [b \in Blocks |-> v[b]] OBVIOUS
<1> HIDE DEF F, v, s
<1>8. /\ ListHead(F, t.head) \in F \cup t.free \cup {Null}
      /\ \A b \in F \cup t.free : v[b] = Null \/ (v[b] \in F \cup t.free /\ v[b] # ListHead(F, t.head))
      /\ \A b, c \in F \cup t.free : v[b] = v[c] /\ v[b] # Null => b = c
  <2>1. \A b \in t.free : v[b] = t.u[b] BY <1>4, <1>5, <1>0
  <2>2. LinksSound(t.u, t.free, t.head) /\ Pushed(v, t.u, F, t.free, t.head)
    BY <2>1, <1>3, <1>5 DEF LinksSound, Pushed
  <2>3. LinksSound(v, F \cup t.free, ListHead(F, t.head)) BY <2>2, <1>0, <1>4, PushedList
  <2>4. QED BY <2>3 DEF LinksSound
<1>9. v \in [Blocks -> Values]
  <2>1. ASSUME NEW b \in Blocks PROVE v[b] \in Values
    <3>1. CASE b \in F BY <3>1, <1>8, <1>4, <1>0 DEF Values
    <3>2. CASE b \notin F BY <3>2, <1>5, <1>0
    <3>3. QED BY <3>1, <3>2
  <2>2. QED BY <2>1, <1>7
<1>10. /\ s \in Translations /\ s.u = v /\ s.free = t.free \cup F /\ s.head = ListHead(F, t.head)
       /\ s.smallest = t.smallest /\ s.btt = t.btt
  <2>1. t.free \cup F \in SUBSET Blocks /\ ListHead(F, t.head) \in Blocks \cup {Null}
    BY <1>0, <1>4, <1>8
  <2>2. QED BY <2>1, <1>2, <1>9, <1>0, MakeTranslation
<1>11. \A b \in Blocks : IsAllocated(s, b) <=> HasPlace(t, b)
  BY <1>6, <1>10 DEF IsAllocated, HasPlace
<1>12. \A b \in Blocks : IsAllocated(s, b) => IsAllocated(t, b) /\ s.u[b] = t.u[b]
  BY <1>5, <1>6, <1>10, <1>11 DEF IsAllocated, HasPlace
<1>13. SamePlaces(s, t) BY <1>11, <1>12 DEF SamePlaces, HasPlace
<1>14. FreeListSound(s)
  <2>1. t.free \cup F \subseteq 0 .. t.smallest - 1 BY <1>3, <1>4
  <2>2. t.free \cup F = F \cup t.free OBVIOUS
  <2>3. QED BY <2>1, <2>2, <1>8, <1>10 DEF FreeListSound
<1>15. Usable(s) BY <1>10, <1>12, <1>13, <1>14, UsableFromPlaces
<1>16. QED BY <1>10, <1>11, <1>13, <1>15 DEF s

-----------------------------------------------------------------------------
(* Places *)

LEMMA PlaceIsFree ==
  ASSUME NEW used, Offsets \ used # {}
  PROVE  Place(used) \in Offsets /\ Place(used) \notin used
<1>1. Offsets \ used \in SUBSET Nat BY Constants
<1>2. Min(Offsets \ used) \in Offsets \ used BY <1>1, MinIs
<1>3. QED BY <1>2 DEF Place

LEMMA OffsetsDef ==
  ASSUME NEW t, NEW x
  PROVE  x \in OffsetsOf(t) <=> x # Unused /\ (x = t.btt \/ \E b \in Blocks : HasPlace(t, b) /\ t.u[b] = x)
BY DEF OffsetsOf

\* every place of s is one of t, but for the place o of block b
Near(s, t, b, o) ==
  \A c \in Blocks : HasPlace(s, c) => (HasPlace(t, c) /\ t.u[c] = s.u[c]) \/ (c = b /\ s.u[c] = o)
\* t uses o for nothing but block b
OnlyFor(t, b, o) == o # t.btt /\ \A c \in Blocks : HasPlace(t, c) /\ t.u[c] = o => c = b

LEMMA AgreeNear ==
  ASSUME NEW s, NEW t, NEW s2, NEW t2, NEW b, NEW o, Agree(s, t),
         Near(s2, s, b, o), Near(t2, t, b, o), OnlyFor(s, b, o), OnlyFor(t, b, o), t2.btt = t.btt
  PROVE  Agree(s2, t2)
BY DEF Agree, Near, OnlyFor

LEMMA AgreeWithin ==
  ASSUME NEW s, NEW t, NEW s2, NEW t2, Agree(s, t), Within(s2, s), Within(t2, t), t2.btt \in {t.btt, Unused}
  PROVE  Agree(s2, t2)
<1>1. ASSUME NEW b \in Blocks, HasPlace(s2, b) PROVE s2.u[b] # t2.btt
  <2>1. s2.u[b] # Unused BY <1>1 DEF HasPlace
  <2>2. HasPlace(s, b) /\ s.u[b] = s2.u[b] BY <1>1 DEF Within
  <2>3. s2.u[b] # t.btt BY <2>2 DEF Agree
  <2>4. QED BY <2>1, <2>3
<1>2. ASSUME NEW b \in Blocks, HasPlace(s2, b), NEW c \in Blocks, HasPlace(t2, c), t2.u[c] = s2.u[b]
      PROVE  b = c
  <2>1. HasPlace(s, b) /\ s.u[b] = s2.u[b] /\ HasPlace(t, c) /\ t.u[c] = t2.u[c] BY <1>2 DEF Within
  <2>2. QED BY <2>1, <1>2 DEF Agree
<1>3. QED BY <1>1, <1>2 DEF Agree

LEMMA WithinSame ==
  ASSUME NEW s, NEW t, SamePlaces(s, t) PROVE Within(s, t) /\ Within(t, s)
BY DEF SamePlaces, Within

LEMMA WithinReflexive == \A s : Within(s, s)
BY DEF Within

LEMMA WithinTransitive ==
  ASSUME NEW r, NEW s, NEW t, Within(r, s), Within(s, t) PROVE Within(r, t)
BY DEF Within

LEMMA OffsetsSame ==
  ASSUME NEW s, NEW t, SamePlaces(s, t), s.btt = t.btt
  PROVE  OffsetsOf(s) = OffsetsOf(t)
<1>1. \A x : x \in OffsetsOf(s) <=> x \in OffsetsOf(t) BY OffsetsDef DEF SamePlaces
<1>2. QED BY <1>1

LEMMA OffsetsWithin ==
  ASSUME NEW s, NEW t, Within(s, t), s.btt \in {t.btt, Unused}
  PROVE  OffsetsOf(s) \subseteq OffsetsOf(t)
<1>1. \A x : x \in OffsetsOf(s) => x \in OffsetsOf(t) BY OffsetsDef DEF Within
<1>2. QED BY <1>1

LEMMA MovedPlaces ==
  ASSUME NEW s, NEW t, NEW b \in Blocks, NEW o \in Offsets, IsAllocated(t, b), Moved(s, t, b, o)
  PROVE  /\ HasPlace(s, b) /\ s.u[b] = o /\ Near(s, t, b, o)
         /\ \A c \in Blocks : c # b => (HasPlace(s, c) <=> HasPlace(t, c)) /\ s.u[c] = t.u[c]
BY Constants DEF Moved, HasPlace, Near

LEMMA DroppedPlaces ==
  ASSUME NEW s, NEW t, NEW b \in Blocks, Dropped(s, t, b)
  PROVE  /\ ~ IsAllocated(s, b) /\ ~ HasPlace(s, b) /\ Within(s, t)
         /\ \A c \in Blocks : c # b =>
              (HasPlace(s, c) <=> HasPlace(t, c)) /\ (IsAllocated(s, c) <=> IsAllocated(t, c)) /\ s.u[c] = t.u[c]
BY DEF Dropped, HasPlace, Within

-----------------------------------------------------------------------------
(* Headers *)

LEMMA HeaderTypes ==
  ASSUME NEW h \in Headers
  PROVE  /\ h # None /\ h.count \in Nat /\ h.lsn \in Nat /\ h.table \in Translations
         /\ h.snap \in Snapshots
         /\ h = [count |-> h.count, lsn |-> h.lsn, table |-> h.table, snap |-> h.snap]
BY HeaderAssumption DEF HeaderAssumption, Headers

LEMMA SlotTypes ==
  ASSUME TypeOK, NEW i \in {0, 1}, NEW h \in slots[i], h # None
  PROVE  h \in Headers
BY DEF TypeOK

LEMMA TwoSlots ==
  ASSUME count \in Nat
  PROVE  /\ Slot(count) \in {0, 1} /\ NewSlot \in {0, 1} /\ Slot(count) # NewSlot
         /\ {0, 1} = {Slot(count), NewSlot} /\ Slot(count + 2) = Slot(count)
BY DEF Slot, NewSlot

\* A place of which the content, and that it is synced, is kept.
KeptAt(o) == disk'[o] = disk[o] /\ (o \notin unsynced => o \notin unsynced')

LEMMA IntactKept ==
  ASSUME NEW h, Usable(h.table), h.table \in Translations, h.table.btt \in Offsets, Intact(h),
         \A o \in OffsetsOf(h.table) : KeptAt(o)
  PROVE  Intact(h)'
<1>1. h.table.btt \in OffsetsOf(h.table) BY OffsetsDef, Constants
<1>2. \A b \in Blocks : HasPlace(h.table, b) => h.table.u[b] \in OffsetsOf(h.table) BY PlaceIsOffset
<1>3. QED BY <1>1, <1>2 DEF Intact, KeptAt

LEMMA SlotHeaders ==
  ASSUME TypeOK, HeadersSound, NEW i \in {0, 1}, NEW h \in slots[i], h # None
  PROVE  /\ h \in Headers /\ h.table \in Translations /\ Usable(h.table) /\ h.table.btt \in Offsets
         /\ h.count \in Nat /\ h.lsn \in Nat /\ h.lsn <= lsn /\ h.snap \in Snapshots
<1>1. h \in Headers BY SlotTypes
<1>2. Usable(h.table) /\ h.table.btt \in Offsets /\ h.lsn <= lsn BY DEF HeadersSound
<1>3. QED BY <1>1, <1>2, HeaderTypes

LEMMA LastKept ==
  ASSUME TypeOK, HeadersSound, NEW i \in {0, 1}, NEW h \in slots[i], NEW n, IsLast(h, n),
         UNCHANGED <<checkpointed, logged, kind>>, \A o \in OffsetsOf(checkpointed) : KeptAt(o)
  PROVE  IsLast(h, n)'
<1>1. h # None /\ h.count = n /\ h.table = checkpointed /\ Acceptable(h) /\ Intact(h) BY DEF IsLast
<1>2. h.table \in Translations /\ Usable(h.table) /\ h.table.btt \in Offsets BY <1>1, SlotHeaders
<1>3. Intact(h)' BY <1>1, <1>2, IntactKept
<1>4. Acceptable(h)' BY <1>1 DEF Acceptable
<1>5. QED BY <1>1, <1>3, <1>4 DEF IsLast

LEMMA NewHeaderType ==
  ASSUME TypeOK PROVE NewHeader \in Headers
BY DEF TypeOK, NewHeader, Headers

\* The new header stays whole when neither the translation nor the contents change.
LEMMA NewKept ==
  ASSUME TypeOK, Usable(inprogress), inprogress.btt \in Offsets, Intact(NewHeader),
         UNCHANGED <<count, lsn, inprogress, snap>>, \A o \in OffsetsOf(inprogress) : KeptAt(o)
  PROVE  Intact(NewHeader)' /\ NewHeader' = NewHeader
<1>1. NewHeader' = NewHeader BY DEF NewHeader
<1>2. PICK h : h = NewHeader OBVIOUS
<1>3. h.table = inprogress /\ inprogress \in Translations BY <1>2 DEF NewHeader, TypeOK
<1>4. Intact(h) BY <1>2
<1>5. Intact(h)' BY <1>3, <1>4, IntactKept
<1>6. QED BY <1>1, <1>2, <1>5

\* A step that leaves the headers alone, and what the last checkpoint and the new header
\* stand for.
HeadersLeft ==
  /\ UNCHANGED <<checkpointed, slots, count, lsn, logged, kind, phase, skipped, closing>>
  /\ phase = "none" /\ hDirty => hDirty'
  /\ phase = "begun" /\ chDirty => chDirty'
  /\ \A o \in OffsetsOf(checkpointed) : KeptAt(o)
  /\ phase \in {"translated", "header"} \/ NewDone =>
       UNCHANGED <<inprogress, snap>> /\ \A o \in OffsetsOf(inprogress) : KeptAt(o)

LEMMA HeadersKept ==
  ASSUME TypeOK, TablesSound, HeadersSound, HeadersLeft
  PROVE  HeadersSound'
<1>1. /\ UNCHANGED <<checkpointed, slots, count, lsn, logged, kind, phase, skipped, closing>>
      /\ \A o \in OffsetsOf(checkpointed) : KeptAt(o)
  BY DEF HeadersLeft
<1>2. NewDone' = NewDone /\ NewSlot' = NewSlot /\ count \in Nat BY <1>1 DEF NewDone, NewSlot, Slot, TypeOK
<1>3. Slot(count) \in {0, 1} /\ NewSlot \in {0, 1} BY <1>2, TwoSlots
<1>4. Slot(count)' = Slot(count) BY <1>1 DEF Slot
<1>5. \A g : TooNew(g) => TooNew(g)' BY <1>1 DEF TooNew, HeadersLeft
<1>6. inprogress \in Translations /\ Usable(inprogress) BY DEF TypeOK, TablesSound
<1>7. phase \in {"translated", "header"} \/ NewDone => inprogress.btt \in Offsets
  BY <1>6, FieldTypes DEF TablesSound, NewDone
<1>8. CASE ~ NewDone
  <2>1. PICK h \in slots[Slot(count)] : slots[Slot(count)] = {h} /\ IsLast(h, count)
    BY <1>8 DEF HeadersSound
  <2>2. PICK n : n = count OBVIOUS
  <2>3. IsLast(h, n)' BY <2>1, <2>2, <1>1, <1>3, LastKept
  <2>4. IsLast(h, count)' BY <2>2, <2>3, <1>1
  <2>5. phase \in {"translated", "header"} => (disk[inprogress.btt] = <<None, lsn>>)'
    <3>1. SUFFICES ASSUME phase \in {"translated", "header"} PROVE (disk[inprogress.btt] = <<None, lsn>>)'
      OBVIOUS
    <3>2. inprogress' = inprogress /\ \A o \in OffsetsOf(inprogress) : KeptAt(o) BY <3>1 DEF HeadersLeft
    <3>3. inprogress.btt \in OffsetsOf(inprogress) BY <3>1, <1>7, OffsetsDef, Constants
    <3>4. disk[inprogress.btt] = <<None, lsn>> BY <3>1, <1>8 DEF HeadersSound
    <3>5. QED BY <3>2, <3>3, <3>4, <1>1 DEF KeptAt
  <2>6. phase = "header" => NewHeader \in slots[NewSlot] /\ Intact(NewHeader)' /\ NewHeader' = NewHeader
    <3>1. SUFFICES ASSUME phase = "header"
                   PROVE NewHeader \in slots[NewSlot] /\ Intact(NewHeader)' /\ NewHeader' = NewHeader
      OBVIOUS
    <3>2. UNCHANGED <<inprogress, snap>> /\ \A o \in OffsetsOf(inprogress) : KeptAt(o)
      BY <3>1 DEF HeadersLeft
    <3>3. NewHeader \in slots[NewSlot] /\ Intact(NewHeader) BY <3>1, <1>8 DEF HeadersSound
    <3>4. QED BY <3>1, <3>2, <3>3, <1>1, <1>6, <1>7, NewKept
  <2>7. \A g \in slots[NewSlot] :
          g = None \/ g.count = count - 1 \/ TooNew(g)' \/ (phase = "header" /\ g = NewHeader')
    <3>1. \A g \in slots[NewSlot] :
            g = None \/ g.count = count - 1 \/ TooNew(g) \/ (phase = "header" /\ g = NewHeader)
      BY <1>8 DEF HeadersSound
    <3>2. QED BY <3>1, <2>6, <1>5
  <2>8. slots[NewSlot] # {} BY <1>8 DEF HeadersSound
  <2>9. QED BY <1>1, <1>2, <1>4, <1>8, <2>1, <2>4, <2>5, <2>6, <2>7, <2>8 DEF HeadersSound
<1>9. CASE NewDone
  <2>1. PICK h \in slots[NewSlot] : slots[NewSlot] = {h} /\ IsLast(h, count - 1)
    BY <1>9 DEF HeadersSound
  <2>2. PICK n : n = count - 1 OBVIOUS
  <2>3. IsLast(h, n)' BY <2>1, <2>2, <1>1, <1>3, LastKept
  <2>4. IsLast(h, count - 1)' BY <2>2, <2>3, <1>1
  <2>5. Intact(NewHeader)' /\ NewHeader' = NewHeader
    <3>1. UNCHANGED <<inprogress, snap>> /\ \A o \in OffsetsOf(inprogress) : KeptAt(o)
      BY <1>9 DEF HeadersLeft
    <3>2. Intact(NewHeader) BY <1>9 DEF HeadersSound
    <3>3. QED BY <1>9, <3>1, <3>2, <1>1, <1>6, <1>7, NewKept
  <2>6. slots[Slot(count)] = {[NewHeader EXCEPT !.count = count]} BY <1>9 DEF HeadersSound
  <2>7. QED BY <1>1, <1>2, <1>4, <1>9, <2>1, <2>4, <2>5, <2>6 DEF HeadersSound
<1>10. QED BY <1>8, <1>9

-----------------------------------------------------------------------------
(* Every step keeps the invariant *)

LEMMA AllocateKeeps ==
  ASSUME BlockTableInv, AllocateBlocknum PROVE BlockTableInv'
<1> DEFINE n == NextBlocknum(current)
<1>1. /\ TypeOK /\ TablesSound /\ SpaceSound /\ DirtyBits /\ NodesSound /\ JobsSound /\ SnapSound
      /\ HeadersSound
  BY DEF BlockTableInv
<1>2. /\ n \in Blocks /\ current' = AllocateIn(current) /\ hDirty' = TRUE
      /\ node' = [node EXCEPT ![n] = None]
      /\ UNCHANGED <<inprogress, checkpointed, allocated, disk, unsynced, stamp, dirty, pending, job,
                     chDirty, phase, skipped, closing, count, lsn, logged, slots, snap, kind, crashes>>
  BY DEF AllocateBlocknum
<1>3. current \in Translations /\ Usable(current) /\ node \in Snapshots BY <1>1 DEF TypeOK, TablesSound
<1>4. /\ current' \in Translations /\ Usable(current') /\ current'.btt = current.btt
      /\ ~ IsAllocated(current, n) /\ IsAllocated(current', n) /\ current'.u[n] = Unused
      /\ \A c \in Blocks : c # n =>
           (IsAllocated(current', c) <=> IsAllocated(current, c)) /\ current'.u[c] = current.u[c]
  BY <1>2, <1>3, AllocateInFacts
<1>5. /\ node' \in Snapshots /\ node'[n] = None /\ \A c \in Blocks : c # n => node'[c] = node[c]
  BY <1>2, <1>3 DEF Snapshots
<1> HIDE DEF n
<1>6. SamePlaces(current', current) BY <1>4 DEF SamePlaces, HasPlace
<1>7. Within(current', current) /\ Within(current, current') BY <1>6, WithinSame
<1>8. TypeOK'
  <2>1. {hDirty', chDirty', skipped', closing'} \subseteq BOOLEAN BY <1>1, <1>2 DEF TypeOK
  <2>2. QED BY <1>1, <1>2, <1>4, <1>5, <2>1 DEF TypeOK
<1>9. TablesSound'
  <2>1. /\ Agree(current', inprogress) /\ Agree(inprogress, current')
        /\ Agree(current', checkpointed) /\ Agree(checkpointed, current')
    BY <1>1, <1>4, <1>7, AgreeWithin, WithinReflexive DEF TablesSound
  <2>2. QED BY <1>1, <1>2, <1>4, <2>1 DEF TablesSound
<1>10. SpaceSound'
  <2>1. OffsetsOf(current') = OffsetsOf(current) BY <1>4, <1>6, OffsetsSame
  <2>2. InUse' = InUse BY <2>1, <1>2 DEF InUse
  <2>3. QED BY <1>1, <1>2, <2>2 DEF SpaceSound
<1>11. DirtyBits' BY <1>1, <1>2, <1>6 DEF DirtyBits, SamePlaces
<1>12. NodesSound'
  <2>1. ASSUME NEW b \in Blocks, b # n
        PROVE  /\ ~ IsAllocated(current', b) => node'[b] = None /\ b \notin dirty'
               /\ HasPlace(current', b) \/ b \in dirty' => node'[b] # None
               /\ node'[b] # None /\ b \notin dirty' /\ Idle(b)' => HasPlace(current', b) /\ Written(b)'
    <3>1. /\ (IsAllocated(current', b) <=> IsAllocated(current, b)) /\ current'.u[b] = current.u[b]
          /\ node'[b] = node[b] /\ dirty' = dirty /\ job' = job /\ disk' = disk
      BY <2>1, <1>2, <1>4, <1>5
    <3>2. (HasPlace(current', b) <=> HasPlace(current, b)) /\ Idle(b)' = Idle(b)
      BY <3>1 DEF HasPlace, Idle
    <3>3. Written(b)' = Written(b) BY <3>1 DEF Written
    <3>4. QED BY <3>1, <3>2, <3>3, <1>1 DEF NodesSound
  <2>2. n \notin dirty' BY <1>1, <1>2, <1>4 DEF NodesSound
  <2>3. ~ HasPlace(current', n) BY <1>4 DEF HasPlace
  <2>4. QED BY <2>1, <2>2, <2>3, <1>4, <1>5 DEF NodesSound
<1>13. JobsSound'
  <2>1. ASSUME NEW b \in Blocks
        PROVE  (HasPlace(current', b) <=> HasPlace(current, b)) /\ (HasPlace(current, b) => b # n)
               /\ (b # n => node'[b] = node[b]) /\ (HasPlace(current, b) => current'.u[b] = current.u[b])
    BY <1>4, <1>5, <1>6 DEF SamePlaces, HasPlace
  <2>2. QED BY <1>1, <1>2, <2>1 DEF JobsSound, Idle
<1>14. SnapSound'
  <2>1. \A b \in pending : b \in Blocks /\ b # n BY <1>1, <1>4 DEF SnapSound, TypeOK
  <2>2. QED BY <1>1, <1>2, <1>4, <1>5, <2>1 DEF SnapSound, Idle
<1>15. HeadersSound'
  <2>1. HeadersLeft BY <1>2 DEF HeadersLeft, KeptAt
  <2>2. QED BY <1>1, <2>1, HeadersKept
<1>16. QED BY <1>8, <1>9, <1>10, <1>11, <1>12, <1>13, <1>14, <1>15 DEF BlockTableInv


LEMMA ModifyKeeps ==
  ASSUME BlockTableInv, NEW b \in Blocks, Modify(b) PROVE BlockTableInv'
<1>1. /\ TypeOK /\ TablesSound /\ SpaceSound /\ DirtyBits /\ NodesSound /\ JobsSound /\ SnapSound
      /\ HeadersSound
  BY DEF BlockTableInv
<1>2. /\ IsAllocated(current, b) /\ stamp < MaxStamp /\ stamp' = stamp + 1
      /\ node' = [node EXCEPT ![b] = stamp']
      /\ snap' = IF b \in pending THEN [snap EXCEPT ![b] = stamp'] ELSE snap
      /\ dirty' = dirty \cup {b}
      /\ UNCHANGED <<current, inprogress, checkpointed, allocated, disk, unsynced, pending, job, hDirty,
                     chDirty, phase, skipped, closing, count, lsn, logged, slots, kind, crashes>>
  BY DEF Modify, tables
<1>3. node \in Snapshots /\ snap \in Snapshots /\ stamp \in 0 .. MaxStamp BY <1>1 DEF TypeOK
<1>4. stamp' \in Stamps /\ stamp' \in 0 .. MaxStamp /\ stamp' # None
  <2>1. MaxStamp \in Nat BY BlockTableAssumption DEF BlockTableAssumption
  <2>2. stamp' \in Stamps /\ stamp' \in 0 .. MaxStamp BY <2>1, <1>2, <1>3 DEF Stamps
  <2>3. QED BY <2>2, Constants
<1>5. node' \in Snapshots /\ node'[b] = stamp' /\ \A c \in Blocks : c # b => node'[c] = node[c]
  BY <1>2, <1>3, <1>4 DEF Snapshots
<1>6. /\ snap' \in Snapshots /\ (b \in pending => snap'[b] = stamp')
      /\ \A c \in Blocks : c # b \/ b \notin pending => snap'[c] = snap[c]
  BY <1>2, <1>3, <1>4 DEF Snapshots
<1>7. TypeOK' BY <1>1, <1>2, <1>4, <1>5, <1>6 DEF TypeOK
<1>8. TablesSound' BY <1>1, <1>2 DEF TablesSound
<1>9. SpaceSound' BY <1>1, <1>2 DEF SpaceSound, InUse
<1>10. DirtyBits' BY <1>1, <1>2 DEF DirtyBits
<1>11. NodesSound'
  <2>1. \A c \in Blocks : Idle(c)' = Idle(c) BY <1>2 DEF Idle
  <2>2. \A c \in Blocks : c # b => Written(c)' = Written(c) BY <1>2, <1>5 DEF Written
  <2>3. QED BY <1>1, <1>2, <1>4, <1>5, <2>1, <2>2 DEF NodesSound
<1>12. JobsSound' BY <1>1, <1>2, <1>5, <1>6 DEF JobsSound, Idle
<1>13. SnapSound'
  <2>1. pending \subseteq Blocks BY <1>1 DEF TypeOK
  <2>2. QED BY <1>1, <1>2, <1>5, <1>6, <2>1 DEF SnapSound, Idle
<1>14. HeadersSound'
  <2>1. phase # "begun" => UNCHANGED snap BY <1>1, <1>2 DEF SnapSound
  <2>2. HeadersLeft BY <1>2, <2>1 DEF HeadersLeft, KeptAt, NewDone
  <2>3. QED BY <1>1, <2>2, HeadersKept
<1>15. QED BY <1>7, <1>8, <1>9, <1>10, <1>11, <1>12, <1>13, <1>14 DEF BlockTableInv

LEMMA ClearPendingKeeps ==
  ASSUME BlockTableInv, NEW b \in Blocks, ClearPending(b) PROVE BlockTableInv'
<1>1. /\ TypeOK /\ TablesSound /\ SpaceSound /\ DirtyBits /\ NodesSound /\ JobsSound /\ SnapSound
      /\ HeadersSound
  BY DEF BlockTableInv
<1>2. /\ b \in pending \ dirty /\ pending' = pending \ {b}
      /\ UNCHANGED <<current, inprogress, checkpointed, allocated, disk, unsynced, node, stamp, dirty,
                     job, hDirty, chDirty, phase, skipped, closing, count, lsn, logged, slots, snap,
                     kind, crashes>>
  BY DEF ClearPending, tables, headers
<1>3. TypeOK' BY <1>1, <1>2 DEF TypeOK
<1>4. TablesSound' BY <1>1, <1>2 DEF TablesSound
<1>5. SpaceSound' BY <1>1, <1>2 DEF SpaceSound, InUse
<1>6. DirtyBits' BY <1>1, <1>2 DEF DirtyBits
<1>7. NodesSound' BY <1>1, <1>2 DEF NodesSound, Idle, Written
<1>8. JobsSound' BY <1>1, <1>2 DEF JobsSound, Idle
<1>9. SnapSound'
  <2>1. /\ IsAllocated(current, b) /\ IsAllocated(inprogress, b) /\ inprogress.u[b] = current.u[b]
        /\ Idle(b) /\ snap[b] = node[b]
    BY <1>1, <1>2 DEF SnapSound
  <2>2. HasPlace(inprogress, b) <=> HasPlace(current, b) BY <2>1 DEF HasPlace
  <2>3. HasPlace(current, b) <=> node[b] # None BY <1>1, <1>2, <2>1 DEF NodesSound
  <2>4. HasPlace(current, b) => disk[current.u[b]] = <<b, node[b]>>
    BY <1>1, <1>2, <2>1, <2>3 DEF NodesSound, Written
  <2>5. pending' # {} => phase' = "begun" BY <1>1, <1>2 DEF SnapSound
  <2>6. ASSUME NEW c \in pending'
        PROVE  /\ IsAllocated(current', c) /\ IsAllocated(inprogress', c) /\ inprogress'.u[c] = current'.u[c]
               /\ Idle(c)' /\ snap'[c] = node'[c]
    BY <1>1, <1>2 DEF SnapSound, Idle
  <2>7. ASSUME phase' \notin {"none", "closed"}, NEW c \in Blocks \ pending'
        PROVE  /\ HasPlace(inprogress', c) <=> snap'[c] # None
               /\ HasPlace(inprogress', c) /\ ~ job'[c].ckpt => disk'[inprogress'.u[c]] = <<c, snap'[c]>>
    BY <1>1, <1>2, <2>1, <2>2, <2>3, <2>4, <2>7 DEF SnapSound
  <2>8. QED BY <2>5, <2>6, <2>7 DEF SnapSound
<1>10. HeadersSound'
  <2>1. HeadersLeft BY <1>2 DEF HeadersLeft, KeptAt
  <2>2. QED BY <1>1, <2>1, HeadersKept
<1>11. QED BY <1>3, <1>4, <1>5, <1>6, <1>7, <1>8, <1>9, <1>10 DEF BlockTableInv

LEMMA FinishWriteKeeps ==
  ASSUME BlockTableInv, NEW b \in Blocks, FinishWrite(b) PROVE BlockTableInv'
<1>1. /\ TypeOK /\ TablesSound /\ SpaceSound /\ DirtyBits /\ NodesSound /\ JobsSound /\ SnapSound
      /\ HeadersSound
  BY DEF BlockTableInv
<1>2. /\ job[b].o # None /\ disk' = [disk EXCEPT ![job[b].o] = <<b, job[b].v>>]
      /\ job' = [job EXCEPT ![b] = NoJob]
      /\ UNCHANGED <<current, inprogress, checkpointed, allocated, unsynced, node, stamp, dirty, pending,
                     hDirty, chDirty, phase, skipped, closing, count, lsn, logged, slots, snap, kind,
                     crashes>>
  BY DEF FinishWrite, tables, headers
<1>3. PICK o : o = job[b].o OBVIOUS
<1>4. PICK v : v = job[b].v OBVIOUS
<1>5. /\ job \in [Blocks -> [o : Offsets \cup {None}, v : Stamps \cup {None}, clone : BOOLEAN, ckpt : BOOLEAN]]
      /\ disk \in [Offsets -> {None} \cup (Blocks \cup {None}) \X Nat]
  BY <1>1 DEF TypeOK
<1>6. /\ HasPlace(current, b) /\ current.u[b] = o /\ v # None /\ (b \notin dirty => v = node[b])
      /\ HasPlace(checkpointed, b) => checkpointed.u[b] # o
      /\ ~ job[b].ckpt /\ HasPlace(inprogress, b) => inprogress.u[b] # o
      /\ job[b].ckpt => /\ phase = "begun" /\ b \notin pending
                        /\ HasPlace(inprogress, b) /\ inprogress.u[b] = o /\ v = snap[b]
  BY <1>1, <1>2, <1>3, <1>4 DEF JobsSound
<1>7. o \in Offsets /\ v \in Nat
  <2>1. o \in Offsets BY <1>2, <1>3, <1>5
  <2>2. v \in Stamps BY <1>4, <1>5, <1>6
  <2>3. QED BY <2>1, <2>2, BlockTableAssumption DEF Stamps, BlockTableAssumption
<1>8. /\ disk' \in [Offsets -> {None} \cup (Blocks \cup {None}) \X Nat]
      /\ disk'[o] = <<b, v>> /\ \A x \in Offsets : x # o => disk'[x] = disk[x]
  BY <1>2, <1>3, <1>4, <1>5, <1>7
<1>9. /\ job' \in [Blocks -> [o : Offsets \cup {None}, v : Stamps \cup {None}, clone : BOOLEAN, ckpt : BOOLEAN]]
      /\ job'[b] = NoJob /\ \A c \in Blocks : c # b => job'[c] = job[c]
  BY <1>2, <1>5 DEF NoJob
<1>10. NoJob.o = None /\ NoJob.ckpt = FALSE BY DEF NoJob
<1>11. TypeOK' BY <1>1, <1>2, <1>8, <1>9 DEF TypeOK
<1>12. TablesSound' BY <1>1, <1>2 DEF TablesSound
<1>13. SpaceSound' BY <1>1, <1>2 DEF SpaceSound, InUse
<1>14. DirtyBits' BY <1>1, <1>2 DEF DirtyBits
<1>15. /\ current \in Translations /\ inprogress \in Translations /\ checkpointed \in Translations
       /\ Usable(current) /\ Usable(inprogress) /\ Usable(checkpointed)
       /\ Agree(current, inprogress) /\ Agree(current, checkpointed)
  BY <1>1 DEF TypeOK, TablesSound
<1>16. NodesSound'
  <2>1. ASSUME NEW c \in Blocks, HasPlace(current, c), c # b PROVE Written(c)' = Written(c)
    <3>1. current.u[c] # o /\ current.u[c] \in Offsets BY <2>1, <1>6, <1>15, PlaceIsOffset DEF Usable
    <3>2. QED BY <3>1, <1>2, <1>8 DEF Written
  <2>2. b \notin dirty => Written(b)' BY <1>2, <1>6, <1>8 DEF Written
  <2>3. \A c \in Blocks : c # b => Idle(c)' = Idle(c) BY <1>9 DEF Idle
  <2>4. QED BY <1>1, <1>2, <1>6, <2>1, <2>2, <2>3 DEF NodesSound
<1>17. JobsSound'
  <2>1. Idle(b)' BY <1>9 DEF Idle
  <2>2. \A c \in Blocks : c # b => Idle(c)' = Idle(c) BY <1>9 DEF Idle
  <2>3. QED BY <1>1, <1>2, <1>9, <1>10, <2>1, <2>2 DEF JobsSound
<1>18. SnapSound'
  <2>1. \A c \in pending : c \in Blocks /\ c # b
    BY <1>1, <1>2, <1>10 DEF SnapSound, TypeOK, Idle
  <2>2. \A c \in pending : Idle(c)' = Idle(c) BY <2>1, <1>9 DEF Idle
  <2>3. ASSUME phase \notin {"none", "closed"}, NEW c \in Blocks \ pending
        PROVE  HasPlace(inprogress, c) /\ ~ job'[c].ckpt => disk'[inprogress.u[c]] = <<c, snap[c]>>
    <3>1. SUFFICES ASSUME HasPlace(inprogress, c), ~ job'[c].ckpt
                   PROVE  disk'[inprogress.u[c]] = <<c, snap[c]>>
      OBVIOUS
    <3>2. inprogress.u[c] \in Offsets BY <3>1, <1>15, PlaceIsOffset
    <3>3. ~ job[c].ckpt => disk[inprogress.u[c]] = <<c, snap[c]>> BY <2>3, <3>1, <1>1 DEF SnapSound
    <3>4. CASE c = b BY <3>1, <3>2, <3>3, <3>4, <1>6, <1>8
    <3>5. CASE c # b
      <4>1. inprogress.u[c] # o BY <3>1, <3>5, <1>6, <1>15 DEF Agree
      <4>2. QED BY <4>1, <3>1, <3>2, <3>3, <3>5, <1>8, <1>9
    <3>6. QED BY <3>4, <3>5
  <2>4. QED BY <1>1, <1>2, <2>2, <2>3 DEF SnapSound
<1>19. HeadersSound'
  <2>1. ASSUME NEW x \in OffsetsOf(checkpointed) PROVE KeptAt(x)
    <3>1. x \in Offsets BY <1>15, OffsetsAre
    <3>2. x # o BY <2>1, <1>6, <1>15, OffsetIs DEF Agree
    <3>3. QED BY <3>1, <3>2, <1>2, <1>8 DEF KeptAt
  <2>2. ASSUME phase \in {"translated", "header"} \/ NewDone, NEW x \in OffsetsOf(inprogress)
        PROVE  KeptAt(x)
    <3>1. x \in Offsets BY <1>15, OffsetsAre
    <3>2. ~ job[b].ckpt BY <2>2, <1>6 DEF NewDone
    <3>3. x # o BY <3>2, <1>6, <1>15, OffsetIs DEF Agree
    <3>4. QED BY <3>1, <3>3, <1>2, <1>8 DEF KeptAt
  <2>3. HeadersLeft BY <1>2, <2>1, <2>2 DEF HeadersLeft
  <2>4. QED BY <1>1, <2>3, HeadersKept
<1>20. QED BY <1>11, <1>12, <1>13, <1>14, <1>16, <1>17, <1>18, <1>19 DEF BlockTableInv


\* A place that the last checkpoint uses, or that the checkpoint in progress uses and the
\* write is not for it, is not given back when block b is moved away from it.
LEMMA KeptPlaces ==
  ASSUME NEW s \in Translations, NEW t \in Translations, Usable(s), Usable(t), Agree(s, t),
         NEW b \in Blocks, IsAllocated(s, b), NEW x \in OffsetsOf(t), x = s.u[b]
  PROVE  PreventsFreeing(t, b, x)
<1>1. x # Unused BY OffsetsDef
<1>2. HasPlace(s, b) BY <1>1 DEF HasPlace
<1>3. x # t.btt BY <1>2 DEF Agree
<1>4. PICK c \in Blocks : HasPlace(t, c) /\ t.u[c] = x BY <1>3, OffsetIs
<1>5. c = b BY <1>2, <1>4 DEF Agree
<1>6. QED BY <1>4, <1>5 DEF PreventsFreeing, HasPlace, IsAllocated

\* In a small file, what prevents freeing an offset is the place of the block.
LEMMA PreventsIsPlace ==
  ASSUME SmallFile, NEW t \in Translations, Usable(t), NEW b \in Blocks, NEW x \in Offsets,
         PreventsFreeing(t, b, x)
  PROVE  HasPlace(t, b) /\ x \in OffsetsOf(t)
<1>1. b < t.smallest /\ t.u[b] = x BY DEF PreventsFreeing
<1>2. b \notin t.free
  <2>1. SUFFICES ASSUME b \in t.free PROVE FALSE OBVIOUS
  <2>2. t.u[b] = Null \/ t.u[b] \in t.free BY <2>1 DEF Usable, FreeListSound
  <2>3. t.free \subseteq Blocks BY FieldTypes
  <2>4. QED BY <1>1, <2>2, <2>3, Constants DEF SmallFile
<1>3. HasPlace(t, b) BY <1>1, <1>2, Constants DEF HasPlace, IsAllocated
<1>4. QED BY <1>1, <1>3, OffsetsDef, Constants

LEMMA StartWriteKeeps ==
  ASSUME BlockTableInv, NEW b \in Blocks, NEW clone \in BOOLEAN, StartWrite(b, clone)
  PROVE  BlockTableInv'
<1>1. /\ TypeOK /\ TablesSound /\ SpaceSound /\ DirtyBits /\ NodesSound /\ JobsSound /\ SnapSound
      /\ HeadersSound
  BY DEF BlockTableInv
<1>2. PICK old : old = current.u[b] OBVIOUS
<1>3. PICK used : used = allocated \ (IF CannotFree(b, old, b \in pending) THEN {} ELSE {old}) OBVIOUS
<1>4. PICK o : o = Place(used) OBVIOUS
<1>5. /\ b \in dirty /\ Idle(b) /\ Offsets \ used # {} /\ allocated' = used \cup {o}
      /\ SetPlace(b, o, b \in pending)
      /\ job' = [job EXCEPT ![b] = [o |-> o, v |-> node[b], clone |-> clone, ckpt |-> b \in pending]]
      /\ disk' = Kept(disk, used \ {o}) /\ unsynced' = (unsynced \cap used) \cup {o}
      /\ SetDirty(b \in pending) /\ dirty' = dirty \ {b} /\ pending' = pending \ {b}
      /\ UNCHANGED <<checkpointed, node, stamp, phase, skipped, closing, count, lsn, logged, slots, snap,
                     kind, crashes>>
  BY <1>2, <1>3, <1>4 DEF StartWrite, ForCheckpoint
<1>6. o \in Offsets /\ o \notin used /\ o # None /\ o # Unused BY <1>4, <1>5, PlaceIsFree, Constants
<1>7. /\ current \in Translations /\ inprogress \in Translations /\ checkpointed \in Translations
      /\ Usable(current) /\ Usable(inprogress) /\ Usable(checkpointed)
      /\ Agree(current, inprogress) /\ Agree(inprogress, current)
      /\ Agree(current, checkpointed) /\ Agree(checkpointed, current)
      /\ Agree(inprogress, checkpointed) /\ Agree(checkpointed, inprogress)
      /\ current.btt = Unused /\ allocated \in SUBSET Offsets /\ unsynced \in SUBSET allocated
  BY <1>1 DEF TypeOK, TablesSound
<1>8. /\ OffsetsOf(current) \subseteq allocated /\ OffsetsOf(inprogress) \subseteq allocated
      /\ OffsetsOf(checkpointed) \subseteq allocated
  BY <1>1 DEF SpaceSound, InUse
<1>9. IsAllocated(current, b) /\ node[b] # None BY <1>1, <1>5 DEF NodesSound
<1>10. b \in pending =>
         /\ phase = "begun" /\ inprogress.btt = Unused /\ IsAllocated(inprogress, b)
         /\ inprogress.u[b] = old /\ snap[b] = node[b] /\ ~ skipped
  <2>1. SUFFICES ASSUME b \in pending
                 PROVE  /\ phase = "begun" /\ inprogress.btt = Unused /\ IsAllocated(inprogress, b)
                        /\ inprogress.u[b] = old /\ snap[b] = node[b] /\ ~ skipped
    OBVIOUS
  <2>2. phase = "begun" BY <2>1, <1>1 DEF SnapSound
  <2>3. inprogress.btt = Unused BY <2>2, <1>1 DEF TablesSound
  <2>4. ~ skipped BY <2>2, <1>1 DEF HeadersSound
  <2>5. QED BY <2>1, <2>2, <2>3, <2>4, <1>1, <1>2 DEF SnapSound
\* what stays in use
<1>11. ASSUME NEW x \in OffsetsOf(checkpointed) PROVE x \in used /\ x # o
  <2>1. x = old => PreventsFreeing(checkpointed, b, old) BY <1>2, <1>7, <1>9, KeptPlaces
  <2>2. QED BY <2>1, <1>3, <1>6, <1>8 DEF CannotFree
<1>12. ASSUME b \notin pending, NEW x \in OffsetsOf(inprogress) PROVE x \in used /\ x # o
  <2>1. x = old => PreventsFreeing(inprogress, b, old) BY <1>2, <1>7, <1>9, KeptPlaces
  <2>2. QED BY <2>1, <1>3, <1>6, <1>8, <1>12 DEF CannotFree
<1>13. ASSUME NEW c \in Blocks, c # b, HasPlace(current, c) PROVE current.u[c] \in used /\ current.u[c] # o
  <2>1. current.u[c] \in allocated /\ current.u[c] # Unused BY <1>13, <1>7, <1>8, PlaceIsOffset
  <2>2. current.u[c] # old
    <3>1. SUFFICES ASSUME current.u[c] = old PROVE FALSE OBVIOUS
    <3>2. HasPlace(current, b) BY <3>1, <2>1, <1>2, <1>9 DEF HasPlace
    <3>3. QED BY <3>1, <3>2, <1>2, <1>7, <1>13 DEF Usable
  <2>3. QED BY <2>1, <2>2, <1>3, <1>6
<1>14. ASSUME NEW c \in Blocks, c # b, HasPlace(inprogress, c)
       PROVE  inprogress.u[c] \in used /\ inprogress.u[c] # o
  <2>1. inprogress.u[c] \in allocated /\ inprogress.u[c] # Unused BY <1>14, <1>7, <1>8, PlaceIsOffset
  <2>2. inprogress.u[c] # old
    <3>1. SUFFICES ASSUME inprogress.u[c] = old PROVE FALSE OBVIOUS
    <3>2. HasPlace(current, b) BY <3>1, <2>1, <1>2, <1>9 DEF HasPlace
    <3>3. QED BY <3>1, <3>2, <1>2, <1>7, <1>14 DEF Agree
  <2>3. QED BY <2>1, <2>2, <1>3, <1>6
<1>15. OnlyFor(current, b, o) BY <1>6, <1>7, <1>13 DEF OnlyFor
<1>16. OnlyFor(inprogress, b, o)
  <2>1. o # inprogress.btt
    <3>1. CASE b \in pending BY <3>1, <1>6, <1>10
    <3>2. CASE b \notin pending BY <3>2, <1>6, <1>12, OffsetsDef
    <3>3. QED BY <3>1, <3>2
  <2>2. QED BY <2>1, <1>14 DEF OnlyFor
<1>17. OnlyFor(checkpointed, b, o)
  <2>1. o \notin OffsetsOf(checkpointed) BY <1>11
  <2>2. QED BY <2>1, <1>6, OffsetsDef DEF OnlyFor
\* the new translations
<1>18. /\ current' \in Translations /\ Usable(current') /\ Moved(current', current, b, o)
  BY <1>5, <1>6, <1>7, <1>9, <1>15, MovedFacts DEF SetPlace, OnlyFor
<1>19. /\ HasPlace(current', b) /\ current'.u[b] = o /\ Near(current', current, b, o)
       /\ \A c \in Blocks : c # b => (HasPlace(current', c) <=> HasPlace(current, c)) /\ current'.u[c] = current.u[c]
       /\ current'.btt = current.btt
       /\ \A c \in Blocks : IsAllocated(current', c) <=> IsAllocated(current, c)
  BY <1>6, <1>9, <1>18, MovedPlaces DEF Moved
<1>20. /\ inprogress' \in Translations /\ Usable(inprogress') /\ inprogress'.btt = inprogress.btt
       /\ b \in pending => Moved(inprogress', inprogress, b, o)
       /\ b \notin pending => inprogress' = inprogress
  <2>1. CASE b \in pending
    <3>1. inprogress' \in Translations /\ Usable(inprogress') /\ Moved(inprogress', inprogress, b, o)
      BY <2>1, <1>5, <1>6, <1>7, <1>10, <1>16, MovedFacts DEF SetPlace, OnlyFor
    <3>2. QED BY <2>1, <3>1 DEF Moved
  <2>2. CASE b \notin pending BY <2>2, <1>5, <1>7 DEF SetPlace
  <2>3. QED BY <2>1, <2>2
<1>21. /\ b \in pending => HasPlace(inprogress', b) /\ inprogress'.u[b] = o
       /\ Near(inprogress', inprogress, b, o)
       /\ \A c \in Blocks : c # b => /\ HasPlace(inprogress', c) <=> HasPlace(inprogress, c)
                                     /\ inprogress'.u[c] = inprogress.u[c]
       /\ \A c \in Blocks : IsAllocated(inprogress', c) <=> IsAllocated(inprogress, c)
  <2>1. CASE b \in pending
    <3>1. IsAllocated(inprogress, b) /\ Moved(inprogress', inprogress, b, o) BY <2>1, <1>10, <1>20
    <3>2. /\ HasPlace(inprogress', b) /\ inprogress'.u[b] = o /\ Near(inprogress', inprogress, b, o)
          /\ \A c \in Blocks : c # b => /\ HasPlace(inprogress', c) <=> HasPlace(inprogress, c)
                                        /\ inprogress'.u[c] = inprogress.u[c]
      BY <3>1, <1>6, MovedPlaces
    <3>3. QED BY <3>1, <3>2 DEF Moved
  <2>2. CASE b \notin pending BY <2>2, <1>20 DEF Near
  <2>3. QED BY <2>1, <2>2
\* the file
<1>22. /\ disk' \in [Offsets -> {None} \cup (Blocks \cup {None}) \X Nat]
       /\ \A x \in Offsets : x \in used /\ x # o => disk'[x] = disk[x]
  BY <1>1, <1>5 DEF TypeOK, Kept
<1>23. ASSUME NEW x \in Offsets, x \in used, x # o PROVE KeptAt(x)
  BY <1>5, <1>22, <1>23 DEF KeptAt
<1>24. /\ job' \in [Blocks -> [o : Offsets \cup {None}, v : Stamps \cup {None}, clone : BOOLEAN, ckpt : BOOLEAN]]
       /\ job'[b] = [o |-> o, v |-> node[b], clone |-> clone, ckpt |-> b \in pending]
       /\ \A c \in Blocks : c # b => job'[c] = job[c]
  <2>1. node[b] \in Stamps \cup {None} BY <1>1 DEF TypeOK, Snapshots
  <2>2. (b \in pending) \in BOOLEAN OBVIOUS
  <2>3. PICK j : j = [o |-> o, v |-> node[b], clone |-> clone, ckpt |-> b \in pending] OBVIOUS
  <2>4. j \in [o : Offsets \cup {None}, v : Stamps \cup {None}, clone : BOOLEAN, ckpt : BOOLEAN]
    BY <2>1, <2>2, <2>3, <1>6
  <2>5. job \in [Blocks -> [o : Offsets \cup {None}, v : Stamps \cup {None}, clone : BOOLEAN, ckpt : BOOLEAN]]
    BY <1>1 DEF TypeOK
  <2>6. job' = [job EXCEPT ![b] = j] BY <1>5, <2>3
  <2>7. QED BY <2>3, <2>4, <2>5, <2>6
<1>25. job'[b].o = o /\ job'[b].v = node[b] /\ (job'[b].ckpt <=> b \in pending) BY <1>24
<1>26. job[b].ckpt = FALSE BY <1>5 DEF Idle, NoJob
<1>27. TypeOK'
  <2>1. allocated' \in SUBSET Offsets /\ unsynced' \in SUBSET allocated' BY <1>3, <1>5, <1>6, <1>7
  <2>2. {hDirty', chDirty', skipped', closing'} \subseteq BOOLEAN BY <1>1, <1>5 DEF TypeOK, SetDirty
  <2>3. QED BY <2>1, <2>2, <1>1, <1>5, <1>18, <1>20, <1>22, <1>24 DEF TypeOK
<1>28. TablesSound'
  <2>1. Near(checkpointed, checkpointed, b, o) BY DEF Near
  <2>2. /\ Agree(current', inprogress') /\ Agree(inprogress', current')
        /\ Agree(current', checkpointed) /\ Agree(checkpointed, current')
        /\ Agree(inprogress', checkpointed) /\ Agree(checkpointed, inprogress')
    BY <2>1, <1>7, <1>15, <1>16, <1>17, <1>19, <1>20, <1>21, AgreeNear
  <2>3. phase' \in {"none", "closed"} => inprogress' = NoTranslation
    BY <1>1, <1>5, <1>10, <1>20 DEF TablesSound
  <2>4. QED BY <2>2, <2>3, <1>1, <1>5, <1>18, <1>19, <1>20 DEF TablesSound
<1>29. SpaceSound'
  <2>1. OffsetsOf(checkpointed') \subseteq allocated' BY <1>5, <1>11
  <2>2. ASSUME NEW x \in OffsetsOf(current') PROVE x \in allocated'
    <3>1. x # Unused /\ (x = current'.btt \/ \E c \in Blocks : HasPlace(current', c) /\ current'.u[c] = x)
      BY OffsetsDef
    <3>2. PICK c \in Blocks : HasPlace(current', c) /\ current'.u[c] = x BY <3>1, <1>7, <1>19
    <3>3. QED BY <3>2, <1>5, <1>13, <1>19
  <2>3. ASSUME NEW x \in OffsetsOf(inprogress') PROVE x \in allocated'
    <3>1. CASE b \notin pending BY <3>1, <1>5, <1>12, <1>20
    <3>2. CASE b \in pending
      <4>1. PICK c \in Blocks : HasPlace(inprogress', c) /\ inprogress'.u[c] = x
        BY <3>2, <1>10, <1>20, OffsetsDef
      <4>2. QED BY <3>2, <4>1, <1>5, <1>14, <1>21
    <3>3. QED BY <3>1, <3>2
  <2>4. ASSUME SmallFile, NEW x \in allocated' PROVE x \in InUse'
    <3>1. CASE x = o
      <4>1. x \in OffsetsOf(current') BY <3>1, <1>6, <1>19, OffsetsDef
      <4>2. QED BY <4>1 DEF InUse
    <3>2. CASE x \in used
      <4>1. x \in InUse /\ x \in Offsets BY <2>4, <3>2, <1>1, <1>3, <1>7 DEF SpaceSound
      <4>2. x # Unused BY <4>1, Constants
      <4>3. CASE x \in OffsetsOf(checkpointed) BY <4>3, <1>5 DEF InUse
      <4>4. CASE x = old
        <5>1. CannotFree(b, x, b \in pending) BY <4>4, <3>2, <1>3
        <5>2. CASE PreventsFreeing(checkpointed, b, x) BY <2>4, <4>1, <5>2, <1>5, <1>7, PreventsIsPlace DEF InUse
        <5>3. CASE b \notin pending /\ PreventsFreeing(inprogress, b, x)
          <6>1. x \in OffsetsOf(inprogress) BY <2>4, <4>1, <5>3, <1>7, PreventsIsPlace
          <6>2. QED BY <6>1, <5>3, <1>20 DEF InUse
        <5>4. QED BY <5>1, <5>2, <5>3 DEF CannotFree
      <4>5. CASE x # old /\ x \in OffsetsOf(current)
        <5>1. PICK c \in Blocks : HasPlace(current, c) /\ current.u[c] = x BY <4>2, <4>5, <1>7, OffsetsDef
        <5>2. c # b BY <4>5, <5>1, <1>2
        <5>3. x \in OffsetsOf(current') BY <4>2, <5>1, <5>2, <1>19, OffsetsDef
        <5>4. QED BY <5>3 DEF InUse
      <4>6. CASE x # old /\ x \in OffsetsOf(inprogress)
        <5>1. CASE b \notin pending BY <5>1, <4>6, <1>20 DEF InUse
        <5>2. CASE b \in pending
          <6>1. PICK c \in Blocks : HasPlace(inprogress, c) /\ inprogress.u[c] = x
            BY <4>2, <4>6, <5>2, <1>10, OffsetsDef
          <6>2. c # b BY <4>6, <5>2, <6>1, <1>10
          <6>3. x \in OffsetsOf(inprogress') BY <4>2, <6>1, <6>2, <1>21, OffsetsDef
          <6>4. QED BY <6>3 DEF InUse
        <5>3. QED BY <5>1, <5>2
      <4>7. QED BY <4>1, <4>3, <4>4, <4>5, <4>6 DEF InUse
    <3>3. QED BY <2>4, <3>1, <3>2, <1>5
  <2>5. InUse' \subseteq allocated' BY <2>1, <2>2, <2>3 DEF InUse
  <2>6. SmallFile => allocated' \subseteq InUse' BY <2>4
  <2>7. QED BY <2>5, <2>6 DEF SpaceSound, SmallFile
<1>30. DirtyBits'
  <2>1. /\ hDirty' <=> hDirty \/ b \notin pending
        /\ chDirty' <=> chDirty \/ b \in pending
    BY <1>5 DEF SetDirty
  <2>2. phase' \in {"none", "closed"} => hDirty' BY <2>1, <1>5, <1>10
  <2>3. ASSUME phase' \notin {"none", "closed"}, ~ hDirty' PROVE Within(current', inprogress')
    <3>1. b \in pending /\ ~ hDirty BY <2>1, <2>3
    <3>2. Within(current, inprogress) BY <2>3, <3>1, <1>1, <1>5 DEF DirtyBits
    <3>3. QED BY <3>1, <3>2, <1>19, <1>21 DEF Within
  <2>4. ASSUME (phase' = "begun" /\ ~ chDirty') \/ skipped' PROVE Within(inprogress', checkpointed')
    <3>1. b \notin pending BY <2>1, <2>4, <1>5, <1>10
    <3>2. (phase = "begun" /\ ~ chDirty) \/ skipped BY <2>1, <2>4, <1>5
    <3>3. QED BY <3>1, <3>2, <1>1, <1>5, <1>20 DEF DirtyBits
  <2>5. ASSUME phase' \notin {"none", "closed"}, NEW c \in Blocks, HasPlace(current', c),
               HasPlace(checkpointed, c), current'.u[c] = checkpointed.u[c]
        PROVE  HasPlace(inprogress', c) /\ inprogress'.u[c] = current'.u[c]
    <3>1. c # b BY <2>5, <1>17, <1>19, <1>11, <1>7, PlaceIsOffset
    <3>2. QED BY <2>5, <3>1, <1>1, <1>5, <1>19, <1>21 DEF DirtyBits
  <2>6. QED BY <2>2, <2>3, <2>4, <2>5, <1>5 DEF DirtyBits
<1>31. NodesSound'
  <2>1. ASSUME NEW c \in Blocks, c # b
        PROVE  /\ ~ IsAllocated(current', c) => node'[c] = None /\ c \notin dirty'
               /\ HasPlace(current', c) \/ c \in dirty' => node'[c] # None
               /\ node'[c] # None /\ c \notin dirty' /\ Idle(c)' => HasPlace(current', c) /\ Written(c)'
    <3>1. Idle(c)' = Idle(c) BY <2>1, <1>24 DEF Idle
    <3>2. HasPlace(current, c) => Written(c)' = Written(c)
      <4>1. SUFFICES ASSUME HasPlace(current, c) PROVE Written(c)' = Written(c) OBVIOUS
      <4>2. current.u[c] \in Offsets BY <4>1, <1>7, PlaceIsOffset
      <4>3. disk'[current.u[c]] = disk[current.u[c]] BY <2>1, <4>1, <4>2, <1>13, <1>22
      <4>4. QED BY <2>1, <4>3, <1>5, <1>19 DEF Written
    <3>3. QED BY <2>1, <3>1, <3>2, <1>1, <1>5, <1>19 DEF NodesSound
  <2>2. ~ Idle(b)' BY <1>6, <1>25 DEF Idle, NoJob
  <2>3. QED BY <2>1, <2>2, <1>5, <1>9, <1>19 DEF NodesSound
<1>32. JobsSound'
  <2>1. \A c \in Blocks : c # b => Idle(c)' = Idle(c) BY <1>24 DEF Idle
  <2>2. HasPlace(checkpointed, b) => checkpointed.u[b] # o BY <1>7, <1>11, PlaceIsOffset
  <2>3. b \notin pending /\ HasPlace(inprogress', b) => inprogress'.u[b] # o
    BY <1>7, <1>12, <1>20, PlaceIsOffset
  <2>4. ASSUME NEW c \in Blocks, c # b
        PROVE  /\ job'[c].o = None => Idle(c)'
               /\ job'[c].o # None =>
                    /\ HasPlace(current', c) /\ current'.u[c] = job'[c].o /\ job'[c].v # None
                    /\ c \notin dirty' => job'[c].v = node'[c]
                    /\ HasPlace(checkpointed', c) => checkpointed'.u[c] # job'[c].o
                    /\ ~ job'[c].ckpt /\ HasPlace(inprogress', c) => inprogress'.u[c] # job'[c].o
                    /\ job'[c].ckpt => /\ phase' = "begun" /\ c \notin pending'
                                       /\ HasPlace(inprogress', c) /\ inprogress'.u[c] = job'[c].o
                                       /\ job'[c].v = snap'[c]
    BY <2>1, <2>4, <1>1, <1>5, <1>19, <1>21, <1>24 DEF JobsSound
  <2>5. QED BY <2>2, <2>3, <2>4, <1>5, <1>6, <1>9, <1>10, <1>19, <1>21, <1>25 DEF JobsSound
<1>33. SnapSound'
  <2>1. pending' # {} => phase' = "begun" BY <1>1, <1>5 DEF SnapSound
  <2>2. ASSUME NEW c \in pending'
        PROVE  /\ IsAllocated(current', c) /\ IsAllocated(inprogress', c) /\ inprogress'.u[c] = current'.u[c]
               /\ Idle(c)' /\ snap'[c] = node'[c]
    <3>1. c \in pending /\ c # b /\ c \in Blocks BY <1>1, <1>5 DEF TypeOK
    <3>2. QED BY <3>1, <1>1, <1>5, <1>19, <1>21, <1>24 DEF SnapSound, Idle
  <2>3. ASSUME phase' \notin {"none", "closed"}, NEW c \in Blocks \ pending'
        PROVE  /\ HasPlace(inprogress', c) <=> snap'[c] # None
               /\ HasPlace(inprogress', c) /\ ~ job'[c].ckpt => disk'[inprogress'.u[c]] = <<c, snap'[c]>>
    <3>1. CASE c = b /\ b \in pending BY <3>1, <1>5, <1>9, <1>10, <1>21, <1>25
    <3>2. CASE c # b \/ b \notin pending
      <4>1. c \notin pending BY <2>3, <3>2, <1>5
      <4>2. (HasPlace(inprogress', c) <=> HasPlace(inprogress, c)) /\ inprogress'.u[c] = inprogress.u[c]
        BY <3>2, <1>20, <1>21
      <4>3. HasPlace(inprogress, c) => disk'[inprogress.u[c]] = disk[inprogress.u[c]]
        BY <3>2, <1>7, <1>12, <1>14, <1>22, PlaceIsOffset
      <4>4. ~ job'[c].ckpt => ~ job[c].ckpt BY <1>24, <1>26
      <4>5. QED BY <2>3, <4>1, <4>2, <4>3, <4>4, <1>1, <1>5 DEF SnapSound
    <3>3. QED BY <3>1, <3>2
  <2>4. QED BY <2>1, <2>2, <2>3 DEF SnapSound
<1>34. HeadersSound'
  <2>1. \A x \in OffsetsOf(checkpointed) : KeptAt(x) BY <1>7, <1>11, <1>23, OffsetsAre
  <2>2. phase \in {"translated", "header"} \/ NewDone =>
          UNCHANGED <<inprogress, snap>> /\ \A x \in OffsetsOf(inprogress) : KeptAt(x)
    <3>1. SUFFICES ASSUME phase \in {"translated", "header"} \/ NewDone
                   PROVE  UNCHANGED <<inprogress, snap>> /\ \A x \in OffsetsOf(inprogress) : KeptAt(x)
      OBVIOUS
    <3>2. b \notin pending BY <3>1, <1>10 DEF NewDone
    <3>3. QED BY <3>2, <1>5, <1>7, <1>12, <1>20, <1>23, OffsetsAre
  <2>3. (hDirty => hDirty') /\ (chDirty => chDirty') BY <1>5 DEF SetDirty
  <2>4. HeadersLeft BY <2>1, <2>2, <2>3, <1>5 DEF HeadersLeft
  <2>5. QED BY <1>1, <2>4, HeadersKept
<1>35. QED BY <1>27, <1>28, <1>29, <1>30, <1>31, <1>32, <1>33, <1>34 DEF BlockTableInv


LEMMA FreeKeeps ==
  ASSUME BlockTableInv, NEW b \in Blocks, FreeBlocknum(b)
  PROVE  BlockTableInv'
<1>1. /\ TypeOK /\ TablesSound /\ SpaceSound /\ DirtyBits /\ NodesSound /\ JobsSound /\ SnapSound
      /\ HeadersSound
  BY DEF BlockTableInv
<1>2. PICK old : old = current.u[b] OBVIOUS
<1>3. /\ IsAllocated(current, b) /\ Idle(b) /\ current' = FreeIn(current, b)
      /\ inprogress' = IF b \in pending THEN FreeIn(inprogress, b) ELSE inprogress
      /\ allocated' = IF \/ old = Unused
                         \/ PreventsFreeing(inprogress', b, old)
                         \/ PreventsFreeing(checkpointed, b, old)
                      THEN allocated ELSE allocated \ {old}
      /\ disk' = Kept(disk, allocated') /\ unsynced' = unsynced \cap allocated'
      /\ SetDirty(b \in pending)
      /\ snap' = IF b \in pending THEN [snap EXCEPT ![b] = None] ELSE snap
      /\ dirty' = dirty \ {b} /\ pending' = pending \ {b} /\ node' = [node EXCEPT ![b] = None]
      /\ UNCHANGED <<checkpointed, stamp, job, phase, skipped, closing, count, lsn, logged, slots, kind,
                     crashes>>
  BY <1>2 DEF FreeBlocknum, ForCheckpoint
<1>4. /\ current \in Translations /\ inprogress \in Translations /\ checkpointed \in Translations
      /\ Usable(current) /\ Usable(inprogress) /\ Usable(checkpointed)
      /\ Agree(current, inprogress) /\ Agree(inprogress, current)
      /\ Agree(current, checkpointed) /\ Agree(checkpointed, current)
      /\ Agree(inprogress, checkpointed) /\ Agree(checkpointed, inprogress)
      /\ current.btt = Unused /\ allocated \in SUBSET Offsets /\ unsynced \in SUBSET allocated
  BY <1>1 DEF TypeOK, TablesSound
<1>5. /\ OffsetsOf(current) \subseteq allocated /\ OffsetsOf(inprogress) \subseteq allocated
      /\ OffsetsOf(checkpointed) \subseteq allocated
  BY <1>1 DEF SpaceSound, InUse
<1>6. b \in pending =>
         /\ phase = "begun" /\ IsAllocated(inprogress, b) /\ inprogress.u[b] = old /\ ~ skipped
  <2>1. b \in pending => phase = "begun" BY <1>1 DEF SnapSound
  <2>2. phase = "begun" => ~ skipped BY <1>1 DEF HeadersSound
  <2>3. QED BY <2>1, <2>2, <1>1, <1>2 DEF SnapSound
\* the new translations
<1>7. current' \in Translations /\ Usable(current') /\ Dropped(current', current, b)
  BY <1>3, <1>4, FreeInFacts
<1>8. /\ ~ IsAllocated(current', b) /\ ~ HasPlace(current', b) /\ Within(current', current)
      /\ \A c \in Blocks : c # b => /\ HasPlace(current', c) <=> HasPlace(current, c)
                                    /\ IsAllocated(current', c) <=> IsAllocated(current, c)
                                    /\ current'.u[c] = current.u[c]
      /\ current'.btt = current.btt
  BY <1>7, DroppedPlaces DEF Dropped
<1>9. /\ inprogress' \in Translations /\ Usable(inprogress') /\ inprogress'.btt = inprogress.btt
      /\ b \in pending => ~ HasPlace(inprogress', b)
      /\ b \notin pending => inprogress' = inprogress
      /\ Within(inprogress', inprogress)
      /\ \A c \in Blocks : c # b => /\ HasPlace(inprogress', c) <=> HasPlace(inprogress, c)
                                    /\ IsAllocated(inprogress', c) <=> IsAllocated(inprogress, c)
                                    /\ inprogress'.u[c] = inprogress.u[c]
  <2>1. CASE b \in pending
    <3>1. inprogress' \in Translations /\ Usable(inprogress') /\ Dropped(inprogress', inprogress, b)
      BY <2>1, <1>3, <1>4, <1>6, FreeInFacts
    <3>2. inprogress'.btt = inprogress.btt BY <3>1 DEF Dropped
    <3>3. /\ ~ HasPlace(inprogress', b) /\ Within(inprogress', inprogress)
          /\ \A c \in Blocks : c # b => /\ HasPlace(inprogress', c) <=> HasPlace(inprogress, c)
                                        /\ IsAllocated(inprogress', c) <=> IsAllocated(inprogress, c)
                                        /\ inprogress'.u[c] = inprogress.u[c]
      BY <3>1, DroppedPlaces
    <3>4. QED BY <2>1, <3>1, <3>2, <3>3
  <2>2. CASE b \notin pending BY <2>2, <1>3, <1>4, WithinReflexive
  <2>3. QED BY <2>1, <2>2
<1>10. /\ Agree(current', inprogress') /\ Agree(inprogress', current')
       /\ Agree(current', checkpointed) /\ Agree(checkpointed, current')
       /\ Agree(inprogress', checkpointed) /\ Agree(checkpointed, inprogress')
       /\ Agree(current, inprogress')
  BY <1>4, <1>8, <1>9, AgreeWithin, WithinReflexive
\* what stays in use
<1>11. ASSUME NEW x \in OffsetsOf(checkpointed) PROVE x \in allocated'
  <2>1. x = old => PreventsFreeing(checkpointed, b, old) BY <1>2, <1>3, <1>4, KeptPlaces
  <2>2. QED BY <2>1, <1>3, <1>5
<1>12. ASSUME NEW x \in OffsetsOf(inprogress') PROVE x \in allocated'
  <2>1. x = old => PreventsFreeing(inprogress', b, old) BY <1>2, <1>3, <1>4, <1>9, <1>10, KeptPlaces
  <2>2. x \in allocated BY <1>5, <1>9, OffsetsWithin
  <2>3. QED BY <2>1, <2>2, <1>3
<1>13. ASSUME NEW c \in Blocks, c # b, HasPlace(current, c) PROVE current.u[c] \in allocated'
  <2>1. current.u[c] \in allocated /\ current.u[c] # Unused BY <1>13, <1>4, <1>5, PlaceIsOffset
  <2>2. current.u[c] # old
    <3>1. SUFFICES ASSUME current.u[c] = old PROVE FALSE OBVIOUS
    <3>2. HasPlace(current, b) BY <3>1, <2>1, <1>2, <1>3 DEF HasPlace
    <3>3. QED BY <3>1, <3>2, <1>2, <1>4, <1>13 DEF Usable
  <2>3. QED BY <2>1, <2>2, <1>3
<1>14. allocated' \in SUBSET Offsets /\ allocated' \subseteq allocated BY <1>3, <1>4
<1>15. /\ disk' \in [Offsets -> {None} \cup (Blocks \cup {None}) \X Nat]
       /\ \A x \in Offsets : x \in allocated' => disk'[x] = disk[x]
  BY <1>1, <1>3 DEF TypeOK, Kept
<1>16. ASSUME NEW x \in allocated' PROVE KeptAt(x)
  BY <1>3, <1>14, <1>15 DEF KeptAt
<1>17. node' \in Snapshots /\ node'[b] = None /\ \A c \in Blocks : c # b => node'[c] = node[c]
  BY <1>1, <1>3 DEF TypeOK, Snapshots
<1>18. /\ snap' \in Snapshots /\ (b \in pending => snap'[b] = None)
       /\ \A c \in Blocks : c # b \/ b \notin pending => snap'[c] = snap[c]
  BY <1>1, <1>3 DEF TypeOK, Snapshots
<1>19. job[b].o = None /\ job[b].ckpt = FALSE BY <1>3 DEF Idle, NoJob
<1>20. TypeOK'
  <2>1. {hDirty', chDirty', skipped', closing'} \subseteq BOOLEAN BY <1>1, <1>3 DEF TypeOK, SetDirty
  <2>2. unsynced' \in SUBSET allocated' BY <1>3
  <2>3. QED BY <2>1, <2>2, <1>1, <1>3, <1>7, <1>9, <1>14, <1>15, <1>17, <1>18 DEF TypeOK
<1>21. TablesSound'
  <2>1. phase' \in {"none", "closed"} => inprogress' = NoTranslation
    BY <1>1, <1>3, <1>6, <1>9 DEF TablesSound
  <2>2. QED BY <2>1, <1>1, <1>3, <1>7, <1>8, <1>9, <1>10 DEF TablesSound
<1>22. SpaceSound'
  <2>1. OffsetsOf(checkpointed') \subseteq allocated' /\ OffsetsOf(inprogress') \subseteq allocated'
    BY <1>3, <1>11, <1>12
  <2>2. ASSUME NEW x \in OffsetsOf(current') PROVE x \in allocated'
    <3>1. PICK c \in Blocks : HasPlace(current', c) /\ current'.u[c] = x BY <1>4, <1>8, OffsetsDef
    <3>2. c # b BY <3>1, <1>8
    <3>3. QED BY <3>1, <3>2, <1>8, <1>13
  <2>3. ASSUME SmallFile, NEW x \in allocated' PROVE x \in InUse'
    <3>1. x \in InUse /\ x \in Offsets /\ x # Unused BY <2>3, <1>1, <1>14, Constants DEF SpaceSound
    <3>2. CASE x \in OffsetsOf(checkpointed) BY <3>2, <1>3 DEF InUse
    <3>3. CASE x = old
      <4>1. CASE PreventsFreeing(checkpointed, b, x) BY <2>3, <4>1, <3>1, <1>3, <1>4, PreventsIsPlace DEF InUse
      <4>2. CASE PreventsFreeing(inprogress', b, x) BY <2>3, <4>2, <3>1, <1>9, PreventsIsPlace DEF InUse
      <4>3. QED BY <2>3, <3>1, <3>3, <4>1, <4>2, <1>3
    <3>4. CASE x # old /\ x \in OffsetsOf(current)
      <4>1. PICK c \in Blocks : HasPlace(current, c) /\ current.u[c] = x BY <3>4, <1>4, OffsetsDef
      <4>2. c # b BY <3>4, <4>1, <1>2
      <4>3. x \in OffsetsOf(current') BY <3>1, <4>1, <4>2, <1>8, OffsetsDef
      <4>4. QED BY <4>3 DEF InUse
    <3>5. CASE x # old /\ x \in OffsetsOf(inprogress)
      <4>1. x \in OffsetsOf(inprogress')
        <5>1. CASE b \notin pending BY <5>1, <3>5, <1>9
        <5>2. CASE x = inprogress.btt BY <5>2, <3>1, <1>9, OffsetsDef
        <5>3. CASE b \in pending /\ x # inprogress.btt
          <6>1. PICK c \in Blocks : HasPlace(inprogress, c) /\ inprogress.u[c] = x BY <3>5, <5>3, OffsetsDef
          <6>2. c # b BY <3>5, <5>3, <6>1, <1>6
          <6>3. QED BY <3>1, <6>1, <6>2, <1>9, OffsetsDef
        <5>4. QED BY <5>1, <5>2, <5>3
      <4>2. QED BY <4>1 DEF InUse
    <3>6. QED BY <3>1, <3>2, <3>3, <3>4, <3>5 DEF InUse
  <2>4. InUse' \subseteq allocated' BY <2>1, <2>2 DEF InUse
  <2>5. SmallFile => allocated' \subseteq InUse' BY <2>3
  <2>6. QED BY <2>4, <2>5 DEF SpaceSound, SmallFile
<1>23. DirtyBits'
  <2>1. /\ hDirty' <=> hDirty \/ b \notin pending
        /\ chDirty' <=> chDirty \/ b \in pending
    BY <1>3 DEF SetDirty
  <2>2. phase' \in {"none", "closed"} => hDirty' BY <2>1, <1>3, <1>6
  <2>3. ASSUME phase' \notin {"none", "closed"}, ~ hDirty' PROVE Within(current', inprogress')
    <3>1. b \in pending /\ ~ hDirty BY <2>1, <2>3
    <3>2. Within(current, inprogress) BY <2>3, <3>1, <1>1, <1>3 DEF DirtyBits
    <3>3. QED BY <3>1, <3>2, <1>8, <1>9 DEF Within
  <2>4. ASSUME (phase' = "begun" /\ ~ chDirty') \/ skipped' PROVE Within(inprogress', checkpointed')
    <3>1. b \notin pending BY <2>1, <2>4, <1>3, <1>6
    <3>2. (phase = "begun" /\ ~ chDirty) \/ skipped BY <2>1, <2>4, <1>3
    <3>3. QED BY <3>1, <3>2, <1>1, <1>3, <1>9 DEF DirtyBits
  <2>5. ASSUME phase' \notin {"none", "closed"}, NEW c \in Blocks, HasPlace(current', c),
               HasPlace(checkpointed, c), current'.u[c] = checkpointed.u[c]
        PROVE  HasPlace(inprogress', c) /\ inprogress'.u[c] = current'.u[c]
    <3>1. c # b BY <2>5, <1>8
    <3>2. QED BY <2>5, <3>1, <1>1, <1>3, <1>8, <1>9 DEF DirtyBits
  <2>6. QED BY <2>2, <2>3, <2>4, <2>5, <1>3 DEF DirtyBits
<1>24. NodesSound'
  <2>1. ASSUME NEW c \in Blocks, c # b
        PROVE  /\ ~ IsAllocated(current', c) => node'[c] = None /\ c \notin dirty'
               /\ HasPlace(current', c) \/ c \in dirty' => node'[c] # None
               /\ node'[c] # None /\ c \notin dirty' /\ Idle(c)' => HasPlace(current', c) /\ Written(c)'
    <3>1. Idle(c)' = Idle(c) BY <1>3 DEF Idle
    <3>2. HasPlace(current, c) => Written(c)' = Written(c)
      <4>1. SUFFICES ASSUME HasPlace(current, c) PROVE Written(c)' = Written(c) OBVIOUS
      <4>2. disk'[current.u[c]] = disk[current.u[c]] BY <2>1, <4>1, <1>13, <1>14, <1>15
      <4>3. QED BY <2>1, <4>2, <1>8, <1>17 DEF Written
    <3>3. QED BY <2>1, <3>1, <3>2, <1>1, <1>3, <1>8, <1>17 DEF NodesSound
  <2>2. QED BY <2>1, <1>3, <1>8, <1>17 DEF NodesSound
<1>25. JobsSound'
  <2>1. \A c \in Blocks : Idle(c)' = Idle(c) BY <1>3 DEF Idle
  <2>2. ASSUME NEW c \in Blocks, c # b
        PROVE  /\ job'[c].o = None => Idle(c)'
               /\ job'[c].o # None =>
                    /\ HasPlace(current', c) /\ current'.u[c] = job'[c].o /\ job'[c].v # None
                    /\ c \notin dirty' => job'[c].v = node'[c]
                    /\ HasPlace(checkpointed', c) => checkpointed'.u[c] # job'[c].o
                    /\ ~ job'[c].ckpt /\ HasPlace(inprogress', c) => inprogress'.u[c] # job'[c].o
                    /\ job'[c].ckpt => /\ phase' = "begun" /\ c \notin pending'
                                       /\ HasPlace(inprogress', c) /\ inprogress'.u[c] = job'[c].o
                                       /\ job'[c].v = snap'[c]
    BY <2>1, <2>2, <1>1, <1>3, <1>8, <1>9, <1>17, <1>18 DEF JobsSound
  <2>3. QED BY <2>1, <2>2, <1>3, <1>19 DEF JobsSound
<1>26. SnapSound'
  <2>1. pending' # {} => phase' = "begun" BY <1>1, <1>3 DEF SnapSound
  <2>2. ASSUME NEW c \in pending'
        PROVE  /\ IsAllocated(current', c) /\ IsAllocated(inprogress', c) /\ inprogress'.u[c] = current'.u[c]
               /\ Idle(c)' /\ snap'[c] = node'[c]
    <3>1. c \in pending /\ c # b /\ c \in Blocks BY <1>1, <1>3 DEF TypeOK
    <3>2. QED BY <3>1, <1>1, <1>3, <1>8, <1>9, <1>17, <1>18 DEF SnapSound, Idle
  <2>3. ASSUME phase' \notin {"none", "closed"}, NEW c \in Blocks \ pending'
        PROVE  /\ HasPlace(inprogress', c) <=> snap'[c] # None
               /\ HasPlace(inprogress', c) /\ ~ job'[c].ckpt => disk'[inprogress'.u[c]] = <<c, snap'[c]>>
    <3>1. CASE c = b /\ b \in pending BY <3>1, <1>9, <1>18
    <3>2. CASE c # b \/ b \notin pending
      <4>1. c \notin pending BY <2>3, <3>2, <1>3
      <4>2. (HasPlace(inprogress', c) <=> HasPlace(inprogress, c)) /\ inprogress'.u[c] = inprogress.u[c]
        BY <3>2, <1>9
      <4>3. HasPlace(inprogress', c) => disk'[inprogress'.u[c]] = disk[inprogress'.u[c]]
        BY <1>9, <1>12, <1>15, PlaceIsOffset
      <4>4. snap'[c] = snap[c] BY <3>2, <1>18
      <4>5. QED BY <2>3, <4>1, <4>2, <4>3, <4>4, <1>1, <1>3 DEF SnapSound
    <3>3. QED BY <3>1, <3>2
  <2>4. QED BY <2>1, <2>2, <2>3 DEF SnapSound
<1>27. HeadersSound'
  <2>1. \A x \in OffsetsOf(checkpointed) : KeptAt(x) BY <1>11, <1>16
  <2>2. phase \in {"translated", "header"} \/ NewDone =>
          UNCHANGED <<inprogress, snap>> /\ \A x \in OffsetsOf(inprogress) : KeptAt(x)
    <3>1. SUFFICES ASSUME phase \in {"translated", "header"} \/ NewDone
                   PROVE  UNCHANGED <<inprogress, snap>> /\ \A x \in OffsetsOf(inprogress) : KeptAt(x)
      OBVIOUS
    <3>2. b \notin pending BY <3>1, <1>6 DEF NewDone
    <3>3. QED BY <3>2, <1>3, <1>9, <1>12, <1>16
  <2>3. (hDirty => hDirty') /\ (chDirty => chDirty') BY <1>3 DEF SetDirty
  <2>4. HeadersLeft BY <2>1, <2>2, <2>3, <1>3 DEF HeadersLeft
  <2>5. QED BY <1>1, <2>4, HeadersKept
<1>28. QED BY <1>20, <1>21, <1>22, <1>23, <1>24, <1>25, <1>26, <1>27 DEF BlockTableInv


LEMMA AgreeSelf ==
  ASSUME NEW t \in Translations, Usable(t) PROVE Agree(t, t)
BY DEF Usable, Agree

LEMMA BeginKeeps ==
  ASSUME BlockTableInv, NEW cached \in SUBSET {b \in Blocks : node[b] # None}, dirty \subseteq cached,
         BeginCopy(cached), UNCHANGED closing \/ (closing' = TRUE /\ kind = "dictionary")
  PROVE  BlockTableInv'
<1>1. /\ TypeOK /\ TablesSound /\ SpaceSound /\ DirtyBits /\ NodesSound /\ JobsSound /\ SnapSound
      /\ HeadersSound
  BY DEF BlockTableInv
<1>2. /\ phase = "none" /\ \A b \in Blocks : Idle(b)
      /\ current' = Optimize(current) /\ inprogress' = CopyTranslation(Optimize(current))
      /\ snap' = node /\ pending' = cached /\ chDirty' = hDirty /\ hDirty' = FALSE
      /\ lsn' = lsn + 1 /\ phase' = "begun" /\ skipped' = FALSE
      /\ UNCHANGED <<checkpointed, allocated, disk, unsynced, node, stamp, dirty, job, count, logged,
                     slots, kind, crashes>>
  BY DEF BeginCopy
<1>3. /\ current \in Translations /\ checkpointed \in Translations
      /\ Usable(current) /\ Usable(checkpointed)
      /\ Agree(current, checkpointed) /\ Agree(checkpointed, current)
      /\ current.btt = Unused /\ checkpointed.btt \in Offsets /\ inprogress = NoTranslation
  BY <1>1, <1>2 DEF TypeOK, TablesSound
<1>4. /\ current' \in Translations /\ Usable(current') /\ current'.btt = Unused
      /\ SameBlocks(current', current)
  BY <1>2, <1>3, OptimizeFacts
<1>5. /\ inprogress' \in Translations /\ Usable(inprogress') /\ inprogress'.btt = Unused
      /\ SameBlocks(inprogress', current')
  BY <1>2, <1>4, CopyFacts
<1>6. SameBlocks(inprogress', current) BY <1>4, <1>5 DEF SameBlocks
<1>7. SamePlaces(current', current) /\ SamePlaces(inprogress', current) /\ SamePlaces(inprogress', current')
  BY <1>4, <1>5, <1>6, SameBlocksSamePlaces
<1>8. /\ Within(current', current) /\ Within(current, current') /\ Within(inprogress', current)
      /\ Within(current', inprogress')
  BY <1>7, WithinSame
<1>9. TypeOK'
  <2>1. {hDirty', chDirty', skipped', closing'} \subseteq BOOLEAN BY <1>1, <1>2 DEF TypeOK
  <2>2. lsn' \in Nat /\ logged' \in 0 .. lsn' BY <1>1, <1>2 DEF TypeOK
  <2>3. QED BY <2>1, <2>2, <1>1, <1>2, <1>4, <1>5 DEF TypeOK
<1>10. TablesSound'
  <2>1. Agree(current, current) BY <1>3, AgreeSelf
  <2>2. Agree(current', inprogress') /\ Agree(inprogress', current')
    BY <2>1, <1>3, <1>4, <1>5, <1>8, AgreeWithin
  <2>3. Agree(current', checkpointed) /\ Agree(checkpointed, current')
    BY <1>3, <1>4, <1>8, AgreeWithin, WithinReflexive
  <2>4. Agree(inprogress', checkpointed) /\ Agree(checkpointed, inprogress')
    BY <1>3, <1>5, <1>8, AgreeWithin, WithinReflexive
  <2>5. inprogress'.btt # checkpointed.btt BY <1>3, <1>5, Constants
  <2>6. QED BY <2>2, <2>3, <2>4, <2>5, <1>2, <1>3, <1>4, <1>5 DEF TablesSound
<1>11. SpaceSound'
  <2>1. OffsetsOf(current') = OffsetsOf(current) /\ OffsetsOf(inprogress') = OffsetsOf(current)
    BY <1>3, <1>4, <1>5, <1>7, OffsetsSame
  <2>2. OffsetsOf(inprogress) = {} BY <1>3, NoTranslationFacts
  <2>3. InUse' = InUse BY <2>1, <2>2, <1>2 DEF InUse
  <2>4. QED BY <2>3, <1>1, <1>2 DEF SpaceSound
<1>12. DirtyBits'
  <2>1. ~ chDirty' => Within(inprogress', checkpointed)
    <3>1. ~ chDirty' => Within(current, checkpointed) BY <1>1, <1>2 DEF DirtyBits
    <3>2. QED BY <3>1, <1>8, WithinTransitive
  <2>2. QED BY <2>1, <1>2, <1>8 DEF DirtyBits, Within
<1>13. NodesSound'
  <2>1. ASSUME NEW b \in Blocks
        PROVE  /\ IsAllocated(current', b) <=> IsAllocated(current, b)
               /\ HasPlace(current', b) <=> HasPlace(current, b)
               /\ HasPlace(current, b) => Written(b)' = Written(b)
               /\ Idle(b)' = Idle(b)
    BY <1>2, <1>4, <1>7 DEF SameBlocks, SamePlaces, Written, Idle
  <2>2. QED BY <2>1, <1>1, <1>2 DEF NodesSound
<1>14. JobsSound'
  <2>1. \A b \in Blocks : job'[b] = NoJob BY <1>2 DEF Idle
  <2>2. NoJob.o = None BY DEF NoJob
  <2>3. QED BY <2>1, <2>2 DEF JobsSound, Idle
<1>15. SnapSound'
  <2>1. ASSUME NEW c \in pending'
        PROVE  /\ IsAllocated(current', c) /\ IsAllocated(inprogress', c) /\ inprogress'.u[c] = current'.u[c]
               /\ Idle(c)' /\ snap'[c] = node'[c]
    <3>1. c \in Blocks /\ node[c] # None BY <1>2
    <3>2. IsAllocated(current, c) BY <3>1, <1>1 DEF NodesSound
    <3>3. QED BY <3>1, <3>2, <1>2, <1>4, <1>5 DEF SameBlocks, Idle
  <2>2. ASSUME NEW c \in Blocks \ pending'
        PROVE  /\ HasPlace(inprogress', c) <=> snap'[c] # None
               /\ HasPlace(inprogress', c) /\ ~ job'[c].ckpt => disk'[inprogress'.u[c]] = <<c, snap'[c]>>
    <3>1. c \notin dirty /\ Idle(c) BY <1>2
    <3>2. /\ HasPlace(current, c) <=> node[c] # None
          /\ HasPlace(current, c) => disk[current.u[c]] = <<c, node[c]>>
      BY <3>1, <1>1 DEF NodesSound, Written
    <3>3. QED BY <3>2, <1>2, <1>7 DEF SamePlaces
  <2>3. QED BY <2>1, <2>2, <1>2 DEF SnapSound
<1>16. HeadersSound'
  <2>1. ~ NewDone /\ ~ NewDone' /\ count \in Nat /\ NewSlot' = NewSlot
    BY <1>1, <1>2 DEF NewDone, TypeOK, NewSlot
  <2>2. Slot(count) \in {0, 1} /\ NewSlot \in {0, 1} BY <2>1, TwoSlots
  <2>3. PICK h \in slots[Slot(count)] : slots[Slot(count)] = {h} /\ IsLast(h, count)
    BY <2>1, <1>1 DEF HeadersSound
  <2>4. PICK n : n = count OBVIOUS
  <2>5. \A o \in OffsetsOf(checkpointed) : KeptAt(o) BY <1>2 DEF KeptAt
  <2>6. IsLast(h, n)' BY <2>2, <2>3, <2>4, <2>5, <1>1, <1>2, LastKept
  <2>7. IsLast(h, count)' BY <2>4, <2>6, <1>2
  <2>8. \A g \in slots[NewSlot] : g = None \/ g.count = count - 1 \/ TooNew(g)'
    <3>1. \A g \in slots[NewSlot] : g = None \/ g.count = count - 1 \/ TooNew(g)
      BY <2>1, <1>1, <1>2 DEF HeadersSound
    <3>2. \A g : TooNew(g) => TooNew(g)' BY <1>2 DEF TooNew
    <3>3. QED BY <3>1, <3>2
  <2>9. slots[NewSlot] # {} BY <2>1, <1>1 DEF HeadersSound
  <2>10. logged' < lsn' BY <1>1, <1>2 DEF TypeOK
  <2>11. \A i \in {0, 1} : \A g \in slots[i] : g # None =>
           Usable(g.table) /\ g.table.btt \in Offsets /\ g.lsn <= lsn'
    <3>1. ASSUME NEW i \in {0, 1}, NEW g \in slots[i], g # None
          PROVE  Usable(g.table) /\ g.table.btt \in Offsets /\ g.lsn <= lsn'
      <4>1. Usable(g.table) /\ g.table.btt \in Offsets /\ g.lsn <= lsn /\ g.lsn \in Nat BY <3>1, <1>1, SlotHeaders
      <4>2. QED BY <4>1, <1>1, <1>2 DEF TypeOK
    <3>2. QED BY <3>1
  <2>12. closing' => kind' = "dictionary" BY <1>1, <1>2 DEF HeadersSound
  <2>13. Slot(count)' = Slot(count) BY <1>2 DEF Slot
  <2>14. QED BY <1>2, <2>1, <2>3, <2>7, <2>8, <2>9, <2>10, <2>11, <2>12, <2>13 DEF HeadersSound
<1>17. QED BY <1>9, <1>10, <1>11, <1>12, <1>13, <1>14, <1>15, <1>16 DEF BlockTableInv

LEMMA BeginCheckpointKeeps ==
  ASSUME BlockTableInv, BeginCheckpoint PROVE BlockTableInv'
<1>1. PICK cached \in SUBSET {b \in Blocks : node[b] # None} : dirty \subseteq cached /\ BeginCopy(cached)
  BY DEF BeginCheckpoint
<1>2. UNCHANGED closing BY DEF BeginCheckpoint
<1>3. QED BY <1>1, <1>2, BeginKeeps

LEMMA BeginCloseKeeps ==
  ASSUME BlockTableInv, BeginClose PROVE BlockTableInv'
<1>1. PICK cached : cached = {} OBVIOUS
<1>2. /\ cached \in SUBSET {b \in Blocks : node[b] # None} /\ dirty \subseteq cached /\ BeginCopy(cached)
      /\ closing' = TRUE /\ kind = "dictionary"
  BY <1>1 DEF BeginClose
<1>3. QED BY <1>2, BeginKeeps

LEMMA SkipKeeps ==
  ASSUME BlockTableInv, SkipCheckpoint PROVE BlockTableInv'
<1>1. /\ TypeOK /\ TablesSound /\ SpaceSound /\ DirtyBits /\ NodesSound /\ JobsSound /\ SnapSound
      /\ HeadersSound
  BY DEF BlockTableInv
<1>2. /\ phase = "begun" /\ NodesWritten /\ ~ chDirty /\ skipped' = TRUE /\ phase' = "written"
      /\ UNCHANGED <<current, inprogress, checkpointed, allocated, disk, unsynced, node, stamp, dirty,
                     pending, job, hDirty, chDirty, closing, count, lsn, logged, slots, snap, kind, crashes>>
  BY DEF SkipCheckpoint, tables, nodes
<1>3. pending = {} /\ \A b \in Blocks : ~ job[b].ckpt BY <1>2 DEF NodesWritten
<1>4. TypeOK'
  <2>1. {hDirty', chDirty', skipped', closing'} \subseteq BOOLEAN BY <1>1, <1>2 DEF TypeOK
  <2>2. QED BY <2>1, <1>1, <1>2 DEF TypeOK
<1>5. TablesSound' BY <1>1, <1>2 DEF TablesSound
<1>6. SpaceSound' BY <1>1, <1>2 DEF SpaceSound, InUse
<1>7. DirtyBits' BY <1>1, <1>2 DEF DirtyBits
<1>8. NodesSound' BY <1>1, <1>2 DEF NodesSound, Idle, Written
<1>9. JobsSound' BY <1>1, <1>2, <1>3 DEF JobsSound, Idle
<1>10. SnapSound' BY <1>1, <1>2, <1>3 DEF SnapSound, Idle
<1>11. HeadersSound'
  <2>1. ~ NewDone /\ ~ NewDone' /\ count \in Nat /\ NewSlot' = NewSlot /\ Slot(count)' = Slot(count)
    BY <1>1, <1>2 DEF NewDone, TypeOK, NewSlot, Slot
  <2>2. Slot(count) \in {0, 1} BY <2>1, TwoSlots
  <2>3. PICK h \in slots[Slot(count)] : slots[Slot(count)] = {h} /\ IsLast(h, count)
    BY <2>1, <1>1 DEF HeadersSound
  <2>4. PICK n : n = count OBVIOUS
  <2>5. \A o \in OffsetsOf(checkpointed) : KeptAt(o) BY <1>2 DEF KeptAt
  <2>6. IsLast(h, n)' BY <2>2, <2>3, <2>4, <2>5, <1>1, <1>2, LastKept
  <2>7. IsLast(h, count)' BY <2>4, <2>6, <1>2
  <2>8. \A g \in slots[NewSlot] : g = None \/ g.count = count - 1
    BY <2>1, <1>1, <1>2 DEF HeadersSound, TooNew
  <2>9. slots[NewSlot] # {} BY <2>1, <1>1 DEF HeadersSound
  <2>10. QED BY <1>1, <1>2, <2>1, <2>3, <2>7, <2>8, <2>9 DEF HeadersSound
<1>12. QED BY <1>4, <1>5, <1>6, <1>7, <1>8, <1>9, <1>10, <1>11 DEF BlockTableInv


LEMMA PlaceTableFacts ==
  ASSUME NEW t \in Translations, Usable(t), NEW o \in Offsets, \A b \in Blocks : HasPlace(t, b) => t.u[b] # o
  PROVE  /\ [t EXCEPT !.btt = o] \in Translations /\ Usable([t EXCEPT !.btt = o])
         /\ [t EXCEPT !.btt = o].btt = o /\ SameBlocks([t EXCEPT !.btt = o], t)
<1>0. /\ t.u \in [Blocks -> Values] /\ t.free \in SUBSET Blocks /\ t.head \in Blocks \cup {Null}
      /\ t.smallest \in 0 .. NumBlocks /\ t.btt \in Offsets \cup {Unused}
      /\ t = Translation(t.u, t.free, t.head, t.smallest, t.btt)
  BY FieldTypes
<1> DEFINE s == [t EXCEPT !.btt = o]
<1>1. s = Translation(t.u, t.free, t.head, t.smallest, o) BY <1>0 DEF Translation
<1> HIDE DEF s
<1>2. /\ s \in Translations /\ s.u = t.u /\ s.free = t.free /\ s.head = t.head
      /\ s.smallest = t.smallest /\ s.btt = o
  BY <1>0, <1>1, MakeTranslation
<1>3. SameBlocks(s, t) BY <1>2 DEF SameBlocks, IsAllocated
<1>4. FreeListSound(s) BY <1>2 DEF Usable, FreeListSound
<1>5. SamePlaces(s, t) BY <1>3, SameBlocksSamePlaces
<1>6. Usable(s) BY <1>2, <1>3, <1>4, <1>5 DEF Usable, SameBlocks, SamePlaces
<1>7. QED BY <1>2, <1>3, <1>6 DEF s

LEMMA WriteTranslationKeeps ==
  ASSUME BlockTableInv, WriteTranslation PROVE BlockTableInv'
<1>1. /\ TypeOK /\ TablesSound /\ SpaceSound /\ DirtyBits /\ NodesSound /\ JobsSound /\ SnapSound
      /\ HeadersSound
  BY DEF BlockTableInv
<1>2. PICK o : o = Place(allocated) OBVIOUS
<1>3. /\ phase = "begun" /\ NodesWritten /\ chDirty /\ Offsets \ allocated # {}
      /\ allocated' = allocated \cup {o} /\ inprogress' = [inprogress EXCEPT !.btt = o]
      /\ disk' = [disk EXCEPT ![o] = <<None, lsn>>] /\ unsynced' = unsynced \cup {o}
      /\ phase' = "translated"
      /\ UNCHANGED <<current, checkpointed, node, stamp, dirty, pending, job, hDirty, chDirty, skipped,
                     closing, count, lsn, logged, slots, snap, kind, crashes>>
  BY <1>2 DEF WriteTranslation, nodes
<1>4. pending = {} /\ \A b \in Blocks : ~ job[b].ckpt BY <1>3 DEF NodesWritten
<1>5. o \in Offsets /\ o \notin allocated /\ o # Unused BY <1>2, <1>3, PlaceIsFree, Constants
<1>6. /\ current \in Translations /\ inprogress \in Translations /\ checkpointed \in Translations
      /\ Usable(current) /\ Usable(inprogress) /\ Usable(checkpointed)
      /\ Agree(current, inprogress) /\ Agree(inprogress, current)
      /\ Agree(current, checkpointed) /\ Agree(checkpointed, current)
      /\ Agree(inprogress, checkpointed) /\ Agree(checkpointed, inprogress)
      /\ current.btt = Unused /\ inprogress.btt = Unused /\ checkpointed.btt \in Offsets
      /\ allocated \in SUBSET Offsets /\ unsynced \in SUBSET allocated /\ ~ skipped
  BY <1>1, <1>3 DEF TypeOK, TablesSound, HeadersSound
<1>7. /\ OffsetsOf(current) \subseteq allocated /\ OffsetsOf(inprogress) \subseteq allocated
      /\ OffsetsOf(checkpointed) \subseteq allocated
  BY <1>1 DEF SpaceSound, InUse
<1>8. /\ \A b \in Blocks : HasPlace(current, b) => current.u[b] # o
      /\ \A b \in Blocks : HasPlace(inprogress, b) => inprogress.u[b] # o
      /\ \A b \in Blocks : HasPlace(checkpointed, b) => checkpointed.u[b] # o
  BY <1>5, <1>6, <1>7, PlaceIsOffset
<1>9. /\ inprogress' \in Translations /\ Usable(inprogress') /\ inprogress'.btt = o
      /\ SameBlocks(inprogress', inprogress)
  BY <1>3, <1>5, <1>6, <1>8, PlaceTableFacts
<1>10. SamePlaces(inprogress', inprogress) BY <1>9, SameBlocksSamePlaces
<1>11. /\ disk' \in [Offsets -> {None} \cup (Blocks \cup {None}) \X Nat]
       /\ disk'[o] = <<None, lsn>> /\ \A x \in Offsets : x # o => disk'[x] = disk[x]
  BY <1>1, <1>3, <1>5 DEF TypeOK
<1>12. \A x \in allocated : KeptAt(x) BY <1>3, <1>5, <1>6, <1>11 DEF KeptAt
<1>13. TypeOK' BY <1>1, <1>3, <1>5, <1>6, <1>9, <1>11 DEF TypeOK
<1>14. TablesSound'
  <2>1. /\ Agree(current, inprogress') /\ Agree(inprogress', current)
        /\ Agree(inprogress', checkpointed) /\ Agree(checkpointed, inprogress')
    BY <1>6, <1>8, <1>9, <1>10 DEF Agree, SamePlaces
  <2>2. o # checkpointed.btt
    <3>1. checkpointed.btt \in OffsetsOf(checkpointed) BY <1>6, OffsetsDef, Constants
    <3>2. QED BY <3>1, <1>5, <1>7
  <2>3. QED BY <2>1, <2>2, <1>1, <1>3, <1>5, <1>6, <1>9 DEF TablesSound
<1>15. SpaceSound'
  <2>1. \A x : x \in OffsetsOf(inprogress') <=> x = o \/ x \in OffsetsOf(inprogress)
    BY <1>5, <1>6, <1>9, <1>10, OffsetsDef DEF SamePlaces
  <2>2. InUse' = InUse \cup {o} BY <2>1, <1>3 DEF InUse
  <2>3. QED BY <2>2, <1>1, <1>3 DEF SpaceSound, SmallFile
<1>16. DirtyBits' BY <1>1, <1>3, <1>6, <1>10 DEF DirtyBits, Within, SamePlaces
<1>17. NodesSound'
  <2>1. ASSUME NEW b \in Blocks, HasPlace(current, b) PROVE Written(b)' = Written(b)
    <3>1. current.u[b] \in Offsets BY <2>1, <1>6, PlaceIsOffset
    <3>2. QED BY <2>1, <3>1, <1>3, <1>8, <1>11 DEF Written
  <2>2. \A b \in Blocks : Idle(b)' = Idle(b) BY <1>3 DEF Idle
  <2>3. QED BY <2>1, <2>2, <1>1, <1>3 DEF NodesSound
<1>18. JobsSound'
  <2>1. \A b \in Blocks : Idle(b)' = Idle(b) BY <1>3 DEF Idle
  <2>2. QED BY <2>1, <1>1, <1>3, <1>4, <1>10 DEF JobsSound, SamePlaces
<1>19. SnapSound'
  <2>1. ASSUME NEW c \in Blocks \ pending'
        PROVE  /\ HasPlace(inprogress', c) <=> snap'[c] # None
               /\ HasPlace(inprogress', c) /\ ~ job'[c].ckpt => disk'[inprogress'.u[c]] = <<c, snap'[c]>>
    <3>1. c \in Blocks \ pending BY <1>3
    <3>2. /\ HasPlace(inprogress, c) <=> snap[c] # None
          /\ HasPlace(inprogress, c) => disk[inprogress.u[c]] = <<c, snap[c]>>
      BY <3>1, <1>1, <1>3, <1>4 DEF SnapSound
    <3>3. HasPlace(inprogress, c) => disk'[inprogress.u[c]] = disk[inprogress.u[c]]
      BY <1>6, <1>8, <1>11, PlaceIsOffset
    <3>4. QED BY <3>2, <3>3, <1>3, <1>10 DEF SamePlaces
  <2>2. pending' = {} BY <1>3, <1>4
  <2>3. QED BY <2>1, <2>2 DEF SnapSound
<1>20. HeadersSound'
  <2>1. ~ NewDone /\ ~ NewDone' /\ count \in Nat /\ NewSlot' = NewSlot /\ Slot(count)' = Slot(count)
    BY <1>1, <1>3 DEF NewDone, TypeOK, NewSlot, Slot
  <2>2. Slot(count) \in {0, 1} BY <2>1, TwoSlots
  <2>3. PICK h \in slots[Slot(count)] : slots[Slot(count)] = {h} /\ IsLast(h, count)
    BY <2>1, <1>1 DEF HeadersSound
  <2>4. PICK n : n = count OBVIOUS
  <2>5. \A x \in OffsetsOf(checkpointed) : KeptAt(x) BY <1>7, <1>12
  <2>6. IsLast(h, n)' BY <2>2, <2>3, <2>4, <2>5, <1>1, <1>3, LastKept
  <2>7. IsLast(h, count)' BY <2>4, <2>6, <1>3
  <2>8. \A g \in slots[NewSlot] : g = None \/ g.count = count - 1 \/ TooNew(g)'
    <3>1. \A g \in slots[NewSlot] : g = None \/ g.count = count - 1 \/ TooNew(g)
      BY <2>1, <1>1, <1>3 DEF HeadersSound
    <3>2. \A g : TooNew(g) => TooNew(g)' BY <1>3 DEF TooNew
    <3>3. QED BY <3>1, <3>2
  <2>9. slots[NewSlot] # {} BY <2>1, <1>1 DEF HeadersSound
  <2>10. disk'[inprogress'.btt] = <<None, lsn'>> BY <1>3, <1>9, <1>11
  <2>11. QED BY <1>1, <1>3, <1>6, <2>1, <2>3, <2>7, <2>8, <2>9, <2>10 DEF HeadersSound
<1>21. QED BY <1>13, <1>14, <1>15, <1>16, <1>17, <1>18, <1>19, <1>20 DEF BlockTableInv

\* A sync keeps what is in the file, and what is synced.
LEMMA FsyncKeeps ==
  ASSUME Fsync, UNCHANGED disk
  PROVE  unsynced' \subseteq unsynced /\ \A o : KeptAt(o)
BY DEF Fsync, KeptAt

\* Before the write of a header, everything it stands for is in the file, and synced.
LEMMA NewIsIntact ==
  ASSUME TypeOK, TablesSound, JobsSound, SnapSound, HeadersSound, phase = "translated", Fsync,
         UNCHANGED <<disk, inprogress, snap, lsn, count>>
  PROVE  Intact(NewHeader)' /\ NewHeader' = NewHeader
<1>1. NewHeader' = NewHeader BY DEF NewHeader
<1>2. /\ NewHeader.table = inprogress /\ NewHeader.lsn = lsn /\ NewHeader.snap = snap BY DEF NewHeader
<1>3. pending = {} /\ \A b \in Blocks : ~ job[b].ckpt
  <2>1. pending = {} BY DEF SnapSound
  <2>2. ASSUME NEW b \in Blocks PROVE ~ job[b].ckpt
    <3>1. job[b].o = None => job[b].ckpt = FALSE BY DEF JobsSound, Idle, NoJob
    <3>2. job[b].o # None => ~ job[b].ckpt BY DEF JobsSound
    <3>3. QED BY <3>1, <3>2
  <2>3. QED BY <2>1, <2>2
<1>4. /\ inprogress \in Translations /\ Usable(inprogress) /\ inprogress.btt \in Offsets
      /\ Agree(current, inprogress) /\ ~ NewDone
  BY FieldTypes DEF TypeOK, TablesSound, NewDone
<1>5. ASSUME NEW b \in Blocks
      PROVE  job[b].o # inprogress.btt /\ \A c \in Blocks : HasPlace(inprogress, c) => job[b].o # inprogress.u[c]
  <2>1. CASE job[b].o = None BY <2>1, <1>4, Constants, PlaceIsOffset
  <2>2. CASE job[b].o # None
    <3>1. /\ HasPlace(current, b) /\ current.u[b] = job[b].o
          /\ HasPlace(inprogress, b) => inprogress.u[b] # job[b].o
      BY <2>2, <1>3 DEF JobsSound
    <3>2. QED BY <3>1, <1>4 DEF Agree
  <2>3. QED BY <2>1, <2>2
<1>6. /\ inprogress.btt \notin unsynced'
      /\ \A c \in Blocks : HasPlace(inprogress, c) => inprogress.u[c] \notin unsynced'
  BY <1>5 DEF Fsync
<1>7. disk[inprogress.btt] = <<None, lsn>> BY <1>4 DEF HeadersSound
<1>8. ASSUME NEW c \in Blocks
      PROVE  /\ HasPlace(inprogress, c) <=> snap[c] # None
             /\ HasPlace(inprogress, c) => disk[inprogress.u[c]] = <<c, snap[c]>>
  BY <1>3 DEF SnapSound
<1>9. PICK h : h = NewHeader OBVIOUS
<1>10. h.table = inprogress /\ h.lsn = lsn /\ h.snap = snap BY <1>2, <1>9
<1>11. Intact(h)' BY <1>6, <1>7, <1>8, <1>10 DEF Intact
<1>12. QED BY <1>1, <1>9, <1>11

LEMMA WriteHeaderKeeps ==
  ASSUME BlockTableInv, WriteHeader PROVE BlockTableInv'
<1>1. /\ TypeOK /\ TablesSound /\ SpaceSound /\ DirtyBits /\ NodesSound /\ JobsSound /\ SnapSound
      /\ HeadersSound
  BY DEF BlockTableInv
<1>2. /\ phase = "translated" /\ Fsync /\ phase' = "header"
      /\ slots' = [slots EXCEPT ![NewSlot] = slots[NewSlot] \cup {None, NewHeader}]
      /\ UNCHANGED <<current, inprogress, checkpointed, allocated, disk, node, stamp, dirty, pending, job,
                     hDirty, chDirty, skipped, closing, count, lsn, logged, snap, kind, crashes>>
  BY DEF WriteHeader, tables, nodes, NewSlot
<1>3. unsynced' \subseteq unsynced /\ \A o : KeptAt(o) BY <1>2, FsyncKeeps
<1>4. count \in Nat /\ lsn \in Nat /\ inprogress \in Translations /\ slots \in [{0, 1} -> SUBSET (Headers \cup {None})]
  BY <1>1 DEF TypeOK
<1>5. Slot(count) \in {0, 1} /\ NewSlot \in {0, 1} /\ Slot(count) # NewSlot BY <1>4, TwoSlots
<1>6. NewHeader \in Headers BY <1>1, NewHeaderType
<1>7. /\ slots' \in [{0, 1} -> SUBSET (Headers \cup {None})]
      /\ slots'[NewSlot] = slots[NewSlot] \cup {None, NewHeader} /\ slots'[Slot(count)] = slots[Slot(count)]
      /\ \A i \in {0, 1} : slots'[i] \subseteq slots[i] \cup {None, NewHeader}
  <2>1. PICK H : H = Headers \cup {None} OBVIOUS
  <2>2. PICK A : A = slots[NewSlot] \cup {None, NewHeader} OBVIOUS
  <2>3. slots \in [{0, 1} -> SUBSET H] /\ A \subseteq H /\ slots' = [slots EXCEPT ![NewSlot] = A]
    BY <2>1, <2>2, <1>2, <1>4, <1>5, <1>6
  <2>4. /\ slots' \in [{0, 1} -> SUBSET H] /\ slots'[NewSlot] = A /\ slots'[Slot(count)] = slots[Slot(count)]
        /\ \A i \in {0, 1} : i # NewSlot => slots'[i] = slots[i]
    BY <2>3, <1>5
  <2>5. QED BY <2>1, <2>2, <2>4
<1>8. TypeOK' BY <1>1, <1>2, <1>3, <1>7 DEF TypeOK
<1>9. TablesSound' BY <1>1, <1>2 DEF TablesSound
<1>10. SpaceSound' BY <1>1, <1>2 DEF SpaceSound, InUse
<1>11. DirtyBits' BY <1>1, <1>2 DEF DirtyBits
<1>12. NodesSound' BY <1>1, <1>2 DEF NodesSound, Idle, Written
<1>13. JobsSound' BY <1>1, <1>2 DEF JobsSound, Idle
<1>14. SnapSound' BY <1>1, <1>2 DEF SnapSound, Idle
<1>15. HeadersSound'
  <2>1. ~ NewDone /\ ~ NewDone' /\ NewSlot' = NewSlot /\ Slot(count)' = Slot(count)
    BY <1>1, <1>2 DEF NewDone, NewSlot, Slot
  <2>2. Intact(NewHeader)' /\ NewHeader' = NewHeader BY <1>1, <1>2, NewIsIntact
  <2>3. PICK h \in slots[Slot(count)] : slots[Slot(count)] = {h} /\ IsLast(h, count)
    BY <2>1, <1>1 DEF HeadersSound
  <2>4. PICK n : n = count OBVIOUS
  <2>5. IsLast(h, n)' BY <2>3, <2>4, <1>1, <1>2, <1>3, <1>5, LastKept
  <2>6. IsLast(h, count)' BY <2>4, <2>5, <1>2
  <2>7. \A g \in slots'[NewSlot] : g = None \/ g.count = count - 1 \/ TooNew(g)' \/ g = NewHeader'
    <3>1. \A g \in slots[NewSlot] : g = None \/ g.count = count - 1 \/ TooNew(g)
      BY <2>1, <1>1, <1>2 DEF HeadersSound
    <3>2. \A g : TooNew(g) => TooNew(g)' BY <1>2 DEF TooNew
    <3>3. QED BY <3>1, <3>2, <2>2, <1>7
  <2>8. disk[inprogress.btt] = <<None, lsn>> BY <2>1, <1>1, <1>2 DEF HeadersSound
  <2>9. \A i \in {0, 1} : \A g \in slots'[i] : g # None =>
          Usable(g.table) /\ g.table.btt \in Offsets /\ g.lsn <= lsn
    <3>1. NewHeader.table = inprogress /\ NewHeader.lsn = lsn BY DEF NewHeader
    <3>2. Usable(inprogress) /\ inprogress.btt \in Offsets BY <1>1, <1>2, <1>4, FieldTypes DEF TablesSound
    <3>3. lsn <= lsn BY <1>4
    <3>4. QED BY <3>1, <3>2, <3>3, <1>1, <1>7 DEF HeadersSound
  <2>10. NewHeader' \in slots'[NewSlot] BY <2>2, <1>7
  <2>11. QED BY <1>1, <1>2, <1>7, <2>1, <2>2, <2>3, <2>6, <2>7, <2>8, <2>9, <2>10 DEF HeadersSound
<1>16. QED BY <1>8, <1>9, <1>10, <1>11, <1>12, <1>13, <1>14, <1>15 DEF BlockTableInv


LEMMA SyncHeaderKeeps ==
  ASSUME BlockTableInv, SyncHeader PROVE BlockTableInv'
<1>1. /\ TypeOK /\ TablesSound /\ SpaceSound /\ DirtyBits /\ NodesSound /\ JobsSound /\ SnapSound
      /\ HeadersSound
  BY DEF BlockTableInv
<1>2. /\ phase = "header" /\ Fsync /\ phase' = "written" /\ chDirty' = FALSE /\ count' = count + 1
      /\ slots' = [slots EXCEPT ![NewSlot] = {NewHeader}]
      /\ UNCHANGED <<current, inprogress, checkpointed, allocated, disk, node, stamp, dirty, pending, job,
                     hDirty, skipped, closing, lsn, logged, snap, kind, crashes>>
  BY DEF SyncHeader, tables, nodes, NewSlot
<1>3. unsynced' \subseteq unsynced /\ \A o : KeptAt(o) BY <1>2, FsyncKeeps
<1>4. /\ count \in Nat /\ inprogress \in Translations /\ slots \in [{0, 1} -> SUBSET (Headers \cup {None})]
      /\ ~ skipped
  BY <1>1, <1>2 DEF TypeOK, HeadersSound
<1>5. Slot(count) \in {0, 1} /\ NewSlot \in {0, 1} /\ Slot(count) # NewSlot /\ Slot(count + 2) = Slot(count)
  BY <1>4, TwoSlots
<1>6. NewHeader \in Headers BY <1>1, NewHeaderType
<1>7. /\ slots' \in [{0, 1} -> SUBSET (Headers \cup {None})]
      /\ slots'[NewSlot] = {NewHeader} /\ slots'[Slot(count)] = slots[Slot(count)]
      /\ \A i \in {0, 1} : slots'[i] \subseteq slots[i] \cup {NewHeader}
  <2>1. PICK H : H = Headers \cup {None} OBVIOUS
  <2>2. PICK A : A = {NewHeader} OBVIOUS
  <2>3. slots \in [{0, 1} -> SUBSET H] /\ A \subseteq H /\ slots' = [slots EXCEPT ![NewSlot] = A]
    BY <2>1, <2>2, <1>2, <1>4, <1>5, <1>6
  <2>4. /\ slots' \in [{0, 1} -> SUBSET H] /\ slots'[NewSlot] = A /\ slots'[Slot(count)] = slots[Slot(count)]
        /\ \A i \in {0, 1} : i # NewSlot => slots'[i] = slots[i]
    BY <2>3, <1>5
  <2>5. QED BY <2>1, <2>2, <2>4
<1>8. TypeOK'
  <2>1. {hDirty', chDirty', skipped', closing'} \subseteq BOOLEAN BY <1>1, <1>2 DEF TypeOK
  <2>2. count' \in Nat BY <1>2, <1>4
  <2>3. QED BY <2>1, <2>2, <1>1, <1>2, <1>3, <1>7 DEF TypeOK
<1>9. TablesSound' BY <1>1, <1>2, <1>4 DEF TablesSound
<1>10. SpaceSound' BY <1>1, <1>2 DEF SpaceSound, InUse
<1>11. DirtyBits' BY <1>1, <1>2, <1>4 DEF DirtyBits
<1>12. NodesSound' BY <1>1, <1>2 DEF NodesSound, Idle, Written
<1>13. JobsSound' BY <1>1, <1>2 DEF JobsSound, Idle
<1>14. SnapSound' BY <1>1, <1>2 DEF SnapSound, Idle
<1>15. HeadersSound'
  <2>1. ~ NewDone /\ NewDone' /\ Slot(count)' = NewSlot
    BY <1>1, <1>2, <1>4 DEF NewDone, NewSlot, Slot
  <2>2. NewSlot' = Slot(count)
    <3>1. (count + 1) + 1 = count + 2 BY <1>4
    <3>2. NewSlot' = Slot(count + 2) BY <3>1, <1>2 DEF NewSlot, Slot
    <3>3. QED BY <3>2, <1>5
  <2>3. Intact(NewHeader) BY <2>1, <1>1, <1>2 DEF HeadersSound
  <2>4. PICK m : m = NewHeader OBVIOUS
  <2>5. PICK k : k = NewHeader' OBVIOUS
  <2>6. /\ m = [count |-> count + 1, lsn |-> lsn, table |-> inprogress, snap |-> snap]
        /\ k = [count |-> count' + 1, lsn |-> lsn, table |-> inprogress, snap |-> snap]
    BY <2>4, <2>5, <1>2 DEF NewHeader
  <2>7. k.table = m.table /\ k.lsn = m.lsn /\ k.snap = m.snap /\ [k EXCEPT !.count = count'] = m
    BY <2>6, <1>2
  <2>8. Intact(m)'
    <3>1. m.table \in Translations /\ Usable(m.table) /\ m.table.btt \in Offsets
      BY <2>6, <1>1, <1>2, <1>4, FieldTypes DEF TablesSound
    <3>2. QED BY <3>1, <2>3, <2>4, <1>3, IntactKept
  <2>9. Intact(k)' BY <2>7, <2>8 DEF Intact
  <2>10. PICK h \in slots[Slot(count)] : slots[Slot(count)] = {h} /\ IsLast(h, count)
    BY <2>1, <1>1 DEF HeadersSound
  <2>11. PICK n : n = count OBVIOUS
  <2>12. IsLast(h, n)' BY <2>10, <2>11, <1>1, <1>2, <1>3, <1>5, LastKept
  <2>13. IsLast(h, count - 1)'
    <3>1. n = count' - 1 BY <2>11, <1>2, <1>4
    <3>2. QED BY <3>1, <2>12
  <2>14. \A i \in {0, 1} : \A g \in slots'[i] : g # None =>
          Usable(g.table) /\ g.table.btt \in Offsets /\ g.lsn <= lsn
    <3>1. NewHeader \in slots[NewSlot] /\ NewHeader # None BY <2>1, <1>1, <1>2, <1>6, HeaderTypes DEF HeadersSound
    <3>2. QED BY <3>1, <1>1, <1>5, <1>7 DEF HeadersSound
  <2>15. slots'[NewSlot] = {[NewHeader' EXCEPT !.count = count']} BY <2>4, <2>5, <2>7, <1>7
  <2>16. Intact(NewHeader)' BY <2>5, <2>9
  <2>17. QED BY <1>1, <1>2, <1>4, <1>7, <2>1, <2>2, <2>10, <2>13, <2>14, <2>15, <2>16 DEF HeadersSound
<1>16. QED BY <1>8, <1>9, <1>10, <1>11, <1>12, <1>13, <1>14, <1>15 DEF BlockTableInv

LEMMA LogEndKeeps ==
  ASSUME BlockTableInv, LogEndCheckpoint PROVE BlockTableInv'
<1>1. /\ TypeOK /\ TablesSound /\ SpaceSound /\ DirtyBits /\ NodesSound /\ JobsSound /\ SnapSound
      /\ HeadersSound
  BY DEF BlockTableInv
<1>2. /\ phase = "written" /\ logged' = lsn /\ phase' = "logged"
      /\ UNCHANGED <<current, inprogress, checkpointed, allocated, disk, unsynced, node, stamp, dirty,
                     pending, job, hDirty, chDirty, skipped, closing, count, lsn, slots, snap, kind, crashes>>
  BY DEF LogEndCheckpoint, tables, nodes
<1>3. TypeOK' BY <1>1, <1>2 DEF TypeOK
<1>4. TablesSound' BY <1>1, <1>2 DEF TablesSound
<1>5. SpaceSound' BY <1>1, <1>2 DEF SpaceSound, InUse
<1>6. DirtyBits' BY <1>1, <1>2 DEF DirtyBits
<1>7. NodesSound' BY <1>1, <1>2 DEF NodesSound, Idle, Written
<1>8. JobsSound' BY <1>1, <1>2 DEF JobsSound, Idle
<1>9. SnapSound' BY <1>1, <1>2 DEF SnapSound, Idle
<1>10. HeadersSound'
  <2>1. NewDone' = NewDone /\ NewSlot' = NewSlot /\ Slot(count)' = Slot(count) /\ NewHeader' = NewHeader
    BY <1>2 DEF NewDone, NewSlot, Slot, NewHeader
  <2>2. count \in Nat BY <1>1 DEF TypeOK
  <2>3. Slot(count) \in {0, 1} /\ NewSlot \in {0, 1} BY <2>2, TwoSlots
  <2>4. ASSUME NEW h, NEW n, NEW i \in {0, 1}, h \in slots[i], IsLast(h, n) PROVE IsLast(h, n)'
    <3>1. h # None /\ h.lsn <= lsn BY <2>4, <1>1 DEF IsLast, HeadersSound
    <3>2. Acceptable(h)' BY <3>1, <1>2 DEF Acceptable
    <3>3. Intact(h)' = Intact(h) BY <1>2 DEF Intact
    <3>4. QED BY <2>4, <3>2, <3>3, <1>2 DEF IsLast
  <2>5. CASE ~ NewDone
    <3>1. PICK h \in slots[Slot(count)] : slots[Slot(count)] = {h} /\ IsLast(h, count)
      BY <2>5, <1>1 DEF HeadersSound
    <3>2. PICK n : n = count OBVIOUS
    <3>3. IsLast(h, n)' BY <3>1, <3>2, <2>3, <2>4
    <3>4. IsLast(h, count)' BY <3>2, <3>3, <1>2
    <3>5. \A g \in slots[NewSlot] : g = None \/ g.count = count - 1
      BY <2>5, <1>1, <1>2 DEF HeadersSound, TooNew
    <3>6. slots[NewSlot] # {} BY <2>5, <1>1 DEF HeadersSound
    <3>7. QED BY <2>1, <2>5, <3>1, <3>4, <3>5, <3>6, <1>1, <1>2 DEF HeadersSound
  <2>6. CASE NewDone
    <3>1. PICK h \in slots[NewSlot] : slots[NewSlot] = {h} /\ IsLast(h, count - 1)
      BY <2>6, <1>1 DEF HeadersSound
    <3>2. PICK n : n = count - 1 OBVIOUS
    <3>3. IsLast(h, n)' BY <3>1, <3>2, <2>3, <2>4
    <3>4. IsLast(h, count - 1)' BY <3>2, <3>3, <1>2
    <3>5. slots[Slot(count)] = {[NewHeader EXCEPT !.count = count]} /\ Intact(NewHeader)
      BY <2>6, <1>1 DEF HeadersSound
    <3>6. Intact(NewHeader)'
      <4>1. PICK k : k = NewHeader OBVIOUS
      <4>2. Intact(k)' = Intact(k) BY <1>2 DEF Intact
      <4>3. QED BY <4>1, <4>2, <3>5, <2>1
    <3>7. QED BY <2>1, <2>6, <3>1, <3>4, <3>5, <3>6, <1>1, <1>2 DEF HeadersSound
  <2>7. QED BY <2>5, <2>6
<1>11. QED BY <1>3, <1>4, <1>5, <1>6, <1>7, <1>8, <1>9, <1>10 DEF BlockTableInv

\* The end of a checkpoint gives back nothing that is still in use.
LEMMA ObsoleteIsUnused ==
  ASSUME TypeOK, TablesSound, DirtyBits, phase \in {"written", "logged"}, ~ skipped
  PROVE  OffsetsOf(current) \cap Obsolete = {} /\ OffsetsOf(inprogress) \cap Obsolete = {}
<1>1. /\ current \in Translations /\ inprogress \in Translations /\ checkpointed \in Translations
      /\ Usable(current) /\ Usable(inprogress) /\ Usable(checkpointed)
      /\ Agree(current, checkpointed) /\ Agree(inprogress, checkpointed) /\ Agree(checkpointed, inprogress)
      /\ current.btt = Unused /\ inprogress.btt # checkpointed.btt
  BY DEF TypeOK, TablesSound
<1>2. ASSUME NEW x \in Obsolete
      PROVE  \/ x = checkpointed.btt
             \/ \E b \in Blocks : /\ HasPlace(checkpointed, b) /\ checkpointed.u[b] = x
                                  /\ ~ PreventsFreeing(inprogress, b, x)
  <2>1. 0 .. checkpointed.smallest - 1 \subseteq Blocks BY <1>1, FieldTypes, Constants DEF Blocks
  <2>2. QED BY <2>1 DEF Obsolete, ObsoleteBlocks
<1>3. ASSUME NEW x \in OffsetsOf(inprogress), x \in Obsolete PROVE FALSE
  <2>1. CASE x = checkpointed.btt
    <3>1. PICK c \in Blocks : HasPlace(inprogress, c) /\ inprogress.u[c] = x BY <2>1, <1>1, OffsetIs
    <3>2. QED BY <2>1, <3>1, <1>1 DEF Agree
  <2>2. CASE x # checkpointed.btt
    <3>1. PICK b \in Blocks : /\ HasPlace(checkpointed, b) /\ checkpointed.u[b] = x
                              /\ ~ PreventsFreeing(inprogress, b, x)
      BY <2>2, <1>2, <1>3
    <3>2. x # inprogress.btt BY <3>1, <1>1 DEF Agree
    <3>3. PICK c \in Blocks : HasPlace(inprogress, c) /\ inprogress.u[c] = x BY <3>2, <1>1, OffsetIs
    <3>4. c = b BY <3>1, <3>3, <1>1 DEF Agree
    <3>5. QED BY <3>1, <3>3, <3>4 DEF PreventsFreeing, HasPlace, IsAllocated
  <2>3. QED BY <2>1, <2>2
<1>4. ASSUME NEW x \in OffsetsOf(current), x \in Obsolete PROVE FALSE
  <2>1. PICK c \in Blocks : HasPlace(current, c) /\ current.u[c] = x BY <1>1, OffsetsDef
  <2>2. x # checkpointed.btt BY <2>1, <1>1 DEF Agree
  <2>3. PICK b \in Blocks : /\ HasPlace(checkpointed, b) /\ checkpointed.u[b] = x
                            /\ ~ PreventsFreeing(inprogress, b, x)
    BY <2>2, <1>2, <1>4
  <2>4. c = b BY <2>1, <2>3, <1>1 DEF Agree
  <2>5. HasPlace(inprogress, b) /\ inprogress.u[b] = x BY <2>1, <2>3, <2>4 DEF DirtyBits
  <2>6. QED BY <2>3, <2>5 DEF PreventsFreeing, HasPlace, IsAllocated
<1>5. QED BY <1>3, <1>4


LEMMA AgreeNothing ==
  \A t : Agree(t, NoTranslation) /\ Agree(NoTranslation, t)
BY NoTranslationFacts DEF Agree, HasPlace

\* What both ends of a checkpoint do, with or without a new header.
LEMMA EndKeepsNodes ==
  ASSUME BlockTableInv, EndCheckpoint,
         OffsetsOf(current) \subseteq allocated', allocated' \subseteq allocated,
         disk' = Kept(disk, allocated') \/ UNCHANGED disk, checkpointed' \in {inprogress, checkpointed}
  PROVE  NodesSound' /\ JobsSound' /\ SnapSound'
<1>1. TypeOK /\ TablesSound /\ NodesSound /\ JobsSound /\ SnapSound /\ HeadersSound BY DEF BlockTableInv
<1>2. /\ phase \in {"written", "logged"} /\ inprogress' = NoTranslation
      /\ phase' \in {"none", "closed"}
      /\ UNCHANGED <<current, node, dirty, pending, job>>
  BY DEF EndCheckpoint, MayEnd, nodes
<1>3. \A b \in Blocks : Idle(b)' = Idle(b) BY <1>2 DEF Idle
<1>4. ASSUME NEW b \in Blocks, HasPlace(current, b) PROVE Written(b)' = Written(b)
  <2>1. current.u[b] \in allocated' /\ current.u[b] \in Offsets BY <1>1, <1>4, PlaceIsOffset DEF TypeOK, TablesSound
  <2>2. disk'[current.u[b]] = disk[current.u[b]] BY <2>1 DEF Kept
  <2>3. QED BY <2>2, <1>2 DEF Written
<1>5. NodesSound' BY <1>1, <1>2, <1>3, <1>4 DEF NodesSound
<1>6. \A b \in Blocks : ~ HasPlace(inprogress', b) BY <1>2, NoTranslationFacts
<1>7. JobsSound'
  <2>1. \A b \in Blocks : job[b].o # None => ~ job[b].ckpt BY <1>1, <1>2 DEF JobsSound
  <2>2. \A b \in Blocks : job[b].o # None /\ HasPlace(checkpointed', b) => checkpointed'.u[b] # job[b].o
    BY <2>1, <1>1 DEF JobsSound
  <2>3. QED BY <2>1, <2>2, <1>1, <1>2, <1>3, <1>6 DEF JobsSound
<1>8. SnapSound' BY <1>1, <1>2 DEF SnapSound
<1>9. QED BY <1>5, <1>7, <1>8

LEMMA EndKeeps ==
  ASSUME BlockTableInv, EndCheckpoint PROVE BlockTableInv'
<1>1. /\ TypeOK /\ TablesSound /\ SpaceSound /\ DirtyBits /\ NodesSound /\ JobsSound /\ SnapSound
      /\ HeadersSound
  BY DEF BlockTableInv
<1>2. /\ MayEnd /\ inprogress' = NoTranslation /\ chDirty' = FALSE /\ snap' = [b \in Blocks |-> None]
      /\ phase' = IF closing THEN "closed" ELSE "none"
      /\ UNCHANGED <<current, node, stamp, dirty, pending, job, hDirty, skipped, closing, count, lsn,
                     logged, slots, kind, crashes>>
  BY DEF EndCheckpoint, nodes
<1>3. /\ skipped => UNCHANGED <<allocated, checkpointed, disk, unsynced>>
      /\ ~ skipped => /\ allocated' = allocated \ Obsolete /\ checkpointed' = inprogress
                      /\ disk' = Kept(disk, allocated') /\ unsynced' = unsynced \cap allocated'
  BY DEF EndCheckpoint
<1>4. /\ phase \in {"written", "logged"} /\ (kind = "rollback" => logged = lsn)
      /\ phase' \in {"none", "closed"} /\ (phase' = "closed" <=> closing)
  BY <1>1, <1>2 DEF MayEnd, HeadersSound
<1>5. /\ current \in Translations /\ inprogress \in Translations /\ checkpointed \in Translations
      /\ Usable(current) /\ Usable(inprogress) /\ Usable(checkpointed)
      /\ Agree(current, inprogress) /\ Agree(inprogress, current)
      /\ Agree(current, checkpointed) /\ Agree(checkpointed, current)
      /\ current.btt = Unused /\ checkpointed.btt \in Offsets /\ (inprogress.btt # Unused <=> ~ skipped)
      /\ allocated \in SUBSET Offsets /\ unsynced \in SUBSET allocated
  BY <1>1, <1>4 DEF TypeOK, TablesSound
<1>6. /\ OffsetsOf(current) \subseteq allocated /\ OffsetsOf(inprogress) \subseteq allocated
      /\ OffsetsOf(checkpointed) \subseteq allocated
  BY <1>1 DEF SpaceSound, InUse
<1>7. /\ NoTranslation \in Translations /\ Usable(NoTranslation) /\ NoTranslation.btt = Unused
      /\ OffsetsOf(NoTranslation) = {} /\ \A b \in Blocks : ~ HasPlace(NoTranslation, b)
  BY NoTranslationFacts
<1>8. snap' \in Snapshots BY <1>2 DEF Snapshots
<1>9. {hDirty', chDirty', skipped', closing'} \subseteq BOOLEAN BY <1>1, <1>2 DEF TypeOK
<1>10. ~ NewDone' /\ NewSlot' = NewSlot /\ Slot(count)' = Slot(count) /\ count \in Nat
  BY <1>1, <1>2, <1>4 DEF NewDone, NewSlot, Slot, TypeOK
<1>11. Slot(count) \in {0, 1} /\ NewSlot \in {0, 1} BY <1>10, TwoSlots
<1>12. CASE skipped
  <2>1. Within(inprogress, checkpointed) BY <1>1, <1>12 DEF DirtyBits
  <2>2. UNCHANGED <<allocated, checkpointed, disk, unsynced>> BY <1>3, <1>12
  <2>3. TypeOK' BY <2>2, <1>1, <1>2, <1>4, <1>7, <1>8, <1>9 DEF TypeOK
  <2>4. TablesSound'
    <3>1. Unused # checkpointed.btt BY <1>5, Constants
    <3>2. QED BY <3>1, <2>2, <1>2, <1>4, <1>5, <1>7, AgreeNothing DEF TablesSound
  <2>5. SpaceSound'
    <3>1. OffsetsOf(inprogress) \subseteq OffsetsOf(checkpointed) BY <2>1, <1>5, <1>12, OffsetsWithin
    <3>2. InUse' = InUse BY <3>1, <2>2, <1>2, <1>7 DEF InUse
    <3>3. QED BY <3>2, <2>2, <1>1 DEF SpaceSound, SmallFile
  <2>6. DirtyBits'
    <3>1. ~ hDirty => Within(current, checkpointed)
      <4>1. ~ hDirty => Within(current, inprogress) BY <1>1, <1>4 DEF DirtyBits
      <4>2. QED BY <4>1, <2>1, WithinTransitive
    <3>2. Within(inprogress', checkpointed') BY <1>2, <1>7 DEF Within
    <3>3. QED BY <3>1, <3>2, <2>2, <1>2, <1>4 DEF DirtyBits
  <2>7. NodesSound' /\ JobsSound' /\ SnapSound' BY <2>2, <1>6, EndKeepsNodes
  <2>8. HeadersSound'
    <3>1. ~ NewDone BY <1>12 DEF NewDone
    <3>2. PICK h \in slots[Slot(count)] : slots[Slot(count)] = {h} /\ IsLast(h, count)
      BY <3>1, <1>1 DEF HeadersSound
    <3>3. PICK n : n = count OBVIOUS
    <3>4. \A o \in OffsetsOf(checkpointed) : KeptAt(o) BY <2>2 DEF KeptAt
    <3>5. IsLast(h, n)' BY <3>2, <3>3, <3>4, <2>2, <1>1, <1>2, <1>11, LastKept
    <3>6. IsLast(h, count)' BY <3>3, <3>5, <1>2
    <3>7. \A g \in slots[NewSlot] : g = None \/ g.count = count - 1
      BY <3>1, <1>1, <1>4 DEF HeadersSound, TooNew
    <3>8. slots[NewSlot] # {} BY <3>1, <1>1 DEF HeadersSound
    <3>9. QED BY <3>2, <3>6, <3>7, <3>8, <1>1, <1>2, <1>4, <1>10 DEF HeadersSound
  <2>9. QED BY <2>3, <2>4, <2>5, <2>6, <2>7, <2>8 DEF BlockTableInv
<1>13. CASE ~ skipped
  <2>1. /\ allocated' = allocated \ Obsolete /\ checkpointed' = inprogress
        /\ disk' = Kept(disk, allocated') /\ unsynced' = unsynced \cap allocated'
    BY <1>3, <1>13
  <2>2. OffsetsOf(current) \cap Obsolete = {} /\ OffsetsOf(inprogress) \cap Obsolete = {}
    BY <1>1, <1>4, <1>13, ObsoleteIsUnused
  <2>3. OffsetsOf(current) \subseteq allocated' /\ OffsetsOf(inprogress) \subseteq allocated'
    BY <2>1, <2>2, <1>6
  <2>4. allocated' \in SUBSET Offsets /\ allocated' \subseteq allocated /\ unsynced' \in SUBSET allocated'
    BY <2>1, <1>5
  <2>5. /\ disk' \in [Offsets -> {None} \cup (Blocks \cup {None}) \X Nat]
        /\ \A x \in Offsets : x \in allocated' => disk'[x] = disk[x]
    BY <1>1, <2>1 DEF TypeOK, Kept
  <2>6. TypeOK' BY <2>1, <2>4, <2>5, <1>1, <1>2, <1>4, <1>5, <1>7, <1>8, <1>9 DEF TypeOK
  <2>7. inprogress.btt \in Offsets BY <1>5, <1>13, FieldTypes
  <2>8. TablesSound'
    <3>1. Unused # inprogress.btt BY <2>7, Constants
    <3>2. QED BY <3>1, <2>1, <2>7, <1>2, <1>4, <1>5, <1>7, AgreeNothing DEF TablesSound
  <2>9. SpaceSound'
    <3>1. InUse' = OffsetsOf(current) \cup OffsetsOf(inprogress) BY <2>1, <1>2, <1>7 DEF InUse
    <3>2. ASSUME SmallFile, NEW x \in allocated' PROVE x \in InUse'
      <4>1. x \in InUse /\ x \in Offsets /\ x \notin Obsolete BY <3>2, <2>1, <2>4, <1>1 DEF SpaceSound
      <4>2. CASE x \in OffsetsOf(checkpointed)
        <5>1. x # checkpointed.btt BY <4>1 DEF Obsolete
        <5>2. PICK b \in Blocks : HasPlace(checkpointed, b) /\ checkpointed.u[b] = x
          BY <4>2, <5>1, OffsetsDef
        <5>3. b \in 0 .. checkpointed.smallest - 1
          BY <5>2, <1>5, FieldTypes, Constants DEF HasPlace, IsAllocated, Blocks
        <5>4. PreventsFreeing(inprogress, b, x) BY <5>2, <5>3, <4>1 DEF Obsolete, ObsoleteBlocks
        <5>5. QED BY <5>4, <4>1, <3>1, <3>2, <1>5, PreventsIsPlace
      <4>3. QED BY <4>1, <4>2, <3>1 DEF InUse
    <3>3. QED BY <3>1, <3>2, <2>3 DEF SpaceSound, SmallFile
  <2>10. DirtyBits'
    <3>1. ~ hDirty => Within(current, inprogress) BY <1>1, <1>4 DEF DirtyBits
    <3>2. Within(inprogress', checkpointed') BY <1>2, <1>7 DEF Within
    <3>3. QED BY <3>1, <3>2, <2>1, <1>2, <1>4 DEF DirtyBits
  <2>11. NodesSound' /\ JobsSound' /\ SnapSound' BY <2>1, <2>3, <2>4, EndKeepsNodes
  <2>12. HeadersSound'
    <3>1. NewDone BY <1>4, <1>13 DEF NewDone
    <3>2. PICK k : k = NewHeader OBVIOUS
    <3>3. PICK h : h = [k EXCEPT !.count = count] OBVIOUS
    <3>4. k = [count |-> count + 1, lsn |-> lsn, table |-> inprogress, snap |-> snap]
      BY <3>2 DEF NewHeader
    <3>5. /\ h = [count |-> count, lsn |-> lsn, table |-> inprogress, snap |-> snap]
          /\ h.count = count /\ h.lsn = lsn /\ h.table = inprogress /\ h.snap = snap
          /\ k.lsn = lsn /\ k.table = inprogress /\ k.snap = snap
      BY <3>3, <3>4
    <3>6. slots[Slot(count)] = {h} /\ Intact(k) BY <3>1, <3>2, <3>3, <1>1 DEF HeadersSound
    <3>7. Intact(h) BY <3>5, <3>6 DEF Intact
    <3>8. \A o \in OffsetsOf(inprogress) : KeptAt(o) BY <2>1, <2>3, <2>4, <2>5 DEF KeptAt
    <3>9. Intact(h)' BY <3>5, <3>7, <3>8, <2>7, <1>5, IntactKept
    <3>10. h # None
      <4>1. h \in Headers BY <3>5, <1>1 DEF TypeOK, Headers
      <4>2. QED BY <4>1, HeaderTypes
    <3>11. lsn \in Nat BY <1>1 DEF TypeOK
    <3>12. Acceptable(h)' BY <3>5, <3>10, <3>11, <1>2, <1>4 DEF Acceptable
    <3>13. IsLast(h, count)' BY <3>5, <3>9, <3>10, <3>12, <2>1, <1>2 DEF IsLast
    <3>14. PICK g \in slots[NewSlot] : slots[NewSlot] = {g} /\ g.count = count - 1
      BY <3>1, <1>1 DEF HeadersSound, IsLast
    <3>15. QED BY <3>6, <3>13, <3>14, <1>1, <1>2, <1>4, <1>10 DEF HeadersSound
  <2>13. QED BY <2>6, <2>8, <2>9, <2>10, <2>11, <2>12 DEF BlockTableInv
<1>14. QED BY <1>12, <1>13


-----------------------------------------------------------------------------
(* What recovery finds *)

At(i, h0, h1) == IF i = 0 THEN h0 ELSE h1

\* h, in slot i, is the header that recovery uses when it reads g in the other slot.
IsChosen(i, h, g) ==
  /\ h \in Headers /\ Usable(h.table) /\ h.table.btt \in Offsets /\ Slot(h.count) = i
  /\ Acceptable(h) /\ Intact(h)
  /\ \/ g = None
     \/ g \in Headers /\ g.count = h.count - 1
     \/ g \in Headers /\ kind = "rollback" /\ g.lsn > logged /\ g.count = h.count + 1

LEMMA HeadersRead ==
  ASSUME TypeOK, HeadersSound, NEW h0 \in slots[0], NEW h1 \in slots[1]
  PROVE  \E i \in {0, 1} : IsChosen(i, At(i, h0, h1), At(1 - i, h0, h1))
<1>1. count \in Nat /\ lsn \in Nat /\ logged \in Nat BY DEF TypeOK
<1>2. Slot(count) \in {0, 1} /\ NewSlot \in {0, 1} /\ NewSlot = 1 - Slot(count) /\ Slot(count) = 1 - NewSlot
  BY <1>1 DEF Slot, NewSlot
<1>3. PICK c : c = At(Slot(count), h0, h1) OBVIOUS
<1>4. PICK n : n = At(NewSlot, h0, h1) OBVIOUS
<1>5. c \in slots[Slot(count)] /\ n \in slots[NewSlot] BY <1>2, <1>3, <1>4 DEF At
<1>6. /\ c # None => c \in Headers /\ Usable(c.table) /\ c.table.btt \in Offsets /\ c.count \in Nat
      /\ n # None => n \in Headers /\ Usable(n.table) /\ n.table.btt \in Offsets /\ n.count \in Nat
  BY <1>2, <1>5, SlotHeaders
<1>7. SUFFICES IsChosen(Slot(count), c, n) \/ IsChosen(NewSlot, n, c) BY <1>2, <1>3, <1>4
<1>8. CASE ~ NewDone
  <2>1. c # None /\ c.count = count /\ Acceptable(c) /\ Intact(c) BY <1>5, <1>8 DEF HeadersSound, IsLast
  <2>2. n = None \/ n.count = count - 1 \/ TooNew(n) \/ (phase = "header" /\ n = NewHeader)
    BY <1>5, <1>8 DEF HeadersSound
  <2>3. CASE n = None \/ n.count = count - 1 \/ TooNew(n)
    BY <2>1, <2>3, <1>6 DEF IsChosen, TooNew
  <2>4. CASE n # None /\ phase = "header" /\ n = NewHeader
    <3>1. n.count = count + 1 /\ n.lsn = lsn BY <2>4 DEF NewHeader
    <3>2. logged < lsn BY <2>4 DEF HeadersSound
    <3>3. Intact(n) BY <2>4, <1>8 DEF HeadersSound
    <3>4. CASE kind = "rollback"
      <4>1. n.lsn > logged BY <3>1, <3>2, <1>1
      <4>2. QED BY <2>1, <2>4, <3>1, <3>4, <4>1, <1>6 DEF IsChosen
    <3>5. CASE kind # "rollback"
      <4>1. Acceptable(n) BY <2>4, <3>5 DEF Acceptable
      <4>2. Slot(n.count) = NewSlot BY <3>1 DEF NewSlot
      <4>3. c.count = n.count - 1 BY <2>1, <3>1, <1>1
      <4>4. QED BY <2>1, <2>4, <3>3, <4>1, <4>2, <4>3, <1>6 DEF IsChosen
    <3>6. QED BY <3>4, <3>5
  <2>5. QED BY <2>2, <2>3, <2>4
<1>9. CASE NewDone
  <2>1. n # None /\ n.count = count - 1 /\ Acceptable(n) /\ Intact(n) BY <1>5, <1>9 DEF HeadersSound, IsLast
  <2>2. PICK k : k = NewHeader OBVIOUS
  <2>3. k = [count |-> count + 1, lsn |-> lsn, table |-> inprogress, snap |-> snap] BY <2>2 DEF NewHeader
  <2>4. c = [k EXCEPT !.count = count] /\ Intact(k) BY <2>2, <1>5, <1>9 DEF HeadersSound
  <2>5. /\ c = [count |-> count, lsn |-> lsn, table |-> inprogress, snap |-> snap]
        /\ c.count = count /\ c.lsn = lsn /\ c.table = k.table /\ c.lsn = k.lsn /\ c.snap = k.snap
    BY <2>3, <2>4
  <2>6. Intact(c) BY <2>4, <2>5 DEF Intact
  <2>7. c \in Headers /\ c # None
    <3>1. c \in Headers BY <2>5 DEF TypeOK, Headers
    <3>2. QED BY <3>1, HeaderTypes
  <2>8. CASE Acceptable(c) BY <2>1, <2>5, <2>6, <2>7, <2>8, <1>6 DEF IsChosen
  <2>9. CASE ~ Acceptable(c)
    <3>1. kind = "rollback" /\ c.lsn > logged BY <2>5, <2>7, <2>9, <1>1 DEF Acceptable
    <3>2. c.count = n.count + 1 BY <2>1, <2>5, <1>1
    <3>3. Slot(n.count) = NewSlot BY <2>1, <1>1, <1>6 DEF NewSlot, Slot
    <3>4. QED BY <2>1, <2>7, <3>1, <3>2, <3>3, <1>6 DEF IsChosen
  <2>10. QED BY <2>8, <2>9
<1>10. QED BY <1>8, <1>9

LEMMA TheChosen ==
  ASSUME TypeOK, NEW i, NEW h, NEW g, IsChosen(i, h, g)
  PROVE  Chosen({h, g}) = {h} /\ g # h
<1>1. h \in Headers /\ h.count \in Nat /\ h # None /\ Acceptable(h) BY HeaderTypes DEF IsChosen
<1>2. Acceptable(g) => g \in Headers /\ g.count = h.count - 1
  <2>1. logged \in Nat BY DEF TypeOK
  <2>2. g \in Headers => g.lsn \in Nat BY HeaderTypes
  <2>3. QED BY <2>1, <2>2, HeaderTypes DEF IsChosen, Acceptable
<1>3. Acceptable(g) => g.count \in Int /\ g.count < h.count BY <1>1, <1>2
<1>4. g # h BY <1>1, <1>2, <1>3
<1>5. h \in Chosen({h, g}) BY <1>1, <1>3 DEF Chosen
<1>6. g \notin Chosen({h, g}) BY <1>1, <1>3 DEF Chosen
<1>7. QED BY <1>4, <1>5, <1>6 DEF Chosen

LEMMA CrashKeeps ==
  ASSUME BlockTableInv, Crash PROVE BlockTableInv'
<1>1. TypeOK /\ TablesSound /\ HeadersSound BY DEF BlockTableInv
<1>2. /\ crashes' = crashes + 1 /\ inprogress' = NoTranslation
      /\ disk' = Kept(disk, allocated' \ unsynced) /\ unsynced' = {}
      /\ dirty' = {} /\ pending' = {} /\ job' = [b \in Blocks |-> NoJob]
      /\ chDirty' = FALSE /\ phase' = "none" /\ skipped' = FALSE /\ closing' = FALSE
      /\ snap' = [b \in Blocks |-> None]
      /\ UNCHANGED <<stamp, lsn, logged, kind>>
  BY DEF Crash
<1>3. PICK h0 \in slots[0], h1 \in slots[1] : \E h \in Chosen({h0, h1}) :
        /\ slots' = [i \in {0, 1} |-> IF i = 0 THEN {h0} ELSE {h1}]
        /\ checkpointed' = h.table
        /\ current' = IF kind = "rollback" THEN FreeUnused(CopyTranslation(h.table))
                                           ELSE CopyTranslation(h.table)
        /\ allocated' = OffsetsOf(h.table) /\ count' = h.count /\ node' = h.snap
        /\ hDirty' = (\E g \in {h0, h1} : g # None /\ g.count > h.count)
  BY DEF Crash
<1>4. PICK i \in {0, 1} : IsChosen(i, At(i, h0, h1), At(1 - i, h0, h1)) BY <1>1, HeadersRead
<1>5. PICK h : h = At(i, h0, h1) OBVIOUS
<1>6. PICK g : g = At(1 - i, h0, h1) OBVIOUS
<1>7. IsChosen(i, h, g) /\ {h0, h1} = {h, g} /\ h \in slots[i] /\ g \in slots[1 - i]
  BY <1>4, <1>5, <1>6 DEF At
<1>8. Chosen({h0, h1}) = {h} /\ g # h BY <1>1, <1>7, TheChosen
<1>9. /\ slots' = [j \in {0, 1} |-> IF j = 0 THEN {h0} ELSE {h1}]
      /\ checkpointed' = h.table
      /\ current' = IF kind = "rollback" THEN FreeUnused(CopyTranslation(h.table))
                                         ELSE CopyTranslation(h.table)
      /\ allocated' = OffsetsOf(h.table) /\ count' = h.count /\ node' = h.snap
      /\ hDirty' = (\E f \in {h, g} : f # None /\ f.count > h.count)
  BY <1>3, <1>7, <1>8
<1>10. slots'[i] = {h} /\ slots'[1 - i] = {g} BY <1>5, <1>6, <1>9 DEF At
<1>11. /\ h \in Headers /\ h # None /\ h.count \in Nat /\ h.lsn \in Nat /\ h.table \in Translations
       /\ h.snap \in Snapshots /\ Usable(h.table) /\ h.table.btt \in Offsets /\ Slot(h.count) = i
       /\ Acceptable(h) /\ Intact(h)
  BY <1>7, HeaderTypes DEF IsChosen
<1>12. PICK t : t = CopyTranslation(h.table) OBVIOUS
<1>13. t \in Translations /\ Usable(t) /\ t.btt = Unused /\ SameBlocks(t, h.table) BY <1>11, <1>12, CopyFacts
<1>14. SamePlaces(t, h.table) BY <1>13, SameBlocksSamePlaces
<1>15. /\ current' \in Translations /\ Usable(current') /\ current'.btt = Unused
       /\ SamePlaces(current', h.table)
       /\ \A b \in Blocks : ~ IsAllocated(current', b) => ~ HasPlace(h.table, b)
  <2>1. CASE kind = "rollback"
    <3>1. current' = FreeUnused(t) BY <2>1, <1>9, <1>12
    <3>2. /\ current' \in Translations /\ Usable(current') /\ current'.btt = Unused
          /\ SamePlaces(current', t) /\ \A b \in Blocks : IsAllocated(current', b) <=> HasPlace(t, b)
      BY <3>1, <1>13, FreeUnusedFacts
    <3>3. QED BY <3>2, <1>14 DEF SamePlaces
  <2>2. CASE kind # "rollback"
    <3>1. current' = t BY <2>2, <1>9, <1>12
    <3>2. QED BY <3>1, <1>13, <1>14 DEF SameBlocks, HasPlace
  <2>3. QED BY <2>1, <2>2
<1>16. Within(current', h.table) /\ Within(h.table, current') BY <1>15, WithinSame
<1>17. /\ NoTranslation \in Translations /\ Usable(NoTranslation) /\ NoTranslation.btt = Unused
       /\ OffsetsOf(NoTranslation) = {} /\ \A b \in Blocks : ~ HasPlace(NoTranslation, b)
  BY NoTranslationFacts
<1>18. OffsetsOf(h.table) \subseteq Offsets BY <1>11, OffsetsAre
<1>19. /\ disk' \in [Offsets -> {None} \cup (Blocks \cup {None}) \X Nat]
       /\ \A x \in OffsetsOf(h.table) : x \notin unsynced => disk'[x] = disk[x]
  BY <1>1, <1>2, <1>9, <1>18 DEF TypeOK, Kept
<1>20. /\ disk'[h.table.btt] = <<None, h.lsn>>
       /\ \A b \in Blocks : /\ HasPlace(h.table, b) <=> h.snap[b] # None
                            /\ HasPlace(h.table, b) => disk'[h.table.u[b]] = <<b, h.snap[b]>>
  <2>1. h.table.btt \in OffsetsOf(h.table) BY <1>11, OffsetsDef, Constants
  <2>2. \A b \in Blocks : HasPlace(h.table, b) => h.table.u[b] \in OffsetsOf(h.table) BY <1>11, PlaceIsOffset
  <2>3. QED BY <2>1, <2>2, <1>11, <1>19 DEF Intact
<1>21. slots' \in [{0, 1} -> SUBSET (Headers \cup {None})]
  <2>1. g = None \/ g \in Headers BY <1>7 DEF IsChosen
  <2>2. \A j \in {0, 1} : slots'[j] \in SUBSET (Headers \cup {None}) BY <2>1, <1>10, <1>11
  <2>3. QED BY <2>2, <1>9
<1>22. TypeOK'
  <2>1. {hDirty', chDirty', skipped', closing'} \subseteq BOOLEAN BY <1>2, <1>9
  <2>2. job' \in [Blocks -> [o : Offsets \cup {None}, v : Stamps \cup {None}, clone : BOOLEAN, ckpt : BOOLEAN]]
    BY <1>2 DEF NoJob
  <2>3. snap' \in Snapshots BY <1>2 DEF Snapshots
  <2>4. /\ stamp' \in 0 .. MaxStamp /\ lsn' \in Nat /\ logged' \in 0 .. lsn' /\ crashes' \in Nat
        /\ kind' \in {"dictionary", "rollback"}
    BY <1>1, <1>2 DEF TypeOK
  <2>5. allocated' \in SUBSET Offsets /\ unsynced' \in SUBSET allocated' BY <1>2, <1>9, <1>18
  <2>6. current' \in Translations /\ inprogress' \in Translations /\ checkpointed' \in Translations
    BY <1>2, <1>9, <1>11, <1>15, <1>17
  <2>7. node' \in Snapshots /\ count' \in Nat BY <1>9, <1>11
  <2>8. dirty' \in SUBSET Blocks /\ pending' \in SUBSET Blocks /\ phase' = "none" BY <1>2
  <2>9. QED BY <2>1, <2>2, <2>3, <2>4, <2>5, <2>6, <2>7, <2>8, <1>19, <1>21 DEF TypeOK
<1>23. TablesSound'
  <2>1. Agree(h.table, h.table) BY <1>11, AgreeSelf
  <2>2. Agree(current', h.table) /\ Agree(h.table, current')
    BY <2>1, <1>15, <1>16, AgreeWithin, WithinReflexive
  <2>3. Unused # h.table.btt BY <1>11, Constants
  <2>4. QED BY <2>2, <2>3, <1>2, <1>9, <1>11, <1>15, <1>17, AgreeNothing DEF TablesSound
<1>24. SpaceSound'
  <2>1. OffsetsOf(current') \subseteq OffsetsOf(h.table) BY <1>15, <1>16, OffsetsWithin
  <2>2. InUse' = allocated' BY <2>1, <1>2, <1>9, <1>17 DEF InUse
  <2>3. QED BY <2>2 DEF SpaceSound
<1>25. DirtyBits' BY <1>2, <1>9, <1>16 DEF DirtyBits
<1>26. NodesSound' BY <1>2, <1>9, <1>15, <1>20 DEF NodesSound, SamePlaces, Written
<1>27. JobsSound'
  <2>1. \A b \in Blocks : job'[b] = NoJob BY <1>2
  <2>2. NoJob.o = None BY DEF NoJob
  <2>3. QED BY <2>1, <2>2 DEF JobsSound, Idle
<1>28. SnapSound' BY <1>2 DEF SnapSound
<1>29. HeadersSound'
  <2>1. ~ NewDone' /\ Slot(count)' = i BY <1>2, <1>9, <1>11 DEF NewDone, Slot
  <2>2. NewSlot' = 1 - i BY <1>9, <1>11 DEF NewSlot, Slot
  <2>3. Intact(h)' BY <1>2, <1>20 DEF Intact
  <2>4. Acceptable(h)' BY <1>2, <1>11 DEF Acceptable
  <2>5. IsLast(h, count)' BY <2>3, <2>4, <1>9, <1>11 DEF IsLast
  <2>6. g = None \/ g.count = count' - 1 \/ TooNew(g)'
    <3>1. CASE g \in Headers /\ kind = "rollback" /\ g.lsn > logged /\ g.count = h.count + 1
      <4>1. g # None /\ g.count > h.count BY <3>1, <1>11, HeaderTypes
      <4>2. hDirty' BY <4>1, <1>9
      <4>3. QED BY <3>1, <4>2, <1>2, <1>9 DEF TooNew
    <3>2. QED BY <3>1, <1>7, <1>9 DEF IsChosen
  <2>7. ASSUME NEW j \in {0, 1}, NEW f \in slots'[j], f # None
        PROVE  Usable(f.table) /\ f.table.btt \in Offsets /\ f.lsn <= lsn'
    <3>1. f \in slots[j]
      <4>1. CASE j = i BY <4>1, <1>7, <1>10
      <4>2. CASE j # i
        <5>1. j = 1 - i BY <4>2
        <5>2. QED BY <5>1, <1>7, <1>10
      <4>3. QED BY <4>1, <4>2
    <3>2. QED BY <3>1, <2>7, <1>1, <1>2 DEF HeadersSound
  <2>8. QED BY <2>1, <2>2, <2>5, <2>6, <2>7, <1>2, <1>10 DEF HeadersSound
<1>30. QED BY <1>22, <1>23, <1>24, <1>25, <1>26, <1>27, <1>28, <1>29 DEF BlockTableInv


-----------------------------------------------------------------------------
(* The theorems *)

LEMMA InitSound == Init => BlockTableInv
<1>1. SUFFICES ASSUME Init PROVE BlockTableInv OBVIOUS
<1>2. PICK p : p = Place({}) OBVIOUS
<1>3. p \in Offsets /\ p # Unused BY <1>2, PlaceIsFree, Constants
<1>4. /\ checkpointed = [NoTranslation EXCEPT !.btt = p] /\ allocated = {p}
      /\ disk = Kept([o \in Offsets |-> <<None, 0>>], allocated)
      /\ current = NoTranslation /\ inprogress = NoTranslation /\ unsynced = {}
      /\ node = [b \in Blocks |-> None] /\ stamp = 0
      /\ dirty = {} /\ pending = {} /\ job = [b \in Blocks |-> NoJob]
      /\ hDirty = FALSE /\ chDirty = FALSE
      /\ phase = "none" /\ skipped = FALSE /\ closing = FALSE
      /\ count = 1 /\ lsn = 0 /\ logged = 0 /\ snap = [b \in Blocks |-> None]
      /\ kind \in {"dictionary", "rollback"} /\ crashes = 0
  BY <1>1, <1>2 DEF Init
<1>5. PICK h : h = [count |-> 1, lsn |-> 0, table |-> checkpointed, snap |-> snap] OBVIOUS
<1>6. slots = [i \in {0, 1} |-> IF i = 0 THEN {h} ELSE {None}] BY <1>1, <1>5 DEF Init
<1>7. /\ NoTranslation \in Translations /\ Usable(NoTranslation) /\ NoTranslation.btt = Unused
      /\ OffsetsOf(NoTranslation) = {} /\ \A b \in Blocks : ~ HasPlace(NoTranslation, b)
      /\ \A b \in Blocks : ~ IsAllocated(NoTranslation, b)
  BY NoTranslationFacts
<1>8. /\ checkpointed \in Translations /\ Usable(checkpointed) /\ checkpointed.btt = p
      /\ SameBlocks(checkpointed, NoTranslation)
  BY <1>3, <1>4, <1>7, PlaceTableFacts
<1>9. \A b \in Blocks : ~ HasPlace(checkpointed, b) BY <1>7, <1>8 DEF SameBlocks, HasPlace
<1>10. /\ disk \in [Offsets -> {None} \cup (Blocks \cup {None}) \X Nat] /\ disk[p] = <<None, 0>>
  BY <1>3, <1>4 DEF Kept
<1>11. node \in Snapshots /\ snap \in Snapshots BY <1>4 DEF Snapshots
<1>12. h \in Headers /\ h # None /\ h.count = 1 /\ h.lsn = 0 /\ h.table = checkpointed /\ h.snap = snap
  <2>1. h \in Headers BY <1>5, <1>8, <1>11 DEF Headers
  <2>2. QED BY <2>1, <1>5, HeaderTypes
<1>13. slots[0] = {h} /\ slots[1] = {None} BY <1>6
<1>14. TypeOK
  <2>1. {hDirty, chDirty, skipped, closing} \subseteq BOOLEAN BY <1>4
  <2>2. job \in [Blocks -> [o : Offsets \cup {None}, v : Stamps \cup {None}, clone : BOOLEAN, ckpt : BOOLEAN]]
    BY <1>4 DEF NoJob
  <2>3. slots \in [{0, 1} -> SUBSET (Headers \cup {None})] BY <1>6, <1>12
  <2>4. stamp \in 0 .. MaxStamp BY <1>4, BlockTableAssumption DEF BlockTableAssumption
  <2>5. allocated \in SUBSET Offsets /\ unsynced \in SUBSET allocated BY <1>3, <1>4
  <2>6. /\ count \in Nat /\ lsn \in Nat /\ logged \in 0 .. lsn /\ crashes \in Nat
        /\ kind \in {"dictionary", "rollback"} /\ phase = "none"
        /\ dirty \in SUBSET Blocks /\ pending \in SUBSET Blocks
        /\ current \in Translations /\ inprogress \in Translations
    BY <1>4, <1>7
  <2>7. QED BY <2>1, <2>2, <2>3, <2>4, <2>5, <2>6, <1>8, <1>10, <1>11 DEF TypeOK
<1>15. TablesSound BY <1>3, <1>4, <1>7, <1>8, AgreeNothing DEF TablesSound
<1>16. SpaceSound
  <2>1. \A x : x \in OffsetsOf(checkpointed) <=> x = p BY <1>3, <1>8, <1>9, OffsetsDef
  <2>2. InUse = {p} BY <2>1, <1>4, <1>7 DEF InUse
  <2>3. QED BY <2>2, <1>4 DEF SpaceSound
<1>17. DirtyBits BY <1>4, <1>7 DEF DirtyBits, Within
<1>18. NodesSound BY <1>4, <1>7 DEF NodesSound
<1>19. JobsSound
  <2>1. \A b \in Blocks : job[b] = NoJob BY <1>4
  <2>2. NoJob.o = None BY DEF NoJob
  <2>3. QED BY <2>1, <2>2 DEF JobsSound, Idle
<1>20. SnapSound BY <1>4 DEF SnapSound
<1>21. HeadersSound
  <2>1. ~ NewDone /\ Slot(count) = 0 /\ NewSlot = 1 BY <1>4 DEF NewDone, NewSlot, Slot
  <2>2. Intact(h) BY <1>4, <1>8, <1>9, <1>10, <1>12 DEF Intact
  <2>3. Acceptable(h) BY <1>4, <1>12 DEF Acceptable
  <2>4. IsLast(h, count) BY <2>2, <2>3, <1>4, <1>12 DEF IsLast
  <2>5. \A i \in {0, 1} : \A g \in slots[i] : g # None =>
          Usable(g.table) /\ g.table.btt \in Offsets /\ g.lsn <= lsn
    <3>1. h.lsn <= lsn BY <1>4, <1>12
    <3>2. QED BY <3>1, <1>3, <1>8, <1>12, <1>13
  <2>6. /\ phase = "none" /\ ~ skipped /\ ~ closing /\ ~ NewDone BY <2>1, <1>4
  <2>7. /\ \E f \in slots[Slot(count)] : slots[Slot(count)] = {f} /\ IsLast(f, count)
        /\ slots[NewSlot] = {None}
    BY <2>1, <2>4, <1>13
  <2>8. QED BY <2>5, <2>6, <2>7 DEF HeadersSound
<1>22. QED BY <1>14, <1>15, <1>16, <1>17, <1>18, <1>19, <1>20, <1>21 DEF BlockTableInv

LEMMA StutterKeeps ==
  ASSUME BlockTableInv, UNCHANGED vars PROVE BlockTableInv'
<1>1. UNCHANGED <<current, inprogress, checkpointed, allocated, disk, unsynced, node, stamp, dirty, pending,
                  job, hDirty, chDirty, phase, skipped, closing, count, lsn, logged, slots, snap, kind,
                  crashes>>
  BY DEF vars
<1>2. /\ TypeOK /\ TablesSound /\ SpaceSound /\ DirtyBits /\ NodesSound /\ JobsSound /\ SnapSound
      /\ HeadersSound
  BY DEF BlockTableInv
<1>3. TypeOK' BY <1>1, <1>2 DEF TypeOK
<1>4. TablesSound' BY <1>1, <1>2 DEF TablesSound
<1>5. SpaceSound' BY <1>1, <1>2 DEF SpaceSound, InUse
<1>6. DirtyBits' BY <1>1, <1>2 DEF DirtyBits
<1>7. NodesSound' BY <1>1, <1>2 DEF NodesSound, Idle, Written
<1>8. JobsSound' BY <1>1, <1>2 DEF JobsSound, Idle
<1>9. SnapSound' BY <1>1, <1>2 DEF SnapSound, Idle
<1>10. HeadersLeft BY <1>1 DEF HeadersLeft, KeptAt
<1>11. HeadersSound' BY <1>2, <1>10, HeadersKept
<1>12. QED BY <1>3, <1>4, <1>5, <1>6, <1>7, <1>8, <1>9, <1>11 DEF BlockTableInv

LEMMA NextKeeps == BlockTableInv /\ [Next]_vars => BlockTableInv'
<1>1. SUFFICES ASSUME BlockTableInv, [Next]_vars PROVE BlockTableInv' OBVIOUS
<1>2. CASE AllocateBlocknum BY <1>1, <1>2, AllocateKeeps
<1>3. CASE \E b \in Blocks : \/ Modify(b) \/ ClearPending(b)
                             \/ \E clone \in BOOLEAN : StartWrite(b, clone)
                             \/ FinishWrite(b) \/ FreeBlocknum(b)
  <2>1. PICK b \in Blocks : \/ Modify(b) \/ ClearPending(b)
                            \/ \E clone \in BOOLEAN : StartWrite(b, clone)
                            \/ FinishWrite(b) \/ FreeBlocknum(b)
    BY <1>3
  <2>2. QED
    BY <1>1, <2>1, ModifyKeeps, ClearPendingKeeps, StartWriteKeeps, FinishWriteKeeps, FreeKeeps
<1>4. CASE BeginCheckpoint BY <1>1, <1>4, BeginCheckpointKeeps
<1>5. CASE BeginClose BY <1>1, <1>5, BeginCloseKeeps
<1>6. CASE SkipCheckpoint BY <1>1, <1>6, SkipKeeps
<1>7. CASE WriteTranslation BY <1>1, <1>7, WriteTranslationKeeps
<1>8. CASE WriteHeader BY <1>1, <1>8, WriteHeaderKeeps
<1>9. CASE SyncHeader BY <1>1, <1>9, SyncHeaderKeeps
<1>10. CASE LogEndCheckpoint BY <1>1, <1>10, LogEndKeeps
<1>11. CASE EndCheckpoint BY <1>1, <1>11, EndKeeps
<1>12. CASE Crash BY <1>1, <1>12, CrashKeeps
<1>13. CASE UNCHANGED vars BY <1>1, <1>13, StutterKeeps
<1>14. QED
  BY <1>1, <1>2, <1>3, <1>4, <1>5, <1>6, <1>7, <1>8, <1>9, <1>10, <1>11, <1>12, <1>13 DEF Next

\* The invariant of the block table: no place is used for two things, what the last
\* checkpoint and the new header stand for stays in the file as it is, and one of the two
\* headers always leads to it, through writes, checkpoints and crashes in any order.
THEOREM BlockTableInvariantHolds == Spec => []BlockTableInv
BY InitSound, NextKeeps, PTL DEF Spec

\* Wherever the process stops, recovery finds a header that it may use, and the checkpoint
\* that the header stands for is whole in the file (toku_deserialize_ft_from, and the order
\* of the writes and fsyncs of ft_checkpoint and toku_serialize_ft_to).
THEOREM RecoverableHolds == Spec => []Recoverable
<1>1. BlockTableInv => Recoverable
  <2>1. SUFFICES ASSUME BlockTableInv, NEW hs \in Readable
                 PROVE  Chosen(hs) # {} /\ \A h \in Chosen(hs) : Intact(h)
    BY DEF Recoverable
  <2>2. TypeOK /\ HeadersSound BY <2>1 DEF BlockTableInv
  <2>3. PICK h0 \in slots[0], h1 \in slots[1] : hs = {h0, h1} BY DEF Readable
  <2>4. PICK i \in {0, 1} : IsChosen(i, At(i, h0, h1), At(1 - i, h0, h1)) BY <2>2, HeadersRead
  <2>5. {At(i, h0, h1), At(1 - i, h0, h1)} = hs BY <2>3 DEF At
  <2>6. Chosen(hs) = {At(i, h0, h1)} BY <2>2, <2>4, <2>5, TheChosen
  <2>7. Intact(At(i, h0, h1)) BY <2>4 DEF IsChosen
  <2>8. QED BY <2>6, <2>7
<1>2. QED BY <1>1, BlockTableInvariantHolds, PTL

\* In a file in which no block number is also an offset, the allocator has given away
\* exactly the blocks that one of the translations uses: none is lost, whatever the order
\* of writes, releases, checkpoints and crashes, and none is used for two things.
THEOREM SpaceExactHolds ==
  ASSUME SmallFile PROVE Spec => []SpaceExact
<1>1. BlockTableInv => SpaceExact
  <2>1. SUFFICES ASSUME BlockTableInv PROVE SpaceExact OBVIOUS
  <2>2. TypeOK /\ TablesSound /\ SpaceSound BY <2>1 DEF BlockTableInv
  <2>3. allocated = OffsetsOf(current) \cup OffsetsOf(inprogress) \cup OffsetsOf(checkpointed)
    BY <2>2 DEF SpaceSound, InUse
  <2>4. Agree(current, current) /\ Agree(inprogress, inprogress) /\ Agree(checkpointed, checkpointed)
    BY <2>2, AgreeSelf DEF TypeOK, TablesSound
  <2>5. \A s, t \in {current, inprogress, checkpointed} : Agree(s, t) BY <2>2, <2>4 DEF TablesSound
  <2>6. QED BY <2>3, <2>5 DEF SpaceExact, Agree
<1>2. QED BY <1>1, BlockTableInvariantHolds, PTL

\* The assertion of toku_deserialize_ft_from on the counts of two headers never fails.
THEOREM HeadersAlternateHolds == Spec => []HeadersAlternate
<1>1. BlockTableInv => HeadersAlternate
  <2>1. SUFFICES ASSUME BlockTableInv, NEW h0 \in slots[0], NEW h1 \in slots[1],
                        NEW g \in {h0, h1}, NEW h \in {h0, h1}, Acceptable(g), Acceptable(h), g # h
                 PROVE  g.count = h.count + 1 \/ h.count = g.count + 1
    BY DEF HeadersAlternate, Readable
  <2>2. TypeOK /\ HeadersSound BY <2>1 DEF BlockTableInv
  <2>3. PICK i \in {0, 1} : IsChosen(i, At(i, h0, h1), At(1 - i, h0, h1)) BY <2>2, HeadersRead
  <2>4. PICK x : x = At(i, h0, h1) OBVIOUS
  <2>5. PICK y : y = At(1 - i, h0, h1) OBVIOUS
  <2>6. {x, y} = {g, h} /\ IsChosen(i, x, y) BY <2>1, <2>3, <2>4, <2>5 DEF At
  <2>7. x.count \in Nat /\ y.count = x.count - 1
    <3>1. Acceptable(y) /\ y # None BY <2>1, <2>6 DEF Acceptable
    <3>2. logged \in Nat /\ (y \in Headers => y.lsn \in Nat) BY <2>2, HeaderTypes DEF TypeOK
    <3>3. QED BY <2>6, <3>1, <3>2, HeaderTypes DEF IsChosen, Acceptable
  <2>8. QED BY <2>1, <2>6, <2>7
<1>2. QED BY <1>1, BlockTableInvariantHolds, PTL

\* A node that is neither dirty nor being written can be dropped from the cache: the current
\* translation leads to the content that it had.
THEOREM ReadsBackHolds == Spec => []ReadsBack
<1>1. BlockTableInv => ReadsBack BY DEF BlockTableInv, NodesSound, ReadsBack, Written
<1>2. QED BY <1>1, BlockTableInvariantHolds, PTL

\* The assertion of note_end_checkpoint never fails, in a file in which no block number is
\* also an offset: what the end of a checkpoint gives back is not in use.
THEOREM EndFreesNothingInUseHolds ==
  ASSUME SmallFile PROVE Spec => []EndFreesNothingInUse
<1>1. BlockTableInv => EndFreesNothingInUse
  <2>1. SUFFICES ASSUME BlockTableInv, MayEnd, ~ skipped, NEW b \in ObsoleteBlocks,
                        PreventsFreeing(current, b, checkpointed.u[b])
                 PROVE  FALSE
    BY DEF EndFreesNothingInUse
  <2>2. TypeOK /\ TablesSound /\ DirtyBits BY <2>1 DEF BlockTableInv
  <2>3. phase \in {"written", "logged"} BY <2>1 DEF MayEnd
  <2>4. OffsetsOf(current) \cap Obsolete = {} BY <2>1, <2>2, <2>3, ObsoleteIsUnused
  <2>5. /\ current \in Translations /\ checkpointed \in Translations
        /\ Usable(current) /\ Usable(checkpointed)
    BY <2>2 DEF TypeOK, TablesSound
  <2>6. b \in Blocks BY <2>5, FieldTypes, Constants DEF ObsoleteBlocks, Blocks
  <2>7. HasPlace(checkpointed, b) BY DEF ObsoleteBlocks
  <2>8. checkpointed.u[b] \in Offsets BY <2>5, <2>6, <2>7, PlaceIsOffset
  <2>9. checkpointed.u[b] \in OffsetsOf(current) BY <2>1, <2>5, <2>6, <2>8, PreventsIsPlace
  <2>10. checkpointed.u[b] \in Obsolete BY DEF Obsolete
  <2>11. QED BY <2>4, <2>9, <2>10
<1>2. QED BY <1>1, BlockTableInvariantHolds, PTL

-----------------------------------------------------------------------------
(* Free lists.  That the links are sound leaves rings of free block numbers *)
(* beside the list; an order of the whole list does not.                    *)

\* e[n], ..., e[1] is the list that starts at h and follows u, and it has all of S, each once.
Order(u, S, h, n, e) ==
  /\ n \in Nat /\ e \in [0 .. n -> S \cup {Null}] /\ e[0] = Null /\ e[n] = h
  /\ \A k \in 1 .. n : e[k] \in S /\ u[e[k]] = e[k - 1]
  /\ \A j, k \in 1 .. n : e[j] = e[k] => j = k
  /\ \A x \in S : \E k \in 1 .. n : e[k] = x
Linked(u, S, h) == \E n, e : Order(u, S, h, n, e)
IsList(t) == Linked(t.u, t.free, t.head)

LEMMA ListEmpty == ASSUME NEW u PROVE Linked(u, {}, Null)
<1> DEFINE e == [k \in 0 .. 0 |-> Null]
<1>1. Order(u, {}, Null, 0, e) BY DEF Order
<1>2. QED BY <1>1 DEF Linked

LEMMA ListSame ==
  ASSUME NEW u, NEW v, NEW S, NEW h, Linked(u, S, h), \A x \in S : v[x] = u[x]
  PROVE  Linked(v, S, h)
<1>1. PICK n, e : Order(u, S, h, n, e) BY DEF Linked
<1>2. Order(v, S, h, n, e) BY <1>1 DEF Order
<1>3. QED BY <1>2 DEF Linked

LEMMA ListPush ==
  ASSUME NEW u, NEW v, NEW S, NEW h, NEW b, Linked(u, S, h), b \notin S, v[b] = h, \A x \in S : v[x] = u[x]
  PROVE  Linked(v, S \cup {b}, b)
<1>1. PICK n, e : Order(u, S, h, n, e) BY DEF Linked
<1>2. /\ n \in Nat /\ e \in [0 .. n -> S \cup {Null}] /\ e[0] = Null /\ e[n] = h
      /\ \A k \in 1 .. n : e[k] \in S /\ u[e[k]] = e[k - 1]
      /\ \A j, k \in 1 .. n : e[j] = e[k] => j = k
      /\ \A x \in S : \E k \in 1 .. n : e[k] = x
  BY <1>1 DEF Order
<1> DEFINE T == S \cup {b}
           f == [k \in 0 .. n + 1 |-> IF k = n + 1 THEN b ELSE e[k]]
<1>3. /\ n + 1 \in Nat /\ f[n + 1] = b /\ \A k \in 0 .. n : k \in 0 .. n + 1 /\ f[k] = e[k]
      /\ \A k \in 0 .. n + 1 : k = n + 1 \/ k \in 0 .. n
      /\ \A k \in 1 .. n + 1 : k = n + 1 \/ k \in 1 .. n
      /\ \A k \in 1 .. n : k \in 0 .. n /\ k - 1 \in 0 .. n
      /\ 1 .. n \subseteq 1 .. n + 1 /\ n + 1 \in 1 .. n + 1 /\ 0 \in 0 .. n /\ n \in 0 .. n
      /\ (n + 1) - 1 = n
  BY <1>2
<1>4. f \in [0 .. n + 1 -> T \cup {Null}]
  <2>1. \A k \in 0 .. n + 1 : f[k] \in T \cup {Null} BY <1>2, <1>3
  <2>2. QED BY <2>1
<1> HIDE DEF f
<1>5. ASSUME NEW k \in 1 .. n + 1 PROVE f[k] \in T /\ v[f[k]] = f[k - 1]
  <2>1. CASE k = n + 1 BY <2>1, <1>2, <1>3
  <2>2. CASE k \in 1 .. n
    <3>1. e[k] \in S /\ u[e[k]] = e[k - 1] BY <2>2, <1>2
    <3>2. f[k] = e[k] /\ f[k - 1] = e[k - 1] BY <2>2, <1>3
    <3>3. QED BY <3>1, <3>2
  <2>3. QED BY <2>1, <2>2, <1>3
<1>6. ASSUME NEW j \in 1 .. n + 1, NEW k \in 1 .. n + 1, f[j] = f[k] PROVE j = k
  <2>1. \A i \in 1 .. n : f[i] = e[i] /\ e[i] \in S BY <1>2, <1>3
  <2>2. CASE j \in 1 .. n /\ k \in 1 .. n
    <3>1. e[j] = e[k] BY <2>1, <2>2, <1>6
    <3>2. QED BY <3>1, <2>2, <1>2
  <2>3. CASE ~ (j \in 1 .. n /\ k \in 1 .. n)
    <3>1. f[j] = b \/ f[k] = b BY <2>3, <1>3
    <3>2. f[j] = b /\ f[k] = b BY <3>1, <1>6
    <3>3. j \notin 1 .. n /\ k \notin 1 .. n BY <2>1, <3>2
    <3>4. QED BY <3>3, <1>3
  <2>4. QED BY <2>2, <2>3
<1>7. ASSUME NEW x \in T PROVE \E k \in 1 .. n + 1 : f[k] = x
  <2>1. CASE x = b BY <2>1, <1>3
  <2>2. CASE x \in S
    <3>1. PICK k \in 1 .. n : e[k] = x BY <2>2, <1>2
    <3>2. k \in 1 .. n + 1 /\ f[k] = x BY <3>1, <1>3
    <3>3. QED BY <3>2
  <2>3. QED BY <2>1, <2>2
<1>8. f[0] = Null BY <1>2, <1>3
<1>9. Order(v, T, b, n + 1, f) BY <1>3, <1>4, <1>5, <1>6, <1>7, <1>8 DEF Order
<1>10. QED BY <1>9 DEF Linked

LEMMA ListPop ==
  ASSUME NEW u, NEW v, NEW S, NEW h, Null \notin S, Linked(u, S, h), h # Null,
         \A x \in S : x # h => v[x] = u[x]
  PROVE  h \in S /\ Linked(v, S \ {h}, u[h])
<1>1. PICK n, e : Order(u, S, h, n, e) BY DEF Linked
<1>2. /\ n \in Nat /\ e \in [0 .. n -> S \cup {Null}] /\ e[0] = Null /\ e[n] = h
      /\ \A k \in 1 .. n : e[k] \in S /\ u[e[k]] = e[k - 1]
      /\ \A j, k \in 1 .. n : e[j] = e[k] => j = k
      /\ \A x \in S : \E k \in 1 .. n : e[k] = x
  BY <1>1 DEF Order
<1>3. /\ n # 0 /\ n - 1 \in Nat /\ n \in 1 .. n /\ \A k \in 0 .. n - 1 : k \in 0 .. n
      /\ \A k \in 1 .. n - 1 : k \in 1 .. n /\ k # n /\ k \in 0 .. n - 1 /\ k - 1 \in 0 .. n - 1
      /\ \A k \in 0 .. n - 1 : k = 0 \/ k \in 1 .. n - 1
      /\ \A k \in 1 .. n : k = n \/ k \in 1 .. n - 1
      /\ 0 \in 0 .. n - 1 /\ n - 1 \in 0 .. n - 1
  BY <1>2
<1> DEFINE T == S \ {h}
           f == [k \in 0 .. n - 1 |-> e[k]]
<1>4. \A k \in 0 .. n - 1 : f[k] = e[k] OBVIOUS
<1>5. ASSUME NEW k \in 1 .. n - 1 PROVE e[k] \in T
  <2>1. e[k] \in S BY <1>2, <1>3
  <2>2. e[k] # h
    <3>1. e[k] = e[n] => k = n BY <1>2, <1>3
    <3>2. QED BY <3>1, <1>2, <1>3
  <2>3. QED BY <2>1, <2>2
<1>6. f \in [0 .. n - 1 -> T \cup {Null}]
  <2>1. \A k \in 0 .. n - 1 : e[k] \in T \cup {Null} BY <1>2, <1>3, <1>5
  <2>2. QED BY <2>1
<1> HIDE DEF f
<1>7. ASSUME NEW k \in 1 .. n - 1 PROVE f[k] \in T /\ v[f[k]] = f[k - 1]
  <2>1. f[k] = e[k] /\ f[k - 1] = e[k - 1] BY <1>3, <1>4
  <2>2. u[e[k]] = e[k - 1] BY <1>2, <1>3
  <2>3. e[k] \in S /\ e[k] # h BY <1>5
  <2>4. v[e[k]] = u[e[k]] BY <2>3
  <2>5. QED BY <1>5, <2>1, <2>2, <2>4
<1>8. ASSUME NEW j \in 1 .. n - 1, NEW k \in 1 .. n - 1, f[j] = f[k] PROVE j = k
  <2>1. e[j] = e[k] /\ j \in 1 .. n /\ k \in 1 .. n BY <1>3, <1>4, <1>8
  <2>2. QED BY <2>1, <1>2
<1>9. ASSUME NEW x \in T PROVE \E k \in 1 .. n - 1 : f[k] = x
  <2>1. PICK k \in 1 .. n : e[k] = x BY <1>2
  <2>2. k # n BY <2>1, <1>2
  <2>3. k \in 1 .. n - 1 /\ k \in 0 .. n - 1 BY <2>2, <1>3
  <2>4. QED BY <2>1, <2>3, <1>4
<1>10. f[0] = Null /\ f[n - 1] = u[h] BY <1>2, <1>3, <1>4
<1>11. Order(v, T, u[h], n - 1, f) BY <1>3, <1>6, <1>7, <1>8, <1>9, <1>10 DEF Order
<1>12. h \in S BY <1>2, <1>3
<1>13. QED BY <1>11, <1>12 DEF Linked

\* Pushing the block numbers of F on a list, the least first.
LEMMA ListPushed ==
  ASSUME NEW F \in SUBSET Blocks, NEW G, F \cap G = {}, NEW h, NEW u, NEW v,
         Linked(u, G, h), Pushed(v, u, F, G, h)
  PROVE  Linked(v, F \cup G, ListHead(F, h))
<1> DEFINE L(m) == {c \in F : c < m}
           P(m) == Linked(v, L(m) \cup G, ListHead(L(m), h))
           Bad  == {m \in Nat : ~ P(m)}
<1>0. F \in SUBSET Nat /\ NumBlocks \in Nat /\ \A x \in F : x < NumBlocks BY Constants DEF Blocks
<1>1. P(0)
  <2>1. L(0) = {}
    <3>1. ASSUME NEW c \in F PROVE ~ (c < 0)
      <4>1. c \in Nat BY <1>0
      <4>2. QED BY <4>1
    <3>2. QED BY <3>1
  <2>2. ListHead(L(0), h) = h BY <2>1 DEF ListHead
  <2>3. Linked(v, G, h) BY ListSame DEF Pushed
  <2>4. L(0) \cup G = G BY <2>1
  <2>5. QED BY <2>2, <2>3, <2>4
<1>2. ASSUME NEW m \in Nat, P(m) PROVE P(m + 1)
  <2>1. CASE m \notin F
    <3>1. ASSUME NEW c \in F PROVE c < m + 1 <=> c < m
      <4>1. c \in Nat /\ c # m BY <2>1, <1>0
      <4>2. QED BY <4>1
    <3>2. L(m + 1) = L(m) BY <3>1
    <3>3. QED BY <3>2, <1>2
  <2>2. CASE m \in F
    <3>1. ASSUME NEW c \in F PROVE c < m + 1 <=> c < m \/ c = m
      <4>1. c \in Nat BY <1>0
      <4>2. QED BY <4>1
    <3>2. L(m + 1) = L(m) \cup {m} BY <3>1, <2>2
    <3>3. m \notin L(m) /\ m \notin G BY <2>2
    <3>4. v[m] = ListHead(L(m), h) BY <2>2 DEF Pushed, ListNext
    <3>5. ListHead(L(m + 1), h) = m
      <4>1. m \in L(m + 1) /\ L(m + 1) # {} BY <3>2
      <4>2. L(m + 1) \in SUBSET Nat /\ \A x \in L(m + 1) : x <= m
        <5>1. \A x \in L(m) : x <= m
          <6>1. ASSUME NEW x \in L(m) PROVE x <= m
            <7>1. x \in Nat /\ x < m BY <1>0
            <7>2. QED BY <7>1
          <6>2. QED BY <6>1
        <5>2. L(m) \in SUBSET Nat BY <1>0
        <5> HIDE DEF L
        <5>3. QED BY <5>1, <5>2, <3>2
      <4> HIDE DEF L
      <4>3. Max(L(m + 1)) \in L(m + 1) /\ \A y \in L(m + 1) : Max(L(m + 1)) >= y
        BY <4>1, <4>2, MaxIs
      <4>4. Max(L(m + 1)) \in Nat /\ Max(L(m + 1)) <= m /\ Max(L(m + 1)) >= m BY <4>1, <4>2, <4>3
      <4>5. Max(L(m + 1)) = m BY <4>4
      <4>6. QED BY <4>1, <4>5 DEF ListHead
    <3> HIDE DEF L
    <3>6. Linked(v, (L(m) \cup G) \cup {m}, m) BY <1>2, <3>3, <3>4, ListPush
    <3>7. L(m + 1) \cup G = (L(m) \cup G) \cup {m} BY <3>2
    <3>8. QED BY <3>5, <3>6, <3>7
  <2>3. QED BY <2>1, <2>2
<1>3. L(NumBlocks) = F BY <1>0
<1> HIDE DEF P
<1>4. Bad = {}
  <2>1. SUFFICES ASSUME Bad # {} PROVE FALSE OBVIOUS
  <2>2. PICK m \in Bad : \A k \in Bad : m <= k
    <3>1. Bad \in SUBSET Nat OBVIOUS
    <3>2. QED BY <2>1, <3>1, LeastExists
  <2>3. m \in Nat /\ m # 0 /\ ~ P(m) BY <1>1
  <2>4. m - 1 \in Nat /\ ~ (m <= m - 1) BY <2>3
  <2>5. P(m - 1) BY <2>2, <2>4
  <2>6. P((m - 1) + 1) BY <2>4, <2>5, <1>2
  <2>7. (m - 1) + 1 = m BY <2>3
  <2>8. QED BY <2>3, <2>6, <2>7
<1>5. P(NumBlocks) BY <1>4, <1>0
<1>6. QED BY <1>3, <1>5 DEF P

\* Following the links of a list goes through it once and ends.
LEMMA ListFollow ==
  ASSUME NEW t \in Translations, IsList(t), NEW n, n = Cardinality(t.free)
  PROVE  {Follow(t, n)[k] : k \in 0 .. n} = t.free \cup {Null} /\ Follow(t, n)[n] = Null
<1>0. t.free \in SUBSET Blocks /\ Null \notin t.free BY FieldTypes, Constants
<1>1. PICK m, e : Order(t.u, t.free, t.head, m, e) BY DEF IsList, Linked
<1>2. /\ m \in Nat /\ e \in [0 .. m -> t.free \cup {Null}] /\ e[0] = Null /\ e[m] = t.head
      /\ \A k \in 1 .. m : e[k] \in t.free /\ t.u[e[k]] = e[k - 1]
      /\ \A j, k \in 1 .. m : e[j] = e[k] => j = k
      /\ \A x \in t.free : \E k \in 1 .. m : e[k] = x
  BY <1>1 DEF Order
<1>3. m = n
  <2> DEFINE f == [k \in 1 .. m |-> e[k]]
  <2>1. f \in [1 .. m -> t.free] /\ \A k \in 1 .. m : f[k] = e[k] BY <1>2
  <2> HIDE DEF f
  <2>2. f \in Injection(1 .. m, t.free) BY <2>1, <1>2 DEF Injection, IsInjective
  <2>3. f \in Surjection(1 .. m, t.free) BY <2>1, <1>2 DEF Surjection
  <2>4. ExistsBijection(1 .. m, t.free) BY <2>2, <2>3 DEF Bijection, ExistsBijection
  <2>5. QED BY <2>4, <1>2, FS_CountingElements
<1> DEFINE Walk(g) == [k \in 0 .. n |-> IF k = 0 THEN t.head
                                        ELSE IF g[k - 1] = Null THEN Null ELSE t.u[g[k - 1]]]
           w == [k \in 0 .. n |-> e[n - k]]
           f == Follow(t, n)
<1>4. \A k \in 0 .. n : n - k \in 0 .. n /\ (k # n => n - k \in 1 .. n) /\ (k = n => n - k = 0)
  BY <1>2, <1>3
<1>5. \A k \in 0 .. n : w[k] = e[n - k] OBVIOUS
<1>6. w = Walk(w)
  <2>1. ASSUME NEW k \in 0 .. n PROVE w[k] = Walk(w)[k]
    <3>1. CASE k = 0
      <4>1. w[k] = t.head BY <3>1, <1>2, <1>3
      <4>2. QED BY <3>1, <4>1
    <3>2. CASE k # 0
      <4>1. k - 1 \in 0 .. n /\ k - 1 # n /\ n - (k - 1) = (n - k) + 1 /\ ((n - k) + 1) - 1 = n - k
        BY <3>2, <1>2, <1>3
      <4>2. n - (k - 1) \in 1 .. n BY <4>1, <1>4
      <4>3. w[k - 1] = e[n - (k - 1)] BY <4>1
      <4>4. e[n - (k - 1)] \in t.free /\ t.u[e[n - (k - 1)]] = e[(n - (k - 1)) - 1]
        BY <4>2, <1>2, <1>3
      <4>5. (n - (k - 1)) - 1 = n - k BY <4>1
      <4>6. w[k - 1] # Null /\ t.u[w[k - 1]] = w[k] BY <4>3, <4>4, <4>5, <1>0, <1>5
      <4>7. QED BY <4>6, <3>2
    <3>3. QED BY <3>1, <3>2
  <2> HIDE DEF w
  <2>2. w = [k \in 0 .. n |-> w[k]] BY DEF w
  <2>3. QED BY <2>1, <2>2
<1>7. f = Walk(f)
  <2>1. f = CHOOSE g : g = Walk(g) BY DEF Follow
  <2> HIDE DEF f, Walk, w
  <2>2. QED BY <2>1, <1>6
<1>8. \A k \in 0 .. n : f[k] = IF k = 0 THEN t.head ELSE IF f[k - 1] = Null THEN Null ELSE t.u[f[k - 1]]
  <2> HIDE DEF f
  <2>1. QED BY <1>7
<1>9. \A k \in 0 .. n : w[k] = IF k = 0 THEN t.head ELSE IF w[k - 1] = Null THEN Null ELSE t.u[w[k - 1]]
  <2> HIDE DEF w
  <2>1. QED BY <1>6
<1> HIDE DEF f, w
<1>10. ASSUME NEW k \in 0 .. n PROVE f[k] = w[k]
  <2> DEFINE Bad == {j \in 0 .. n : f[j] # w[j]}
  <2>1. SUFFICES ASSUME Bad # {} PROVE FALSE OBVIOUS
  <2>2. Bad \in SUBSET Nat BY <1>2, <1>3
  <2>3. PICK j \in Bad : \A i \in Bad : j <= i BY <2>1, <2>2, LeastExists
  <2>4. j \in 0 .. n /\ j # 0 /\ f[j] # w[j]
    <3>1. 0 \in 0 .. n BY <1>2, <1>3
    <3>2. f[0] = w[0] BY <3>1, <1>8, <1>9
    <3>3. QED BY <3>2
  <2>5. j - 1 \in 0 .. n /\ ~ (j <= j - 1) BY <2>4, <1>2, <1>3
  <2>6. f[j - 1] = w[j - 1] BY <2>3, <2>5
  <2>7. QED BY <2>4, <2>6, <1>8, <1>9
<1>11. \A k \in 0 .. n : f[k] = e[n - k] BY <1>5, <1>10
<1>12. f[n] = Null
  <2>1. n \in 0 .. n /\ n - n = 0 BY <1>2, <1>3
  <2>2. QED BY <2>1, <1>2, <1>11
<1>13. ASSUME NEW k \in 0 .. n PROVE f[k] \in t.free \cup {Null}
  <2>1. n - k \in 0 .. m BY <1>3, <1>4
  <2>2. e[n - k] \in t.free \cup {Null} BY <2>1, <1>2
  <2>3. QED BY <2>2, <1>11
<1>14. ASSUME NEW x \in t.free \cup {Null} PROVE \E k \in 0 .. n : f[k] = x
  <2>1. CASE x = Null
    <3>1. n \in 0 .. n BY <1>2, <1>3
    <3>2. QED BY <2>1, <3>1, <1>12
  <2>2. CASE x \in t.free
    <3>1. PICK k \in 1 .. m : e[k] = x BY <2>2, <1>2
    <3>2. n - k \in 0 .. n /\ n - (n - k) = k BY <1>2, <1>3
    <3>3. f[n - k] = e[n - (n - k)] BY <3>2, <1>11
    <3>4. QED BY <3>1, <3>2, <3>3
  <2>3. QED BY <2>1, <2>2
<1>15. {f[k] : k \in 0 .. n} = t.free \cup {Null} BY <1>13, <1>14
<1>16. QED BY <1>12, <1>15 DEF f

LEMMA AllocateList ==
  ASSUME NEW t \in Translations, Usable(t), IsList(t), NextBlocknum(t) \in Blocks
  PROVE  IsList(AllocateIn(t))
<1>0. /\ t.u \in [Blocks -> Values] /\ t.free \in SUBSET Blocks /\ Null \notin t.free /\ t.smallest \in Nat
      /\ t = Translation(t.u, t.free, t.head, t.smallest, t.btt)
  BY FieldTypes, Constants
<1> DEFINE n == NextBlocknum(t)
           v == [t.u EXCEPT ![n] = Unused]
<1>1. \A x \in t.free : x # n => v[x] = t.u[x] BY <1>0
<1>2. CASE t.head = Null
  <2>1. n \notin t.free BY <1>2, <1>0 DEF NextBlocknum, Usable, FreeListSound
  <2>2. AllocateIn(t) = Translation(v, t.free, t.head, t.smallest + 1, t.btt)
    BY <1>0, <1>2 DEF AllocateIn, Translation, NextBlocknum
  <2> HIDE DEF v, n
  <2>3. \A x \in t.free : v[x] = t.u[x] BY <1>1, <2>1
  <2>4. Linked(v, t.free, t.head) BY <2>3, ListSame DEF IsList
  <2>5. QED BY <2>2, <2>4 DEF IsList, Translation
<1>3. CASE t.head # Null
  <2>1. n = t.head BY <1>3 DEF NextBlocknum
  <2>2. AllocateIn(t) = Translation(v, t.free \ {n}, t.u[n], t.smallest, t.btt)
    BY <1>0, <1>3, <2>1 DEF AllocateIn, Translation
  <2> HIDE DEF v, n
  <2>3. Linked(v, t.free \ {n}, t.u[n]) BY <1>0, <1>1, <1>3, <2>1, ListPop DEF IsList
  <2>4. QED BY <2>2, <2>3 DEF IsList, Translation
<1>4. QED BY <1>2, <1>3

LEMMA MovedList ==
  ASSUME NEW t \in Translations, IsList(t), NEW b \in Blocks, b \notin t.free, NEW o
  PROVE  IsList([t EXCEPT !.u[b] = o])
<1> DEFINE v == [t.u EXCEPT ![b] = o]
<1>0. /\ t.u \in [Blocks -> Values] /\ t.free \in SUBSET Blocks
      /\ t = Translation(t.u, t.free, t.head, t.smallest, t.btt)
  BY FieldTypes
<1>1. \A x \in t.free : v[x] = t.u[x] BY <1>0
<1>2. [t EXCEPT !.u[b] = o] = Translation(v, t.free, t.head, t.smallest, t.btt)
  BY <1>0 DEF Translation
<1> HIDE DEF v
<1>3. Linked(v, t.free, t.head) BY <1>1, ListSame DEF IsList
<1>4. QED BY <1>2, <1>3 DEF IsList, Translation

LEMMA FreeInList ==
  ASSUME NEW t \in Translations, IsList(t), NEW b \in Blocks, b \notin t.free
  PROVE  IsList(FreeIn(t, b))
<1> DEFINE v == [t.u EXCEPT ![b] = t.head]
           s == FreeIn(t, b)
<1>0. t.u \in [Blocks -> Values] /\ t.free \in SUBSET Blocks BY FieldTypes
<1>1. v[b] = t.head /\ \A x \in t.free : v[x] = t.u[x] BY <1>0
<1>2. s.u = v /\ s.free = t.free \cup {b} /\ s.head = b
  <2>1. DOMAIN t = {"u", "free", "head", "smallest", "btt"} BY DEF Translations
  <2>2. QED BY <2>1 DEF FreeIn
<1> HIDE DEF v, s
<1>3. Linked(v, t.free \cup {b}, b) BY <1>1, ListPush DEF IsList
<1>4. IsList(s) BY <1>2, <1>3 DEF IsList
<1>5. QED BY <1>4 DEF s

LEMMA SameList ==
  ASSUME NEW t, NEW s, IsList(t), s.u = t.u, s.free = t.free, s.head = t.head
  PROVE  IsList(s)
BY DEF IsList

LEMMA OptimizeList ==
  ASSUME NEW t \in Translations, Usable(t), IsList(t)
  PROVE  IsList(Optimize(t))
<1> DEFINE m == Min({n \in 0 .. t.smallest : \A b \in n .. t.smallest - 1 : b \in t.free})
           F == {b \in t.free : b < m}
           v == [b \in Blocks |-> IF b \in F THEN ListNext(F, Null, b) ELSE IF b < m THEN t.u[b] ELSE Null]
           s == Translation(v, F, ListHead(F, Null), m, t.btt)
<1>1. Optimize(t) = IF m = t.smallest THEN t ELSE s BY DEF Optimize
<1> HIDE DEF m
<1>2. F \in SUBSET Blocks BY FieldTypes
<1>3. \A b \in F : v[b] = ListNext(F, Null, b) BY <1>2
<1> HIDE DEF F, v
<1>4. Linked(v, F \cup {}, ListHead(F, Null))
  <2>1. Linked(v, {}, Null) BY ListEmpty
  <2>2. PICK G : G = {} OBVIOUS
  <2>3. Pushed(v, v, F, G, Null) BY <1>3, <2>2 DEF Pushed
  <2>4. F \cap G = {} /\ Linked(v, G, Null) BY <2>1, <2>2
  <2>5. Linked(v, F \cup G, ListHead(F, Null)) BY <1>2, <2>3, <2>4, ListPushed
  <2>6. QED BY <2>2, <2>5
<1>5. F \cup {} = F OBVIOUS
<1>6. IsList(s) BY <1>4, <1>5 DEF IsList, Translation
<1>7. QED BY <1>1, <1>6

LEMMA FreeUnusedList ==
  ASSUME NEW t \in Translations, Usable(t), IsList(t)
  PROVE  IsList(FreeUnused(t))
<1>0. /\ t.u \in [Blocks -> Values] /\ t.free \in SUBSET Blocks /\ t.smallest \in 0 .. NumBlocks
      /\ t = Translation(t.u, t.free, t.head, t.smallest, t.btt)
  BY FieldTypes
<1> DEFINE F == {b \in 0 .. t.smallest - 1 : t.u[b] = Unused}
           v == [b \in Blocks |-> IF b \in F THEN ListNext(F, t.head, b) ELSE t.u[b]]
           s == FreeUnused(t)
<1>1. s = [t EXCEPT !.u = v, !.free = t.free \cup F, !.head = ListHead(F, t.head)]
  BY DEF FreeUnused
<1>2. F \in SUBSET Blocks
  <2>1. 0 .. t.smallest - 1 \subseteq Blocks BY <1>0, Constants DEF Blocks
  <2>2. QED BY <2>1
<1>3. F \cap t.free = {}
  <2>1. \A b \in t.free : t.u[b] # Unused BY <1>0, Constants DEF Usable, FreeListSound
  <2>2. QED BY <2>1
<1>4. \A b \in F : v[b] = ListNext(F, t.head, b) BY <1>2
<1>5. \A b \in t.free : v[b] = t.u[b] BY <1>0, <1>3
<1> HIDE DEF F, v, s
<1>6. s = Translation(v, t.free \cup F, ListHead(F, t.head), t.smallest, t.btt)
  BY <1>0, <1>1 DEF Translation
<1>7. Linked(v, F \cup t.free, ListHead(F, t.head))
  <2>1. Pushed(v, t.u, F, t.free, t.head) BY <1>4, <1>5 DEF Pushed
  <2>2. QED BY <2>1, <1>2, <1>3, ListPushed DEF IsList
<1>8. F \cup t.free = t.free \cup F OBVIOUS
<1>9. s.u = v /\ s.free = t.free \cup F /\ s.head = ListHead(F, t.head) BY <1>6 DEF Translation
<1>10. IsList(s) BY <1>7, <1>8, <1>9 DEF IsList
<1>11. QED BY <1>10 DEF s

\* The free lists of the three translations, and of those that a header in the file keeps.
FreeLists ==
  /\ IsList(current) /\ IsList(inprogress) /\ IsList(checkpointed)
  /\ \A i \in {0, 1} : \A h \in slots[i] : h # None => IsList(h.table)

LEMMA NoTranslationList == IsList(NoTranslation)
<1>1. NoTranslation.free = {} /\ NoTranslation.head = Null BY DEF NoTranslation, Translation
<1>2. QED BY <1>1, ListEmpty DEF IsList

LEMMA InitLists == Init => FreeLists
<1>1. SUFFICES ASSUME Init PROVE FreeLists OBVIOUS
<1>2. PICK t : t = [NoTranslation EXCEPT !.btt = Place({})] OBVIOUS
<1>3. t.u = NoTranslation.u /\ t.free = NoTranslation.free /\ t.head = NoTranslation.head
  BY <1>2 DEF NoTranslation, Translation
<1>4. IsList(t) BY <1>3, NoTranslationList, SameList
<1>5. checkpointed = t /\ current = NoTranslation /\ inprogress = NoTranslation BY <1>1, <1>2 DEF Init
<1>6. ASSUME NEW i \in {0, 1}, NEW h \in slots[i], h # None PROVE h.table = t
  <2>1. h = [count |-> 1, lsn |-> 0, table |-> checkpointed, snap |-> snap] BY <1>1, <1>6 DEF Init
  <2>2. QED BY <2>1, <1>5
<1>7. QED BY <1>4, <1>5, <1>6, NoTranslationList DEF FreeLists

\* A step of the file itself, that leaves the headers alone.
LEMMA ListsKept ==
  ASSUME FreeLists, UNCHANGED slots, IsList(current'), IsList(inprogress'), IsList(checkpointed')
  PROVE  FreeLists'
BY DEF FreeLists

LEMMA AllocateLists == ASSUME BlockTableInv, FreeLists, AllocateBlocknum PROVE FreeLists'
<1>1. current \in Translations /\ Usable(current) BY DEF BlockTableInv, TypeOK, TablesSound
<1>2. /\ NextBlocknum(current) \in Blocks /\ current' = AllocateIn(current)
      /\ UNCHANGED <<inprogress, checkpointed, slots>>
  BY DEF AllocateBlocknum
<1>3. IsList(current') BY <1>1, <1>2, AllocateList DEF FreeLists
<1>4. QED BY <1>2, <1>3, ListsKept DEF FreeLists

LEMMA StartWriteLists ==
  ASSUME BlockTableInv, FreeLists, NEW b \in Blocks, NEW clone, StartWrite(b, clone) PROVE FreeLists'
<1>1. current \in Translations /\ inprogress \in Translations BY DEF BlockTableInv, TypeOK
<1>2. b \in dirty /\ UNCHANGED <<checkpointed, slots>> BY DEF StartWrite
<1>3. PICK o : SetPlace(b, o, b \in pending) BY DEF StartWrite, ForCheckpoint
<1>4. b \notin current.free BY <1>2 DEF BlockTableInv, NodesSound, IsAllocated
<1>5. b \in pending => b \notin inprogress.free BY DEF BlockTableInv, SnapSound, IsAllocated
<1>6. current' = [current EXCEPT !.u[b] = o] BY <1>3 DEF SetPlace
<1>7. IsList(current') BY <1>1, <1>4, <1>6, MovedList DEF FreeLists
<1>8. CASE b \in pending
  <2>1. inprogress' = [inprogress EXCEPT !.u[b] = o] BY <1>3, <1>8 DEF SetPlace
  <2>2. IsList(inprogress') BY <2>1, <1>1, <1>5, <1>8, MovedList DEF FreeLists
  <2>3. QED BY <2>2, <1>2, <1>7, ListsKept DEF FreeLists
<1>9. CASE b \notin pending
  <2>1. inprogress' = inprogress BY <1>3, <1>9 DEF SetPlace
  <2>2. QED BY <2>1, <1>2, <1>7, ListsKept DEF FreeLists
<1>10. QED BY <1>8, <1>9

LEMMA FreeBlocknumLists ==
  ASSUME BlockTableInv, FreeLists, NEW b \in Blocks, FreeBlocknum(b) PROVE FreeLists'
<1>1. current \in Translations /\ inprogress \in Translations BY DEF BlockTableInv, TypeOK
<1>2. /\ IsAllocated(current, b) /\ current' = FreeIn(current, b)
      /\ inprogress' = IF b \in pending THEN FreeIn(inprogress, b) ELSE inprogress
      /\ UNCHANGED <<checkpointed, slots>>
  BY DEF FreeBlocknum, ForCheckpoint
<1>3. b \in pending => b \notin inprogress.free BY DEF BlockTableInv, SnapSound, IsAllocated
<1>4. IsList(current') BY <1>1, <1>2, FreeInList DEF FreeLists, IsAllocated
<1>5. IsList(inprogress') BY <1>1, <1>2, <1>3, FreeInList DEF FreeLists
<1>6. QED BY <1>2, <1>4, <1>5, ListsKept DEF FreeLists

LEMMA BeginLists ==
  ASSUME BlockTableInv, FreeLists, NEW cached, BeginCopy(cached) PROVE FreeLists'
<1>1. current \in Translations /\ Usable(current) BY DEF BlockTableInv, TypeOK, TablesSound
<1>2. /\ current' = Optimize(current) /\ inprogress' = CopyTranslation(Optimize(current))
      /\ UNCHANGED <<checkpointed, slots>>
  BY DEF BeginCopy
<1>3. IsList(current') BY <1>1, <1>2, OptimizeList DEF FreeLists
<1>4. current' \in Translations /\ Usable(current') BY <1>1, <1>2, OptimizeFacts
<1>5. inprogress'.u = current'.u /\ inprogress'.free = current'.free /\ inprogress'.head = current'.head
  BY <1>2, <1>4, CopyFacts
<1>6. IsList(inprogress') BY <1>3, <1>5, SameList
<1>7. QED BY <1>2, <1>3, <1>6, ListsKept DEF FreeLists

LEMMA WriteTranslationLists ==
  ASSUME BlockTableInv, FreeLists, WriteTranslation PROVE FreeLists'
<1>1. inprogress \in Translations BY DEF BlockTableInv, TypeOK
<1>2. /\ inprogress' = [inprogress EXCEPT !.btt = Place(allocated)]
      /\ UNCHANGED <<current, checkpointed, slots>>
  BY DEF WriteTranslation
<1>3. /\ inprogress'.u = inprogress.u /\ inprogress'.free = inprogress.free
      /\ inprogress'.head = inprogress.head
  BY <1>1, <1>2 DEF Translations
<1>4. IsList(inprogress') BY <1>3, SameList DEF FreeLists
<1>5. QED BY <1>2, <1>4, ListsKept DEF FreeLists

LEMMA HeaderLists ==
  ASSUME BlockTableInv, FreeLists, UNCHANGED tables,
         \A i \in {0, 1} : \A h \in slots'[i] : h \in slots[i] \/ h = None \/ h = NewHeader
  PROVE  FreeLists'
<1>1. ASSUME NEW i \in {0, 1}, NEW h \in slots'[i], h # None PROVE IsList(h.table)
  <2>1. CASE h \in slots[i] BY <2>1, <1>1 DEF FreeLists
  <2>2. CASE h = NewHeader
    <3>1. h.table = inprogress BY <2>2 DEF NewHeader
    <3>2. QED BY <3>1 DEF FreeLists
  <2>3. QED BY <2>1, <2>2, <1>1
<1>2. QED BY <1>1 DEF FreeLists, tables

LEMMA WriteHeaderLists == ASSUME BlockTableInv, FreeLists, WriteHeader PROVE FreeLists'
<1>1. slots \in [{0, 1} -> SUBSET (Headers \cup {None})] BY DEF BlockTableInv, TypeOK
<1>2. slots' = [slots EXCEPT ![Slot(count + 1)] = @ \cup {None, NewHeader}] /\ UNCHANGED tables
  BY DEF WriteHeader
<1>3. \A i \in {0, 1} : \A h \in slots'[i] : h \in slots[i] \/ h = None \/ h = NewHeader BY <1>1, <1>2
<1>4. QED BY <1>2, <1>3, HeaderLists

LEMMA SyncHeaderLists == ASSUME BlockTableInv, FreeLists, SyncHeader PROVE FreeLists'
<1>1. slots \in [{0, 1} -> SUBSET (Headers \cup {None})] BY DEF BlockTableInv, TypeOK
<1>2. slots' = [slots EXCEPT ![Slot(count + 1)] = {NewHeader}] /\ UNCHANGED tables
  BY DEF SyncHeader
<1>3. \A i \in {0, 1} : \A h \in slots'[i] : h \in slots[i] \/ h = None \/ h = NewHeader BY <1>1, <1>2
<1>4. QED BY <1>2, <1>3, HeaderLists

LEMMA EndLists == ASSUME FreeLists, EndCheckpoint PROVE FreeLists'
<1>1. /\ checkpointed' = checkpointed \/ checkpointed' = inprogress
      /\ inprogress' = NoTranslation /\ UNCHANGED <<current, slots>>
  BY DEF EndCheckpoint
<1>2. QED BY <1>1, NoTranslationList, ListsKept DEF FreeLists

LEMMA CrashLists == ASSUME BlockTableInv, FreeLists, Crash PROVE FreeLists'
<1>1. TypeOK /\ HeadersSound BY DEF BlockTableInv
<1>2. PICK h0 \in slots[0], h1 \in slots[1] : \E h \in Chosen({h0, h1}) :
        /\ slots' = [i \in {0, 1} |-> IF i = 0 THEN {h0} ELSE {h1}]
        /\ checkpointed' = h.table
        /\ current' = IF kind = "rollback" THEN FreeUnused(CopyTranslation(h.table))
                                           ELSE CopyTranslation(h.table)
  BY DEF Crash
<1>3. PICK h \in Chosen({h0, h1}) :
        /\ slots' = [i \in {0, 1} |-> IF i = 0 THEN {h0} ELSE {h1}]
        /\ checkpointed' = h.table
        /\ current' = IF kind = "rollback" THEN FreeUnused(CopyTranslation(h.table))
                                           ELSE CopyTranslation(h.table)
  BY <1>2
<1>4. h \in {h0, h1} /\ h # None BY DEF Chosen, Acceptable
<1>5. PICK i \in {0, 1} : h \in slots[i] BY <1>4
<1>6. h.table \in Translations /\ Usable(h.table) /\ IsList(h.table)
  <2>1. h \in Headers BY <1>1, <1>4, <1>5, SlotTypes
  <2>2. Usable(h.table) BY <1>1, <1>4, <1>5 DEF HeadersSound
  <2>3. QED BY <2>1, <2>2, <1>4, <1>5, HeaderTypes DEF FreeLists
<1>7. PICK t : t = CopyTranslation(h.table) OBVIOUS
<1>8. t \in Translations /\ Usable(t) /\ t.u = h.table.u /\ t.free = h.table.free /\ t.head = h.table.head
  BY <1>6, <1>7, CopyFacts
<1>9. IsList(t) BY <1>6, <1>8, SameList
<1>10. IsList(current')
  <2>1. IsList(FreeUnused(t)) BY <1>8, <1>9, FreeUnusedList
  <2>2. current' = FreeUnused(t) \/ current' = t BY <1>3, <1>7
  <2>3. QED BY <2>1, <2>2, <1>9
<1>11. inprogress' = NoTranslation BY DEF Crash
<1>12. ASSUME NEW j \in {0, 1}, NEW g \in slots'[j], g # None PROVE IsList(g.table)
  <2>1. g \in slots[j] BY <1>3
  <2>2. QED BY <2>1, <1>12 DEF FreeLists
<1>13. QED BY <1>3, <1>6, <1>10, <1>11, <1>12, NoTranslationList DEF FreeLists

LEMMA NextLists == BlockTableInv /\ FreeLists /\ [Next]_vars => FreeLists'
<1>1. SUFFICES ASSUME BlockTableInv, FreeLists, [Next]_vars PROVE FreeLists' OBVIOUS
<1>2. CASE AllocateBlocknum BY <1>1, <1>2, AllocateLists
<1>3. ASSUME NEW b \in Blocks,
             \/ Modify(b) \/ ClearPending(b)
             \/ \E clone \in BOOLEAN : StartWrite(b, clone)
             \/ FinishWrite(b) \/ FreeBlocknum(b)
      PROVE  FreeLists'
  <2>1. CASE Modify(b) \/ ClearPending(b) \/ FinishWrite(b)
    <3>1. UNCHANGED <<current, inprogress, checkpointed, slots>>
      BY <2>1 DEF Modify, ClearPending, FinishWrite, tables, headers
    <3>2. QED BY <3>1, <1>1, ListsKept DEF FreeLists
  <2>2. CASE \E clone \in BOOLEAN : StartWrite(b, clone) BY <2>2, <1>1, StartWriteLists
  <2>3. CASE FreeBlocknum(b) BY <2>3, <1>1, FreeBlocknumLists
  <2>4. QED BY <2>1, <2>2, <2>3, <1>3
<1>4. CASE BeginCheckpoint \/ BeginClose BY <1>1, <1>4, BeginLists DEF BeginCheckpoint, BeginClose
<1>5. CASE WriteTranslation BY <1>1, <1>5, WriteTranslationLists
<1>6. CASE WriteHeader BY <1>1, <1>6, WriteHeaderLists
<1>7. CASE SyncHeader BY <1>1, <1>7, SyncHeaderLists
<1>8. CASE SkipCheckpoint \/ LogEndCheckpoint \/ UNCHANGED vars
  <2>1. UNCHANGED <<current, inprogress, checkpointed, slots>>
    BY <1>8 DEF SkipCheckpoint, LogEndCheckpoint, tables, vars
  <2>2. QED BY <2>1, <1>1, ListsKept DEF FreeLists
<1>9. CASE EndCheckpoint BY <1>1, <1>9, EndLists
<1>10. CASE Crash BY <1>1, <1>10, CrashLists
<1>11. QED BY <1>1, <1>2, <1>3, <1>4, <1>5, <1>6, <1>7, <1>8, <1>9, <1>10 DEF Next

\* The free list of every translation, through allocation, release, optimization and
\* recovery, has each free block number once and ends (the links that _allocate_blocknum_unlocked,
\* _free_blocknum_in_translation, _maybe_optimize_translation and free_unused_blocknums keep).
THEOREM FreeListExactHolds == Spec => []FreeListExact
<1>1. Spec => []FreeLists
  <2>1. BlockTableInv /\ FreeLists /\ [Next]_vars => FreeLists' BY NextLists
  <2>2. QED BY <2>1, InitLists, BlockTableInvariantHolds, PTL DEF Spec
<1>2. BlockTableInv /\ FreeLists => FreeListExact
  <2>1. SUFFICES ASSUME BlockTableInv, FreeLists, NEW t \in {current, inprogress, checkpointed}
                 PROVE  LET n == Cardinality(t.free) IN
                        /\ {Follow(t, n)[k] : k \in 0 .. n} = t.free \cup {Null}
                        /\ Follow(t, n)[n] = Null
    BY DEF FreeListExact
  <2>2. t \in Translations /\ IsList(t) BY <2>1 DEF BlockTableInv, TypeOK, FreeLists
  <2>3. QED BY <2>2, ListFollow
<1>3. QED BY <1>1, <1>2, BlockTableInvariantHolds, PTL

\* The assertions of the table and of the headers never fail, and what the table says can be
\* read is there, in a file in which no block number is also an offset.
THEOREM TableSoundHolds ==
  ASSUME SmallFile PROVE Spec => []TableSound
<1>1. FreeListExact /\ HeadersAlternate /\ EndFreesNothingInUse /\ ReadsBack => TableSound
  BY DEF TableSound
<1>2. QED
  BY <1>1, FreeListExactHolds, HeadersAlternateHolds, EndFreesNothingInUseHolds, ReadsBackHolds, PTL
=============================================================================
