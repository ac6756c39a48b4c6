---------------------------- MODULE LoggerProofs ----------------------------
(***************************************************************************)
(* Proofs about the recovery log, for any number of threads, buffer and    *)
(* file sizes and crashes: the log is one gapless sequence, what a thread  *)
(* was told is synced survives, and recovery finds the log it needs.       *)
(***************************************************************************)
EXTENDS Logger, FiniteSetTheorems, TLAPS

(* The greatest element of a set *)

LEMMA MaxIs ==
  ASSUME NEW S, NEW x \in S, \A y \in S : x >= y
  PROVE  Max(S) \in S /\ \A y \in S : Max(S) >= y
BY DEF Max

LEMMA MaxOfTwo ==
  ASSUME NEW a \in Int, NEW b \in Int
  PROVE  Max({a, b}) \in Int /\ (Max({a, b}) = a \/ Max({a, b}) = b) /\ Max({a, b}) >= a /\ Max({a, b}) >= b
<1>1. PICK x \in {a, b} : \A y \in {a, b} : x >= y
  <2>1. CASE a >= b
    <3>1. \A y \in {a, b} : a >= y BY <2>1
    <3>2. QED BY <3>1
  <2>2. CASE b >= a
    <3>1. \A y \in {a, b} : b >= y BY <2>2
    <3>2. QED BY <3>1
  <2>3. QED BY <2>1, <2>2
<1>2. Max({a, b}) \in {a, b} /\ \A y \in {a, b} : Max({a, b}) >= y
  BY <1>1, MaxIs
<1>3. QED BY <1>2

\* A set of numbers up to a bound has a greatest element.
LEMMA MaxExists ==
  ASSUME NEW S \in SUBSET Nat, NEW n \in Nat, S # {}, \A x \in S : x <= n
  PROVE  Max(S) \in S /\ \A y \in S : Max(S) >= y
<1> DEFINE Above(x) == {y \in S : y > x}
           T == {Above(x) : x \in S}
<1>0. IsFiniteSet(S)
  BY FS_BoundedSetOfNaturals
<1>1. IsWellFoundedOn(StrictSubsetOrdering(S), FiniteSubsetsOf(S))
  BY FS_StrictSubsetOrderingWellFounded
<1>2. T \subseteq FiniteSubsetsOf(S) /\ T # {}
  <2>1. ASSUME NEW x \in S PROVE Above(x) \in FiniteSubsetsOf(S)
    <3>1. Above(x) \in SUBSET S OBVIOUS
    <3> HIDE DEF Above
    <3>2. QED BY <1>0, <3>1, FS_Subset DEF FiniteSubsetsOf
  <2> HIDE DEF Above
  <2>2. QED BY <2>1
<1>3. PICK U \in T : \A V \in T : <<V, U>> \notin StrictSubsetOrdering(S)
  <2> HIDE DEF T
  <2>1. QED BY <1>1, <1>2, WFMin
<1>4. PICK x \in S : U = Above(x)
  OBVIOUS
<1>5. ASSUME NEW y \in S, y > x PROVE FALSE
  <2>1. Above(y) \in T /\ Above(y) \in SUBSET S /\ Above(x) \in SUBSET S
    OBVIOUS
  <2>2. Above(y) \subseteq Above(x)
    <3>1. ASSUME NEW z \in S, z > y PROVE z > x
      <4>1. x \in Int /\ y \in Int /\ z \in Int OBVIOUS
      <4>2. QED BY ONLY <4>1, <3>1, <1>5
    <3>2. QED BY <3>1
  <2>3. y \in Above(x) /\ y \notin Above(y) BY <1>5
  <2>4. <<Above(y), Above(x)>> \in StrictSubsetOrdering(S)
    BY <2>1, <2>2, <2>3 DEF StrictSubsetOrdering
  <2>5. QED BY <2>1, <2>4, <1>3, <1>4
<1>6. \A y \in S : x >= y BY <1>5
<1>7. QED BY <1>6, MaxIs

-----------------------------------------------------------------------------
(* The log files *)

EntsIn(F)   == UNION {F[i].ents : i \in DOMAIN F}
SyncedIn(F) == UNION {F[i].synced : i \in DOMAIN F}

\* a file by itself, and one that another follows
Prefix(f) == f.synced \subseteq f.ents /\ \A l \in f.ents, s \in f.synced : l <= s => l \in f.synced
Closed(f) == f.synced = f.ents /\ \A l \in f.ents : l <= f.maxlsn

Sound(F) ==
  /\ F \in Seq(Files) /\ F # <<>>
  /\ \A i, j \in 1 .. Len(F) : i < j => Before(F[i].ents, F[j].ents)
  /\ \A i \in 1 .. Len(F) : Prefix(F[i]) /\ (i < Len(F) => Closed(F[i]))

LEMMA SoundFacts ==
  ASSUME NEW F, Sound(F)
  PROVE  /\ Len(F) \in Nat /\ Len(F) >= 1 /\ DOMAIN F = 1 .. Len(F)
         /\ \A i \in 1 .. Len(F) : F[i] \in Files
<1>1. F \in Seq(Files) /\ F # <<>> BY DEF Sound
<1>2. QED BY <1>1

LEMMA FileFacts ==
  ASSUME NEW f \in Files
  PROVE  f.ents \in SUBSET Nat /\ f.synced \in SUBSET Nat /\ f.maxlsn \in Nat
BY DEF Files

LEMMA MemberOf ==
  ASSUME NEW F, NEW n, DOMAIN F = 1 .. n
  PROVE  /\ \A l : l \in EntsIn(F) <=> \E i \in 1 .. n : l \in F[i].ents
         /\ \A l : l \in SyncedIn(F) <=> \E i \in 1 .. n : l \in F[i].synced
BY DEF EntsIn, SyncedIn

\* What is synced is a prefix of what is in the files.
LEMMA SyncedPrefix ==
  ASSUME NEW F, Sound(F)
  PROVE  /\ EntsIn(F) \in SUBSET Nat /\ SyncedIn(F) \subseteq EntsIn(F)
         /\ \A l \in EntsIn(F), s \in SyncedIn(F) : l <= s => l \in SyncedIn(F)
<1>1. PICK n \in Nat : n = Len(F) /\ n >= 1 /\ DOMAIN F = 1 .. n /\ \A i \in 1 .. n : F[i] \in Files
  BY SoundFacts
<1>2. /\ \A i, j \in 1 .. n : i < j => Before(F[i].ents, F[j].ents)
      /\ \A i \in 1 .. n : Prefix(F[i]) /\ (i < n => Closed(F[i]))
  BY <1>1 DEF Sound
<1>3. EntsIn(F) \in SUBSET Nat
  BY <1>1, MemberOf, FileFacts
<1>4. SyncedIn(F) \subseteq EntsIn(F)
  BY <1>1, <1>2, MemberOf DEF Prefix
<1>5. ASSUME NEW l \in EntsIn(F), NEW s \in SyncedIn(F), l <= s PROVE l \in SyncedIn(F)
  <2>1. PICK i \in 1 .. n : l \in F[i].ents BY <1>1, MemberOf
  <2>2. PICK j \in 1 .. n : s \in F[j].synced BY <1>1, MemberOf
  <2>3. s \in F[j].ents /\ l \in Nat /\ s \in Nat BY <2>1, <2>2, <1>1, <1>2, FileFacts DEF Prefix
  <2>4. ~ (j < i) BY <2>1, <2>3, <1>2, <1>5 DEF Before
  <2>5. l \in F[i].synced
    <3>1. CASE i = j BY <2>1, <2>2, <3>1, <1>2, <1>5 DEF Prefix
    <3>2. CASE i < j
      <4>1. i < n BY <1>1, <3>2
      <4>2. QED BY <2>1, <4>1, <1>2 DEF Closed
    <3>3. QED BY <2>4, <3>1, <3>2, <1>1
  <2>6. QED BY <2>1, <2>5, <1>1, MemberOf
<1>6. QED BY <1>3, <1>4, <1>5

\* The last file changes: it may get newer entries, and more of it may be synced.
LEMMA LastChanged ==
  \A F, G, r : Sound(F) /\ r \in Files /\ G = [F EXCEPT ![Len(F)] = r] =>
    /\ G \in Seq(Files) /\ G # <<>> /\ Len(G) = Len(F) /\ G[Len(F)] = r
    /\ \A i \in 1 .. Len(F) : i # Len(F) => G[i] = F[i]
<1> SUFFICES ASSUME NEW F, NEW G, NEW r \in Files, Sound(F), G = [F EXCEPT ![Len(F)] = r]
             PROVE  /\ G \in Seq(Files) /\ G # <<>> /\ Len(G) = Len(F) /\ G[Len(F)] = r
                    /\ \A i \in 1 .. Len(F) : i # Len(F) => G[i] = F[i]
  OBVIOUS
<1>1. PICK n \in Nat : n = Len(F) /\ n >= 1 /\ DOMAIN F = 1 .. n /\ \A i \in 1 .. n : F[i] \in Files
  BY SoundFacts
<1>2. F \in Seq(Files) BY DEF Sound
<1>3. G[n] = r /\ \A i \in 1 .. n : i # n => G[i] = F[i] BY <1>1
<1>4. G \in Seq(Files) /\ Len(G) = n BY <1>1, <1>2
<1>5. G # <<>> BY <1>1, <1>4
<1>6. QED BY <1>1, <1>3, <1>4, <1>5

LEMMA LastSound ==
  ASSUME NEW F, NEW G, NEW r, Sound(F), r \in Files, Prefix(r),
         G \in Seq(Files), G # <<>>, Len(G) = Len(F), G[Len(F)] = r,
         \A i \in 1 .. Len(F) : i # Len(F) => G[i] = F[i],
         F[Len(F)].ents \subseteq r.ents, F[Len(F)].synced \subseteq r.synced,
         \A b \in r.ents : b \in F[Len(F)].ents \/ \A l \in EntsIn(F) : l < b
  PROVE  /\ Sound(G) /\ EntsIn(G) = EntsIn(F) \cup r.ents /\ SyncedIn(G) = SyncedIn(F) \cup r.synced
<1>1. PICK n \in Nat : n = Len(F) /\ n >= 1 /\ DOMAIN F = 1 .. n /\ \A i \in 1 .. n : F[i] \in Files
  BY SoundFacts
<1>2. /\ \A i, j \in 1 .. n : i < j => Before(F[i].ents, F[j].ents)
      /\ \A i \in 1 .. n : Prefix(F[i]) /\ (i < n => Closed(F[i]))
  BY <1>1 DEF Sound
<1>3. DOMAIN G = 1 .. n /\ Len(G) = n /\ G[n] = r /\ n \in 1 .. n BY <1>1
<1>4. \A i \in 1 .. n : i # n => G[i] = F[i] BY <1>1
<1>5. F[n].ents \subseteq r.ents /\ F[n].synced \subseteq r.synced BY <1>1
<1>6. EntsIn(G) = EntsIn(F) \cup r.ents
  <2>1. ASSUME NEW l \in EntsIn(G) PROVE l \in EntsIn(F) \cup r.ents
    <3>1. PICK i \in 1 .. n : l \in G[i].ents BY <1>3, MemberOf
    <3>2. QED BY <3>1, <1>1, <1>3, <1>4, MemberOf
  <2>2. ASSUME NEW l \in EntsIn(F) PROVE l \in EntsIn(G)
    <3>1. PICK i \in 1 .. n : l \in F[i].ents BY <1>1, MemberOf
    <3>2. l \in G[i].ents BY <3>1, <1>3, <1>4, <1>5
    <3>3. QED BY <3>2, <1>3, MemberOf
  <2>3. r.ents \subseteq EntsIn(G) BY <1>3, MemberOf
  <2>4. QED BY <2>1, <2>2, <2>3
<1>7. SyncedIn(G) = SyncedIn(F) \cup r.synced
  <2>1. ASSUME NEW l \in SyncedIn(G) PROVE l \in SyncedIn(F) \cup r.synced
    <3>1. PICK i \in 1 .. n : l \in G[i].synced BY <1>3, MemberOf
    <3>2. QED BY <3>1, <1>1, <1>3, <1>4, MemberOf
  <2>2. ASSUME NEW l \in SyncedIn(F) PROVE l \in SyncedIn(G)
    <3>1. PICK i \in 1 .. n : l \in F[i].synced BY <1>1, MemberOf
    <3>2. l \in G[i].synced BY <3>1, <1>3, <1>4, <1>5
    <3>3. QED BY <3>2, <1>3, MemberOf
  <2>3. r.synced \subseteq SyncedIn(G) BY <1>3, MemberOf
  <2>4. QED BY <2>1, <2>2, <2>3
<1>8. ASSUME NEW i \in 1 .. n, NEW j \in 1 .. n, i < j PROVE Before(G[i].ents, G[j].ents)
  <2>1. i # n /\ G[i] = F[i] BY <1>1, <1>4, <1>8
  <2>2. F[i].ents \subseteq EntsIn(F) BY <1>1, MemberOf
  <2>3. Before(F[i].ents, F[j].ents) BY <1>2, <1>8
  <2>4. CASE j # n BY <2>1, <2>3, <2>4, <1>4
  <2>5. CASE j = n
    <3>1. ASSUME NEW l \in F[i].ents, NEW b \in r.ents PROVE l < b
      <4>1. CASE b \in F[n].ents BY <4>1, <2>3, <2>5 DEF Before
      <4>2. CASE \A k \in EntsIn(F) : k < b BY <4>2, <2>2
      <4>3. QED BY <4>1, <4>2, <1>1
    <3>2. QED BY <3>1, <2>1, <2>5, <1>3 DEF Before
  <2>6. QED BY <2>4, <2>5
<1>9. ASSUME NEW i \in 1 .. n PROVE Prefix(G[i]) /\ (i < n => Closed(G[i]))
  <2>1. CASE i = n BY <2>1, <1>3
  <2>2. CASE i # n BY <2>2, <1>2, <1>4
  <2>3. QED BY <2>1, <2>2
<1>10. Sound(G) BY <1>3, <1>8, <1>9 DEF Sound
<1>11. QED BY <1>6, <1>7, <1>10

\* The three ways the last file changes.
File(e, s, m) == [ents |-> e, synced |-> s, maxlsn |-> m]

LEMMA WriteSound ==
  \A F, G, B :
    Sound(F) /\ B \in SUBSET Nat /\ (\A l \in EntsIn(F), b \in B : l < b)
      /\ G = [F EXCEPT ![Len(F)].ents = @ \cup B] =>
    Sound(G) /\ EntsIn(G) = EntsIn(F) \cup B /\ SyncedIn(G) = SyncedIn(F)
<1> SUFFICES ASSUME NEW F, NEW G, NEW B, Sound(F), B \in SUBSET Nat, \A l \in EntsIn(F), b \in B : l < b,
                    G = [F EXCEPT ![Len(F)].ents = @ \cup B]
             PROVE  Sound(G) /\ EntsIn(G) = EntsIn(F) \cup B /\ SyncedIn(G) = SyncedIn(F)
  OBVIOUS
<1>1. PICK n \in Nat : n = Len(F) /\ n >= 1 /\ DOMAIN F = 1 .. n /\ \A i \in 1 .. n : F[i] \in Files
  BY SoundFacts
<1>2. PICK f \in Files : f = F[n] BY <1>1
<1>0. PICK e : e = f.ents \cup B OBVIOUS
<1>3. PICK r : r = File(e, f.synced, f.maxlsn) OBVIOUS
<1>4. r.ents = f.ents \cup B /\ r.synced = f.synced /\ r \in Files
  BY <1>0, <1>3, FileFacts DEF File, Files
<1>5. G = [F EXCEPT ![Len(F)] = r]
  <2>1. [f EXCEPT !.ents = e] = r BY <1>3 DEF File, Files
  <2>4. G = [F EXCEPT ![Len(F)].ents = e] BY <1>0, <1>1, <1>2
  <2>2. n \in DOMAIN F BY <1>1
  <2>3. QED BY <2>1, <2>2, <2>4, <1>1, <1>2
<1>6. f.ents \subseteq EntsIn(F) /\ f.synced \subseteq SyncedIn(F)
  BY <1>1, <1>2, MemberOf
<1>7. Prefix(f) BY <1>1, <1>2 DEF Sound
<1>8. Prefix(r)
  <2>1. ASSUME NEW l \in r.ents, NEW s \in r.synced, l <= s PROVE l \in r.synced
    <3>1. s \in f.ents /\ s \in EntsIn(F) BY <1>4, <1>6, <1>7 DEF Prefix
    <3>2. CASE l \in f.ents BY <2>1, <3>2, <1>4, <1>7 DEF Prefix
    <3>3. CASE l \in B
      <4>1. s < l BY <3>1, <3>3
      <4>2. s \in Nat /\ l \in Nat BY <3>1, <3>3, SyncedPrefix
      <4>3. QED BY <4>1, <4>2, <2>1
    <3>4. QED BY <3>2, <3>3, <1>4
  <2>2. QED BY <2>1, <1>4, <1>7 DEF Prefix
<1>9. Len(F) = n /\ F[Len(F)] = f BY <1>1, <1>2
<1>10. /\ G \in Seq(Files) /\ G # <<>> /\ Len(G) = Len(F) /\ G[Len(F)] = r
       /\ \A i \in 1 .. Len(F) : i # Len(F) => G[i] = F[i]
  <2>1. r \in Files BY <1>4
  <2>2. QED BY ONLY <2>1, <1>5, Sound(F), LastChanged
<1>11. Sound(G) /\ EntsIn(G) = EntsIn(F) \cup r.ents /\ SyncedIn(G) = SyncedIn(F) \cup r.synced
  <2>1. \A b \in r.ents : b \in F[Len(F)].ents \/ \A l \in EntsIn(F) : l < b BY <1>4, <1>9
  <2>2. F[Len(F)].ents \subseteq r.ents /\ F[Len(F)].synced \subseteq r.synced BY <1>4, <1>9
  <2>3. QED BY ONLY <2>1, <2>2, <1>4, <1>8, <1>10, Sound(F), LastSound
<1>12. QED BY <1>4, <1>6, <1>11

\* The fsync of the last file leaves nothing unsynced.
LEMMA SyncSound ==
  \A F, G : Sound(F) /\ G = [F EXCEPT ![Len(F)].synced = F[Len(F)].ents] =>
    /\ Sound(G) /\ EntsIn(G) = EntsIn(F) /\ SyncedIn(G) = EntsIn(F)
    /\ Len(G) = Len(F) /\ G[Len(F)].synced = G[Len(F)].ents
<1> SUFFICES ASSUME NEW F, NEW G, Sound(F), G = [F EXCEPT ![Len(F)].synced = F[Len(F)].ents]
             PROVE  /\ Sound(G) /\ EntsIn(G) = EntsIn(F) /\ SyncedIn(G) = EntsIn(F)
                    /\ Len(G) = Len(F) /\ G[Len(F)].synced = G[Len(F)].ents
  OBVIOUS
<1>1. PICK n \in Nat : n = Len(F) /\ n >= 1 /\ DOMAIN F = 1 .. n /\ \A i \in 1 .. n : F[i] \in Files
  BY SoundFacts
<1>2. PICK f \in Files : f = F[n] BY <1>1
<1>3. PICK r : r = File(f.ents, f.ents, f.maxlsn) OBVIOUS
<1>4. r.ents = f.ents /\ r.synced = f.ents /\ r \in Files BY <1>3, FileFacts DEF File, Files
<1>5. G = [F EXCEPT ![Len(F)] = r]
  <2>1. [f EXCEPT !.synced = f.ents] = r BY <1>2, <1>3 DEF File, Files
  <2>2. n \in DOMAIN F BY <1>1
  <2>3. QED BY <2>1, <2>2, <1>1, <1>2
<1>6. f.ents \subseteq EntsIn(F) BY <1>1, <1>2, MemberOf
<1>7. Prefix(f) /\ \A i \in 1 .. n : i < n => Closed(F[i]) BY <1>1, <1>2 DEF Sound
<1>8. Prefix(r) BY <1>4 DEF Prefix
<1>9. Len(F) = n /\ F[Len(F)] = f BY <1>1, <1>2
<1>10. /\ G \in Seq(Files) /\ G # <<>> /\ Len(G) = Len(F) /\ G[Len(F)] = r
       /\ \A i \in 1 .. Len(F) : i # Len(F) => G[i] = F[i]
  BY ONLY <1>4, <1>5, Sound(F), LastChanged
<1>11. Sound(G) /\ EntsIn(G) = EntsIn(F) \cup r.ents /\ SyncedIn(G) = SyncedIn(F) \cup r.synced
  <2>1. \A b \in r.ents : b \in F[Len(F)].ents \/ \A l \in EntsIn(F) : l < b BY <1>4, <1>9
  <2>2. F[Len(F)].ents \subseteq r.ents /\ F[Len(F)].synced \subseteq r.synced BY <1>4, <1>7, <1>9 DEF Prefix
  <2>3. QED BY ONLY <2>1, <2>2, <1>4, <1>8, <1>10, Sound(F), LastSound
<1>12. EntsIn(F) \subseteq SyncedIn(F) \cup f.ents
  <2>1. ASSUME NEW l \in EntsIn(F), l \notin f.ents PROVE l \in SyncedIn(F)
    <3>1. PICK i \in 1 .. n : l \in F[i].ents BY <1>1, MemberOf
    <3>2. i < n BY <3>1, <2>1, <1>1, <1>2
    <3>3. l \in F[i].synced BY <3>1, <3>2, <1>7 DEF Closed
    <3>4. QED BY <3>3, <1>1, MemberOf
  <2>2. QED BY <2>1
<1>13. SyncedIn(F) \subseteq EntsIn(F) BY SyncedPrefix
<1>14. QED BY <1>4, <1>6, <1>10, <1>11, <1>12, <1>13

\* The last LSN that logfilemgr keeps of the last file has no part in this.
LEMMA MarkSound ==
  \A F, G, m : Sound(F) /\ m \in Nat /\ G = UpdateLastLsn(F, m) =>
    /\ Sound(G) /\ EntsIn(G) = EntsIn(F) /\ SyncedIn(G) = SyncedIn(F) /\ Len(G) = Len(F)
    /\ G[Len(F)] = File(F[Len(F)].ents, F[Len(F)].synced, m)
<1> SUFFICES ASSUME NEW F, NEW G, NEW m \in Nat, Sound(F), G = [F EXCEPT ![Len(F)].maxlsn = m]
             PROVE  /\ Sound(G) /\ EntsIn(G) = EntsIn(F) /\ SyncedIn(G) = SyncedIn(F) /\ Len(G) = Len(F)
                    /\ G[Len(F)] = File(F[Len(F)].ents, F[Len(F)].synced, m)
  BY DEF UpdateLastLsn
<1>1. PICK n \in Nat : n = Len(F) /\ n >= 1 /\ DOMAIN F = 1 .. n /\ \A i \in 1 .. n : F[i] \in Files
  BY SoundFacts
<1>2. PICK f \in Files : f = F[n] BY <1>1
<1>3. PICK r : r = File(f.ents, f.synced, m) OBVIOUS
<1>4. r.ents = f.ents /\ r.synced = f.synced /\ r \in Files BY <1>3, FileFacts DEF File, Files
<1>5. G = [F EXCEPT ![Len(F)] = r]
  <2>1. [f EXCEPT !.maxlsn = m] = r BY <1>2, <1>3 DEF File, Files
  <2>2. n \in DOMAIN F BY <1>1
  <2>3. QED BY <2>1, <2>2, <1>1, <1>2
<1>6. f.ents \subseteq EntsIn(F) /\ f.synced \subseteq SyncedIn(F) BY <1>1, <1>2, MemberOf
<1>7. Prefix(f) BY <1>1, <1>2 DEF Sound
<1>8. Prefix(r) BY <1>4, <1>7 DEF Prefix
<1>9. Len(F) = n /\ F[Len(F)] = f BY <1>1, <1>2
<1>10. /\ G \in Seq(Files) /\ G # <<>> /\ Len(G) = Len(F) /\ G[Len(F)] = r
       /\ \A i \in 1 .. Len(F) : i # Len(F) => G[i] = F[i]
  BY ONLY <1>4, <1>5, Sound(F), LastChanged
<1>11. Sound(G) /\ EntsIn(G) = EntsIn(F) \cup r.ents /\ SyncedIn(G) = SyncedIn(F) \cup r.synced
  <2>1. \A b \in r.ents : b \in F[Len(F)].ents \/ \A l \in EntsIn(F) : l < b BY <1>4, <1>9
  <2>2. F[Len(F)].ents \subseteq r.ents /\ F[Len(F)].synced \subseteq r.synced BY <1>4, <1>9
  <2>3. QED BY ONLY <2>1, <2>2, <1>4, <1>8, <1>10, Sound(F), LastSound
<1>12. QED BY <1>3, <1>4, <1>6, <1>9, <1>10, <1>11

\* A new file follows one that is synced and knows its last LSN.
LEMMA AddSound ==
  \A F, G, m : Sound(F) /\ m \in Nat /\ G = Append(F, NewFile(m)) /\ Closed(F[Len(F)]) =>
    Sound(G) /\ EntsIn(G) = EntsIn(F) /\ SyncedIn(G) = SyncedIn(F)
<1> SUFFICES ASSUME NEW F, NEW G, NEW m \in Nat, Sound(F), G = Append(F, NewFile(m)), Closed(F[Len(F)])
             PROVE  Sound(G) /\ EntsIn(G) = EntsIn(F) /\ SyncedIn(G) = SyncedIn(F)
  OBVIOUS
<1>1. PICK n \in Nat : n = Len(F) /\ n >= 1 /\ DOMAIN F = 1 .. n /\ \A i \in 1 .. n : F[i] \in Files
  BY SoundFacts
<1>2. NewFile(m) \in Files /\ NewFile(m).ents = {} /\ NewFile(m).synced = {}
  BY DEF NewFile, Files
<1>3. /\ G \in Seq(Files) /\ Len(G) = n + 1 /\ G # <<>> /\ DOMAIN G = 1 .. n + 1
      /\ \A i \in 1 .. n : G[i] = F[i]
      /\ G[n + 1].ents = {} /\ G[n + 1].synced = {}
  <2>1. F \in Seq(Files) BY DEF Sound
  <2>2. QED BY <2>1, <1>1, <1>2
<1>4. /\ \A i \in 1 .. n : Prefix(F[i]) /\ Closed(F[i])
      /\ \A i, j \in 1 .. n : i < j => Before(F[i].ents, F[j].ents)
  <2>1. \A i \in 1 .. n : i = n \/ i < n BY <1>1
  <2>2. QED BY <2>1, <1>1 DEF Sound
<1>5. \A i \in 1 .. n + 1 : i = n + 1 \/ i \in 1 .. n
  BY <1>1
<1>6. EntsIn(G) = EntsIn(F) /\ SyncedIn(G) = SyncedIn(F)
  <2>1. \A l : (\E i \in 1 .. n + 1 : l \in G[i].ents) <=> \E i \in 1 .. n : l \in F[i].ents
    BY <1>1, <1>3, <1>5
  <2>2. \A l : (\E i \in 1 .. n + 1 : l \in G[i].synced) <=> \E i \in 1 .. n : l \in F[i].synced
    BY <1>1, <1>3, <1>5
  <2>3. \A l : l \in EntsIn(G) <=> l \in EntsIn(F) BY <2>1, <1>1, <1>3, MemberOf
  <2>4. \A l : l \in SyncedIn(G) <=> l \in SyncedIn(F) BY <2>2, <1>1, <1>3, MemberOf
  <2>5. QED BY <2>3, <2>4
<1>7. ASSUME NEW i \in 1 .. n + 1, NEW j \in 1 .. n + 1, i < j PROVE Before(G[i].ents, G[j].ents)
  <2>1. CASE j = n + 1 BY <2>1, <1>3 DEF Before
  <2>2. CASE j # n + 1
    <3>1. i \in 1 .. n /\ j \in 1 .. n BY <2>2, <1>1, <1>7
    <3>2. QED BY <3>1, <1>3, <1>4, <1>7
  <2>3. QED BY <2>1, <2>2
<1>8. ASSUME NEW i \in 1 .. n + 1 PROVE Prefix(G[i]) /\ (i < n + 1 => Closed(G[i]))
  <2>1. CASE i = n + 1 BY <2>1, <1>3 DEF Prefix
  <2>2. CASE i \in 1 .. n BY <2>2, <1>3, <1>4
  <2>3. QED BY <2>1, <2>2, <1>5
<1>9. Sound(G)
  BY <1>3, <1>7, <1>8 DEF Sound
<1>10. QED BY <1>6, <1>9

\* The first file goes: it has the oldest entries.
LEMMA TrimSound ==
  \A F, G : Sound(F) /\ Len(F) > 1 /\ G = Tail(F) =>
    /\ Sound(G) /\ EntsIn(F) = F[1].ents \cup EntsIn(G) /\ SyncedIn(F) = F[1].ents \cup SyncedIn(G)
    /\ F[1] \in Files /\ Before(F[1].ents, EntsIn(G)) /\ \A l \in F[1].ents : l <= F[1].maxlsn
<1> SUFFICES ASSUME NEW F, NEW G, Sound(F), Len(F) > 1, G = Tail(F)
             PROVE  /\ Sound(G) /\ EntsIn(F) = F[1].ents \cup EntsIn(G)
                    /\ SyncedIn(F) = F[1].ents \cup SyncedIn(G)
                    /\ F[1] \in Files /\ Before(F[1].ents, EntsIn(G)) /\ \A l \in F[1].ents : l <= F[1].maxlsn
  OBVIOUS
<1>1. PICK n \in Nat : n = Len(F) /\ n > 1 /\ DOMAIN F = 1 .. n /\ \A i \in 1 .. n : F[i] \in Files
  BY SoundFacts
<1>2. /\ G \in Seq(Files) /\ Len(G) = n - 1 /\ G # <<>> /\ DOMAIN G = 1 .. n - 1
      /\ \A i \in 1 .. n - 1 : G[i] = F[i + 1]
  <2>1. F \in Seq(Files) /\ F # <<>> BY DEF Sound
  <2>2. G \in Seq(Files) /\ Len(G) = n - 1 BY <2>1, <1>1
  <2>3. \A i \in 1 .. n - 1 : G[i] = F[i + 1] BY <2>1, <1>1
  <2>4. DOMAIN G = 1 .. n - 1 BY ONLY <2>2
  <2>5. n - 1 # 0 BY <1>1
  <2>6. G # <<>> BY ONLY <2>2, <2>5
  <2>7. QED BY <2>2, <2>3, <2>4, <2>6
<1>3. /\ \A i \in 1 .. n : Prefix(F[i]) /\ (i < n => Closed(F[i]))
      /\ \A i, j \in 1 .. n : i < j => Before(F[i].ents, F[j].ents)
  BY <1>1 DEF Sound
<1>4. /\ \A i \in 1 .. n : i = 1 \/ (i - 1 \in 1 .. n - 1 /\ G[i - 1] = F[i])
      /\ \A i \in 1 .. n - 1 : i + 1 \in 1 .. n /\ 1 < i + 1 /\ (i < n - 1 => i + 1 < n)
      /\ 1 \in 1 .. n /\ 1 < n
  BY <1>1, <1>2
<1>5. PICK f \in Files : f = F[1] /\ Closed(f)
  BY <1>1, <1>3, <1>4
<1>6. EntsIn(F) = f.ents \cup EntsIn(G)
  <2>1. ASSUME NEW l \in EntsIn(F) PROVE l \in f.ents \cup EntsIn(G)
    <3>1. PICK i \in 1 .. n : l \in F[i].ents BY <1>1, MemberOf
    <3>2. CASE i = 1 BY <3>1, <3>2, <1>5
    <3>3. CASE i - 1 \in 1 .. n - 1 /\ G[i - 1] = F[i] BY <3>1, <3>3, <1>2, MemberOf
    <3>4. QED BY <3>2, <3>3, <1>4
  <2>2. ASSUME NEW l \in EntsIn(G) PROVE l \in EntsIn(F)
    <3>1. PICK i \in 1 .. n - 1 : l \in G[i].ents BY <1>2, MemberOf
    <3>2. l \in F[i + 1].ents /\ i + 1 \in 1 .. n BY <3>1, <1>2, <1>4
    <3>3. QED BY <3>2, <1>1, MemberOf
  <2>3. f.ents \subseteq EntsIn(F) BY <1>1, <1>4, <1>5, MemberOf
  <2>4. QED BY <2>1, <2>2, <2>3
<1>7. SyncedIn(F) = f.ents \cup SyncedIn(G)
  <2>0. f.synced = f.ents BY <1>5 DEF Closed
  <2>1. ASSUME NEW l \in SyncedIn(F) PROVE l \in f.ents \cup SyncedIn(G)
    <3>1. PICK i \in 1 .. n : l \in F[i].synced BY <1>1, MemberOf
    <3>2. CASE i = 1 BY <3>1, <3>2, <1>5, <2>0
    <3>3. CASE i - 1 \in 1 .. n - 1 /\ G[i - 1] = F[i] BY <3>1, <3>3, <1>2, MemberOf
    <3>4. QED BY <3>2, <3>3, <1>4
  <2>2. ASSUME NEW l \in SyncedIn(G) PROVE l \in SyncedIn(F)
    <3>1. PICK i \in 1 .. n - 1 : l \in G[i].synced BY <1>2, MemberOf
    <3>2. l \in F[i + 1].synced /\ i + 1 \in 1 .. n BY <3>1, <1>2, <1>4
    <3>3. QED BY <3>2, <1>1, MemberOf
  <2>3. f.ents \subseteq SyncedIn(F) BY <2>0, <1>1, <1>4, <1>5, MemberOf
  <2>4. QED BY <2>1, <2>2, <2>3
<1>8. Before(f.ents, EntsIn(G))
  <2> SUFFICES ASSUME NEW a \in f.ents, NEW b \in EntsIn(G) PROVE a < b
    BY DEF Before
  <2>1. PICK i \in 1 .. n - 1 : b \in G[i].ents BY <1>2, MemberOf
  <2>2. b \in F[i + 1].ents /\ i + 1 \in 1 .. n /\ 1 < i + 1 BY <2>1, <1>2, <1>4
  <2>3. QED BY <2>2, <1>3, <1>4, <1>5 DEF Before
<1>9. ASSUME NEW i \in 1 .. n - 1, NEW j \in 1 .. n - 1, i < j PROVE Before(G[i].ents, G[j].ents)
  <2>1. i + 1 \in 1 .. n /\ j + 1 \in 1 .. n /\ i + 1 < j + 1 BY <1>1, <1>9
  <2>2. QED BY <2>1, <1>2, <1>3
<1>10. ASSUME NEW i \in 1 .. n - 1 PROVE Prefix(G[i]) /\ (i < n - 1 => Closed(G[i]))
  BY <1>2, <1>3, <1>4
<1>11. Sound(G)
  BY <1>2, <1>9, <1>10 DEF Sound
<1>12. QED BY <1>5, <1>6, <1>7, <1>8, <1>11 DEF Closed

\* After a crash each file has what was left of it.
LEMMA CrashSound ==
  ASSUME NEW F, NEW H, NEW left \in SUBSET EntsIn(F), Sound(F), H \in [1 .. Len(F) -> Files],
         \A i \in 1 .. Len(F) : /\ H[i].ents = F[i].ents \cap left /\ H[i].synced = H[i].ents
                                /\ \A l \in H[i].ents : l <= H[i].maxlsn
  PROVE  Sound(H) /\ EntsIn(H) = left /\ SyncedIn(H) = left /\ Closed(H[Len(H)])
<1>1. PICK n \in Nat : n = Len(F) /\ n >= 1 /\ DOMAIN F = 1 .. n /\ \A i \in 1 .. n : F[i] \in Files
  BY SoundFacts
<1>2. H \in Seq(Files) /\ Len(H) = n /\ H # <<>> /\ DOMAIN H = 1 .. n
  BY <1>1
<1>3. \A i, j \in 1 .. n : i < j => Before(F[i].ents, F[j].ents)
  BY <1>1 DEF Sound
<1>4. \A i \in 1 .. n : /\ H[i].ents = F[i].ents \cap left /\ H[i].synced = H[i].ents
                        /\ \A l \in H[i].ents : l <= H[i].maxlsn
  BY <1>1
<1>5. EntsIn(H) = left /\ SyncedIn(H) = left
  <2>1. \A l : l \in EntsIn(H) <=> l \in left BY <1>1, <1>2, <1>4, MemberOf
  <2>2. \A l : l \in SyncedIn(H) <=> l \in EntsIn(H) BY <1>2, <1>4, MemberOf
  <2>3. QED BY <2>1, <2>2
<1>6. \A i \in 1 .. n : Prefix(H[i]) /\ Closed(H[i])
  BY <1>4 DEF Prefix, Closed
<1>7. \A i, j \in 1 .. n : i < j => Before(H[i].ents, H[j].ents)
  BY <1>3, <1>4 DEF Before
<1>8. n \in 1 .. n BY <1>1
<1>9. Sound(H) BY <1>2, <1>6, <1>7 DEF Sound
<1>10. QED BY <1>2, <1>5, <1>6, <1>8, <1>9

-----------------------------------------------------------------------------
(* The log as a whole *)

PCs   == {"idle", "space", "spaceIn", "spaceWrite", "spaceRotate", "spaceDone",
          "fsync", "swap", "write", "rotate", "sync", "trim", "trimming"}
Kinds == {"none", "plain", "begin", "end", "header", "flush"}
Calls == [kind : Kinds, sync : BOOLEAN, want : Nat, seen : Nat, owed : Nat]

LEMMA Types ==
  ASSUME TypeOK
  PROVE  /\ lsn \in Nat /\ written \in Nat /\ fsynced \in Nat /\ fsynced <= written /\ written <= lsn
         /\ inbuf \in SUBSET Nat /\ outbuf \in SUBSET Nat /\ inMax \in Nat /\ outMax \in Nat
         /\ inMax <= lsn /\ outMax <= lsn
         /\ completed \in Nat /\ ckBegin \in Nat /\ completed <= lsn /\ ckBegin <= lsn
         /\ began \in Seq(Nat) /\ pc \in [Threads -> PCs] /\ call \in [Threads -> Calls]
         /\ acked \in Nat /\ trimmed \in Nat /\ crashes \in Nat
         /\ files \in Seq(Files) /\ files # <<>>
BY DEF TypeOK, PCs, Kinds, Calls

LEMMA FrontType == TypeOK => Front \in Nat
BY DEF TypeOK, Front

LEMMA CallFields ==
  ASSUME NEW c \in Calls
  PROVE  c.kind \in Kinds /\ c.sync \in BOOLEAN /\ c.want \in Nat /\ c.seen \in Nat /\ c.owed \in Nat
BY DEF Calls

LEMMA NoCallFields ==
  NoCall \in Calls /\ NoCall.kind = "none" /\ NoCall.seen = 0 /\ NoCall.want = 0
BY DEF NoCall, Call, Calls, Kinds

LEMMA CallMade ==
  ASSUME NEW k \in Kinds, NEW s \in BOOLEAN, NEW w \in Nat, NEW o \in Nat
  PROVE  /\ Call(k, s, w, o) \in Calls /\ Call(k, s, w, o).kind = k /\ Call(k, s, w, o).sync = s
         /\ Call(k, s, w, o).want = w /\ Call(k, s, w, o).seen = 0
BY DEF Call, Calls

\* What one thread does leaves the others where they were.
LEMMA MoveFacts ==
  ASSUME NEW t \in Threads, NEW p \in PCs, pc \in [Threads -> PCs], Move(t, p)
  PROVE  pc' \in [Threads -> PCs] /\ pc'[t] = p /\ \A u \in Threads : u # t => pc'[u] = pc[u]
BY DEF Move

LEMMA CallSet ==
  \A t, c, f, g : t \in Threads /\ c \in Calls /\ f \in [Threads -> Calls] /\ g = [f EXCEPT ![t] = c] =>
    g \in [Threads -> Calls] /\ g[t] = c /\ \A u \in Threads : u # t => g[u] = f[u]
OBVIOUS

WithSeen(f, t, v) == [f EXCEPT ![t].seen = v]

LEMMA SeenSet ==
  \A t, v, f, g : t \in Threads /\ v \in Nat /\ f \in [Threads -> Calls] /\ g = WithSeen(f, t, v) =>
    /\ g \in [Threads -> Calls] /\ g[t].seen = v /\ g[t].kind = f[t].kind /\ g[t].want = f[t].want
    /\ \A u \in Threads : u # t => g[u] = f[u]
<1> SUFFICES ASSUME NEW t \in Threads, NEW v \in Nat, NEW f \in [Threads -> Calls], NEW g,
                    g = [f EXCEPT ![t].seen = v]
             PROVE  /\ g \in [Threads -> Calls] /\ g[t].seen = v /\ g[t].kind = f[t].kind /\ g[t].want = f[t].want
                    /\ \A u \in Threads : u # t => g[u] = f[u]
  BY DEF WithSeen
<1>1. PICK c \in Calls : c = f[t] OBVIOUS
<1>2. PICK d : d = [kind |-> c.kind, sync |-> c.sync, want |-> c.want, seen |-> v, owed |-> c.owed]
  OBVIOUS
<1>3. d = [c EXCEPT !.seen = v] BY <1>2 DEF Calls
<1>4. d \in Calls /\ d.seen = v /\ d.kind = c.kind /\ d.want = c.want BY <1>2, CallFields DEF Calls
<1>5. g = [f EXCEPT ![t] = d] BY <1>1, <1>3
<1>6. QED BY ONLY <1>1, <1>4, <1>5, t \in Threads, f \in [Threads -> Calls], CallSet

\* The types but for those of functions and sequences
Plain ==
  /\ lsn \in Nat /\ written \in 0 .. lsn /\ fsynced \in 0 .. written
  /\ inbuf \in SUBSET (1 .. lsn) /\ outbuf \in SUBSET (1 .. lsn)
  /\ inMax \in 0 .. lsn /\ outMax \in 0 .. lsn
  /\ inputLock \in Threads \cup {None} /\ available \in BOOLEAN /\ asleep \in SUBSET Threads
  /\ completed \in 0 .. lsn /\ ckBegin \in 0 .. lsn /\ {acked, trimmed, crashes} \subseteq Nat

LEMMA PlainTypes == TypeOK => Plain /\ began \in Seq(Nat)
BY DEF TypeOK, Plain

LEMMA TypesAfter ==
  ASSUME Plain', began' \in Seq(Nat), pc' \in [Threads -> PCs], call' \in [Threads -> Calls],
         files' \in Seq(Files), files' # <<>>
  PROVE  TypeOK'
BY DEF TypeOK, Plain, PCs, Calls, Kinds

LEMMA Views ==
  ASSUME files \in Seq(Files), files # <<>>, FilesExact
  PROVE  Sound(files) /\ InFiles = EntsIn(files) /\ Synced = SyncedIn(files)
<1>1. DOMAIN files = 1 .. Len(files) OBVIOUS
<1>2. Sound(files) BY <1>1 DEF Sound, FilesExact, Prefix, Closed
<1>3. QED BY <1>2 DEF InFiles, Synced, EntsIn, SyncedIn

LEMMA ViewsAfter ==
  ASSUME Sound(files')
  PROVE  /\ files' \in Seq(Files) /\ files' # <<>> /\ FilesExact'
         /\ InFiles' = EntsIn(files') /\ Synced' = SyncedIn(files')
<1>1. files' \in Seq(Files) /\ files' # <<>> BY DEF Sound
<1>2. DOMAIN files' = 1 .. Len(files') BY <1>1
<1>3. FilesExact' BY <1>2 DEF Sound, FilesExact, Prefix, Closed
<1>4. QED BY <1>1, <1>3 DEF InFiles, Synced, EntsIn, SyncedIn

LEMMA Kept ==
  ASSUME LoggerInv, files' = files
  PROVE  InFiles' = InFiles /\ Synced' = Synced /\ FilesExact' /\ files' \in Seq(Files) /\ files' # <<>>
BY DEF LoggerInv, FilesExact, InFiles, Synced, TypeOK

\* The synced entries are a prefix of the written ones.
LEMMA SyncedFacts ==
  ASSUME LoggerInv
  PROVE  /\ Synced \subseteq InFiles /\ InFiles = trimmed + 1 .. written
         /\ \A l \in InFiles, s \in Synced : l <= s => l \in Synced
         /\ \A e \in Synced : e \in Nat /\ e > trimmed /\ e <= written /\ e \in 1 .. lsn
<1>1. Sound(files) /\ InFiles = EntsIn(files) /\ Synced = SyncedIn(files)
  BY Views DEF LoggerInv, TypeOK
<1>2. Synced \subseteq InFiles /\ \A l \in InFiles, s \in Synced : l <= s => l \in Synced
  BY <1>1, SyncedPrefix
<1>3. InFiles = trimmed + 1 .. written BY DEF LoggerInv, Segments
<1>4. trimmed \in Nat /\ written \in Nat /\ lsn \in Nat /\ written <= lsn BY Types DEF LoggerInv
<1>5. QED BY <1>2, <1>3, <1>4

-----------------------------------------------------------------------------
(* Putting an entry into the inbuf *)

Asked(t, o) ==
  /\ o \in Calls /\ (o.kind \in {"begin", "end"} => t = Checkpointer)
  /\ (o.kind = "end" => ckBegin # 0)

LEMMA PutTypes ==
  ASSUME LoggerInv, NEW t \in Threads, NEW o, Asked(t, o), PutEntry(t, o)
  PROVE  /\ lsn' \in Nat /\ lsn' = lsn + 1 /\ inMax' = lsn'
         /\ inbuf' = inbuf \cup {lsn'} /\ ckBegin' \in Nat /\ ckBegin' <= lsn'
         /\ began' \in Seq(Nat) /\ Len(began') = lsn' /\ \A l \in 1 .. lsn : began'[l] = began[l]
         /\ began'[lsn'] = IF o.kind = "end" THEN ckBegin ELSE 0
         /\ pc' \in [Threads -> PCs] /\ pc'[t] \in {"fsync", "idle"}
         /\ \A u \in Threads : u # t => pc'[u] = pc[u]
         /\ call' \in [Threads -> Calls] /\ \A u \in Threads : u # t => call'[u] = call[u]
         /\ pc'[t] = "fsync" => call'[t].want = lsn'
         /\ call'[t].kind = "none" \/ (call'[t].kind = o.kind /\ call'[t].want = lsn')
         /\ inputLock' = None
<1>1. /\ lsn \in Nat /\ ckBegin \in Nat /\ ckBegin <= lsn /\ began \in Seq(Nat) /\ Len(began) = lsn
      /\ pc \in [Threads -> PCs] /\ call \in [Threads -> Calls]
  BY Types DEF LoggerInv, Checkpoints
<1>2. o \in Calls /\ o.kind \in Kinds BY CallFields DEF Asked
<1>3. /\ lsn' = lsn + 1 /\ inMax' = lsn' /\ inbuf' = inbuf \cup {lsn'} /\ inputLock' = None
      /\ ckBegin' = IF o.kind = "begin" THEN lsn + 1 ELSE ckBegin
  BY DEF PutEntry
<1>4. lsn' \in Nat /\ ckBegin' \in Nat /\ ckBegin' <= lsn' BY <1>1, <1>3
<1>5. PICK b \in Nat : began' = Append(began, b) /\ b = IF o.kind = "end" THEN ckBegin ELSE 0
  BY <1>1 DEF PutEntry
<1>6. /\ began' \in Seq(Nat) /\ Len(began') = lsn' /\ \A l \in 1 .. lsn : began'[l] = began[l]
      /\ began'[lsn'] = b
  BY <1>1, <1>3, <1>5
<1>7. PICK p \in PCs : Move(t, p) /\ p \in {"fsync", "idle"} /\ (p = "fsync" => o.sync)
  BY DEF PutEntry, PCs
<1>8. PICK c \in Calls : /\ call' = [call EXCEPT ![t] = c] /\ (o.sync => c.want = lsn')
                         /\ c.kind = "none" \/ (c.kind = o.kind /\ c.want = lsn')
  <2>1. CASE o.sync
    <3>1. call' = [call EXCEPT ![t] = Call(o.kind, TRUE, lsn + 1, 0)] BY <2>1 DEF PutEntry
    <3>2. lsn + 1 \in Nat BY <1>1
    <3>3. PICK c : c = Call(o.kind, TRUE, lsn + 1, 0) OBVIOUS
    <3>4. c \in Calls /\ c.kind = o.kind /\ c.want = lsn + 1 BY <3>2, <3>3, <1>2 DEF Call, Calls
    <3>5. call' = [call EXCEPT ![t] = c] BY <3>1, <3>3
    <3>6. QED BY <3>4, <3>5, <1>3
  <2>2. CASE ~ o.sync
    <3>1. call' = [call EXCEPT ![t] = NoCall] BY <2>2 DEF PutEntry
    <3>2. QED BY <3>1, <2>2, NoCallFields
  <2>3. QED BY <2>1, <2>2
<1>9. call' \in [Threads -> Calls] /\ call'[t] = c /\ \A u \in Threads : u # t => call'[u] = call[u]
  BY ONLY <1>8, <1>1, t \in Threads, CallSet
<1>10. pc' \in [Threads -> PCs] /\ pc'[t] = p /\ \A u \in Threads : u # t => pc'[u] = pc[u]
  BY <1>1, <1>7, MoveFacts
<1>11. QED BY <1>3, <1>4, <1>5, <1>6, <1>7, <1>8, <1>9, <1>10

LEMMA PutSegments ==
  ASSUME LoggerInv, NEW t \in Threads, NEW o, Asked(t, o), PutEntry(t, o),
         UNCHANGED <<outbuf, outMax, written, files, trimmed>>
  PROVE  Segments'
<1>1. lsn' = lsn + 1 /\ inMax' = lsn' /\ inbuf' = inbuf \cup {lsn'} BY PutTypes
<1>2. InFiles' = InFiles BY Kept
<1>3. Front' = Front BY DEF Front
<1>4. lsn \in Nat /\ written \in Nat /\ trimmed \in Nat /\ Front \in Nat BY Types, FrontType DEF LoggerInv
<1>5. /\ InFiles = trimmed + 1 .. written /\ outbuf = written + 1 .. Front /\ inbuf = Front + 1 .. lsn
      /\ trimmed <= written /\ written <= Front /\ Front <= lsn
  BY DEF LoggerInv, Segments
<1>6. inbuf' = Front + 1 .. lsn' BY <1>1, <1>4, <1>5
<1>7. QED BY <1>1, <1>2, <1>3, <1>4, <1>5, <1>6 DEF Segments

LEMMA PutCheckpoints ==
  ASSUME LoggerInv, NEW t \in Threads, NEW o, Asked(t, o), PutEntry(t, o),
         UNCHANGED <<files, completed, trimmed>>
  PROVE  Checkpoints'
<1>1. /\ lsn' \in Nat /\ lsn' = lsn + 1 /\ lsn \in Nat /\ ckBegin' \in Nat /\ ckBegin \in Nat /\ ckBegin <= lsn
      /\ Len(began') = lsn' /\ \A l \in 1 .. lsn : began'[l] = began[l]
      /\ began'[lsn'] = IF o.kind = "end" THEN ckBegin ELSE 0
      /\ pc'[t] \in {"fsync", "idle"} /\ \A u \in Threads : u # t => pc'[u] = pc[u] /\ call'[u] = call[u]
      /\ call'[t].kind = "none" \/ (call'[t].kind = o.kind /\ call'[t].want = lsn')
  BY PutTypes, Types DEF LoggerInv
<1>2. ckBegin' = IF o.kind = "begin" THEN lsn' ELSE ckBegin BY <1>1 DEF PutEntry
<1>3. /\ o.kind \in {"begin", "end"} => t = Checkpointer
      /\ o.kind = "end" => ckBegin # 0
  BY DEF Asked
<1>4. \A l \in 1 .. lsn : began[l] \in Nat /\ began[l] < l /\ (ckBegin # 0 => began[l] <= ckBegin)
  BY Types DEF LoggerInv, Checkpoints
<1>5. \A k, l \in 1 .. lsn : k < l /\ began[k] # 0 /\ began[l] # 0 => began[k] <= began[l]
  BY DEF LoggerInv, Checkpoints
<1>6. \A l \in 1 .. lsn' : l \in 1 .. lsn \/ l = lsn' BY <1>1
<1>7. \A l \in 1 .. lsn' : began'[l] \in Nat /\ began'[l] < l /\ (ckBegin' # 0 => began'[l] <= ckBegin')
  <2> SUFFICES ASSUME NEW l \in 1 .. lsn'
               PROVE  began'[l] \in Nat /\ began'[l] < l /\ (ckBegin' # 0 => began'[l] <= ckBegin')
    OBVIOUS
  <2>1. CASE l = lsn' BY <2>1, <1>1, <1>2, <1>3
  <2>2. CASE l \in 1 .. lsn
    <3>1. began'[l] = began[l] /\ began[l] \in Nat /\ began[l] < l /\ (ckBegin # 0 => began[l] <= ckBegin)
      BY <2>2, <1>1, <1>4
    <3>2. l \in Nat /\ l <= lsn BY <2>2
    <3>3. QED BY <3>1, <3>2, <1>1, <1>2
  <2>3. QED BY <2>1, <2>2, <1>6
<1>8. ASSUME NEW k \in 1 .. lsn', NEW l \in 1 .. lsn', k < l, began'[k] # 0, began'[l] # 0
      PROVE  began'[k] <= began'[l]
  <2>0. k \in 1 .. lsn /\ began'[k] = began[k] /\ began[k] \in Nat
    <3>1. k \in 1 .. lsn BY <1>1, <1>8
    <3>2. QED BY <3>1, <1>1, <1>4
  <2>1. CASE l = lsn'
    <3>1. began'[l] = ckBegin /\ ckBegin # 0 BY <2>1, <1>1, <1>8
    <3>2. began[k] <= ckBegin BY <3>1, <2>0, <1>4
    <3>3. QED BY <3>1, <3>2, <2>0
  <2>2. CASE l \in 1 .. lsn
    <3>1. began'[l] = began[l] BY <2>2, <1>1
    <3>2. QED BY <3>1, <2>0, <2>2, <1>5, <1>8
  <2>3. QED BY <2>1, <2>2, <1>6
<1>9. ASSUME NEW u \in Threads
      PROVE  /\ call'[u].kind \in {"begin", "end"} \/ pc'[u] \in {"trim", "trimming"} => u = Checkpointer
             /\ call'[u].kind = "end" => ckBegin' # 0
             /\ call'[u].kind = "end" /\ pc'[u] \in {"fsync", "swap", "write", "rotate", "sync"} =>
                  call'[u].want \in 1 .. lsn' /\ began'[call'[u].want] = ckBegin'
  <2>1. CASE u = t
    <3>1. pc'[u] \notin {"trim", "trimming"} BY <2>1, <1>1
    <3>2. call'[u].kind = "none" \/ (call'[u].kind = o.kind /\ call'[u].want = lsn') BY <2>1, <1>1
    <3>3. lsn' \in 1 .. lsn' BY <1>1
    <3>4. QED BY <3>1, <3>2, <3>3, <2>1, <1>1, <1>2, <1>3
  <2>2. CASE u # t
    <3>1. pc'[u] = pc[u] /\ call'[u] = call[u] BY <2>2, <1>1
    <3>2. /\ call[u].kind \in {"begin", "end"} \/ pc[u] \in {"trim", "trimming"} => u = Checkpointer
          /\ call[u].kind = "end" => ckBegin # 0
          /\ call[u].kind = "end" /\ pc[u] \in {"fsync", "swap", "write", "rotate", "sync"} =>
               call[u].want \in 1 .. lsn /\ began[call[u].want] = ckBegin
      BY DEF LoggerInv, Checkpoints
    <3>3. call[u].kind = "end" => ckBegin' = ckBegin BY <2>2, <3>2, <1>2, <1>3
    <3>4. 1 .. lsn \subseteq 1 .. lsn' BY <1>1
    <3>5. QED BY <3>1, <3>2, <3>3, <3>4, <1>1
  <2>3. QED BY <2>1, <2>2
<1>10. Synced' = Synced /\ \A e \in Synced : began'[e] = began[e]
  BY Kept, SyncedFacts, <1>1
<1>11. /\ completed' # 0 => \E e \in Synced' : began'[e] >= completed'
       /\ trimmed' # 0 => \E e \in Synced' : began'[e] > trimmed'
  BY <1>10 DEF LoggerInv, Checkpoints
<1>12. QED BY <1>1, <1>7, <1>8, <1>9, <1>11 DEF Checkpoints

-----------------------------------------------------------------------------
(* The permission to modify the output *)

\* Who has it is the only one, and nothing is in the outbuf but what this one is to write.
LEMMA Owner ==
  ASSUME LoggerInv, NEW t \in Threads, pc[t] \in HasOutput
  PROVE  /\ ~ available /\ \A u \in Threads : u # t => pc[u] \notin HasOutput
         /\ outbuf # {} => pc[t] \in {"spaceWrite", "write"}
         /\ call[t].seen \in Nat /\ call[t].seen <= written /\ Durable(call[t].seen)
<1>1. ~ available /\ \A u \in Threads : pc[u] \in HasOutput => u = t BY DEF LoggerInv, OneWriter
<1>2. \A u \in Threads : pc[u] \in {"spaceWrite", "write"} => u = t BY <1>1 DEF HasOutput, HasInput
<1>3. outbuf # {} => pc[t] \in {"spaceWrite", "write"} BY <1>2 DEF LoggerInv, OneWriter
<1>4. call[t].seen \in Nat BY Types, CallFields DEF LoggerInv
<1>5. QED BY <1>1, <1>3, <1>4 DEF LoggerInv, Promises

LEMMA Released ==
  ASSUME LoggerInv, NEW l \in Nat, l <= written, ReleaseOutput(l)
  PROVE  /\ available' = TRUE /\ asleep' = {} /\ fsynced' \in Nat /\ fsynced' >= fsynced /\ fsynced' >= l
         /\ fsynced' <= written /\ (fsynced' = l \/ fsynced' = fsynced)
<1>1. fsynced \in Nat /\ fsynced <= written /\ written \in Nat BY Types DEF LoggerInv
<1>2. fsynced' = Max({fsynced, l}) /\ available' = TRUE /\ asleep' = {} BY DEF ReleaseOutput
<1>3. PICK m : m = Max({fsynced, l}) OBVIOUS
<1>4. m \in Int /\ (m = fsynced \/ m = l) /\ m >= fsynced /\ m >= l BY <1>1, <1>3, MaxOfTwo
<1>5. QED BY <1>1, <1>2, <1>3, <1>4

\* The others do not move.
OthersWait(t) == \A u \in Threads : u # t => pc'[u] = pc[u] /\ call'[u] = call[u]

LEMMA OutsiderMoves ==
  ASSUME LoggerInv, NEW t \in Threads, OthersWait(t), pc[t] \notin HasOutput, pc'[t] \notin HasOutput,
         available' = available, inputLock' = inputLock, outbuf' = outbuf
  PROVE  OneWriter'
<1>1. OneWriter BY DEF LoggerInv
<1>2. \A u \in Threads : pc'[u] \in HasOutput => pc[u] \in HasOutput /\ pc'[u] = pc[u] BY DEF OthersWait
<1>3. \A u \in Threads : pc'[u] \in HasInput <=> pc[u] \in HasInput BY DEF OthersWait, HasOutput
<1>4. \A u \in Threads : pc[u] \in {"spaceWrite", "write"} => pc'[u] = pc[u] BY DEF OthersWait, HasOutput, HasInput
<1>5. QED BY <1>1, <1>2, <1>3, <1>4 DEF OneWriter

LEMMA OutputGrabbed ==
  ASSUME LoggerInv, NEW t \in Threads, OthersWait(t), available, pc'[t] \in HasOutput \ HasInput,
         available' = FALSE, inputLock' = inputLock, outbuf' = outbuf
  PROVE  OneWriter'
<1>1. OneWriter BY DEF LoggerInv
<1>2. \A u \in Threads : pc[u] \notin HasOutput BY <1>1 DEF OneWriter
<1>3. \A u \in Threads : pc'[u] \in HasOutput => u = t BY <1>2 DEF OthersWait
<1>4. \A u \in Threads : pc'[u] \notin HasInput /\ pc[u] \notin HasInput BY <1>2 DEF OthersWait, HasOutput
<1>5. outbuf = {} BY <1>1, <1>2 DEF OneWriter, HasOutput, HasInput
<1>6. QED BY <1>1, <1>3, <1>4, <1>5 DEF OneWriter

LEMMA OwnerMoves ==
  ASSUME LoggerInv, NEW t \in Threads, OthersWait(t), pc[t] \in HasOutput, pc'[t] \in HasOutput,
         available' = available, inputLock' = IF pc'[t] \in HasInput THEN t ELSE inputLock,
         inputLock = t => pc'[t] \in HasInput, inputLock \in {None, t} \/ pc'[t] \notin HasInput,
         outbuf' # {} => pc'[t] \in {"spaceWrite", "write"}
  PROVE  OneWriter'
<1>1. OneWriter /\ None \notin Threads BY LoggerAssumption DEF LoggerInv
<1>2. ~ available /\ \A u \in Threads : u # t => pc[u] \notin HasOutput BY Owner
<1>3. \A u \in Threads : pc'[u] \in HasOutput => u = t BY <1>2 DEF OthersWait
<1>4. \A u \in Threads : u # t => pc'[u] \notin HasInput /\ pc[u] \notin HasInput BY <1>2 DEF OthersWait, HasOutput
<1>5. \A u \in Threads : u # t => inputLock # u /\ inputLock' # u BY <1>1, <1>4 DEF OneWriter
<1>6. inputLock' = t <=> pc'[t] \in HasInput BY <1>1 DEF OneWriter
<1>7. QED BY <1>2, <1>3, <1>4, <1>5, <1>6 DEF OneWriter

LEMMA OutputReleased ==
  ASSUME LoggerInv, NEW t \in Threads, OthersWait(t), pc[t] \in HasOutput \ {"spaceWrite", "write"},
         pc'[t] \notin HasOutput, outbuf' = outbuf,
         (inputLock' = inputLock /\ pc[t] \notin HasInput) \/ inputLock' = None
  PROVE  OneWriter'
<1>1. OneWriter /\ None \notin Threads BY LoggerAssumption DEF LoggerInv
<1>2. outbuf = {} /\ \A u \in Threads : u # t => pc[u] \notin HasOutput BY Owner
<1>3. \A u \in Threads : pc'[u] \notin HasOutput BY <1>2 DEF OthersWait
<1>4. \A u \in Threads : pc'[u] \notin HasInput BY <1>3 DEF HasOutput
<1>5. \A u \in Threads : inputLock' # u BY <1>1, <1>2 DEF OneWriter, HasOutput
<1>6. QED BY <1>2, <1>3, <1>4, <1>5 DEF OneWriter

\* Durable, in a later state
StillDurable(l) == \A k \in 1 .. l : k <= trimmed' \/ k \in Synced'

LEMMA DurableStays ==
  ASSUME NEW l, Durable(l), trimmed' = trimmed, Synced \subseteq Synced'
  PROVE  StillDurable(l)
BY DEF Durable, StillDurable

\* A thread's own promises, after its step
Keeps(u) ==
  /\ pc'[u] \in HasOutput => call'[u].seen <= written' /\ StillDurable(call'[u].seen)
  /\ pc'[u] \in {"fsync", "swap"} => call'[u].want <= lsn'
  /\ pc'[u] = "write" => call'[u].want <= Front'
  /\ pc'[u] \in {"rotate", "sync"} => call'[u].want <= written'

LEMMA PromisesKept ==
  ASSUME LoggerInv, NEW t \in Threads, OthersWait(t), trimmed' = trimmed, Synced \subseteq Synced',
         lsn' \in Nat, lsn <= lsn', written' \in Nat, written <= written', Front' \in Nat, Front <= Front',
         acked' <= fsynced', StillDurable(fsynced'), Keeps(t)
  PROVE  Promises'
<1>0. lsn \in Nat /\ written \in Nat /\ Front \in Nat BY Types, FrontType DEF LoggerInv
<1>1. ASSUME NEW u \in Threads PROVE Keeps(u)
  <2>1. CASE u = t BY <2>1
  <2>2. CASE u # t
    <3>1. pc'[u] = pc[u] /\ call'[u] = call[u] BY <2>2 DEF OthersWait
    <3>2. call[u].want \in Nat /\ call[u].seen \in Nat BY Types, CallFields DEF LoggerInv
    <3>3. /\ pc[u] \in HasOutput => call[u].seen <= written /\ Durable(call[u].seen)
          /\ pc[u] \in {"fsync", "swap"} => call[u].want <= lsn
          /\ pc[u] = "write" => call[u].want <= Front
          /\ pc[u] \in {"rotate", "sync"} => call[u].want <= written
      BY DEF LoggerInv, Promises
    <3>4. /\ call[u].seen <= written => call[u].seen <= written'
          /\ call[u].want <= lsn => call[u].want <= lsn'
          /\ call[u].want <= Front => call[u].want <= Front'
          /\ call[u].want <= written => call[u].want <= written'
      BY <3>2, <1>0
    <3>5. Durable(call[u].seen) => StillDurable(call[u].seen) BY DurableStays
    <3>6. QED BY <3>1, <3>2, <3>3, <3>4, <3>5, <1>0 DEF Keeps
  <2>3. QED BY <2>1, <2>2
<1>2. QED BY <1>1 DEF Promises, Keeps, StillDurable, Durable

\* A checkpoint's state, where a step neither logs, notes a checkpoint nor trims
InCheckpoint(u) ==
  /\ call'[u].kind \in {"begin", "end"} \/ pc'[u] \in {"trim", "trimming"} => u = Checkpointer
  /\ call'[u].kind = "end" => ckBegin' # 0
  /\ call'[u].kind = "end" /\ pc'[u] \in {"fsync", "swap", "write", "rotate", "sync"} =>
       call'[u].want \in 1 .. lsn' /\ began'[call'[u].want] = ckBegin'

LEMMA CheckpointsKept ==
  ASSUME LoggerInv, NEW t \in Threads, OthersWait(t), UNCHANGED <<lsn, began, ckBegin, completed, trimmed>>,
         Synced \subseteq Synced', InCheckpoint(t)
  PROVE  Checkpoints'
<1>1. Checkpoints BY DEF LoggerInv
<1>2. ASSUME NEW u \in Threads PROVE InCheckpoint(u)
  <2>1. CASE u = t BY <2>1
  <2>2. CASE u # t
    <3>1. pc'[u] = pc[u] /\ call'[u] = call[u] BY <2>2 DEF OthersWait
    <3>2. QED BY <3>1, <1>1 DEF Checkpoints, InCheckpoint
  <2>3. QED BY <2>1, <2>2
<1>3. QED BY <1>1, <1>2 DEF Checkpoints, InCheckpoint

-----------------------------------------------------------------------------
(* Every step keeps the invariant. *)

LEMMA LogEntryPreserves ==
  ASSUME LoggerInv, NEW t \in Threads, LogEntry(t)
  PROVE  LoggerInv'
<1>0. /\ pc[t] = "idle" /\ inputLock = None
      /\ UNCHANGED <<outbuf, outMax, available, asleep, written, fsynced, files, completed, acked, trimmed, crashes>>
  BY DEF LogEntry, ghosts
<1>1. PICK o \in Ops(t) :
        \/ PutEntry(t, o)
        \/ /\ call' = [call EXCEPT ![t] = o] /\ Move(t, "space")
           /\ UNCHANGED <<lsn, inbuf, inMax, began, ckBegin, inputLock>>
  BY DEF LogEntry
<1>2. Asked(t, o)
  <2>1. CASE t = Checkpointer
    <3>1. CASE ckBegin = 0
      <4>1. o = Call("begin", FALSE, 0, 0) BY <2>1, <3>1 DEF Ops
      <4>2. o \in Calls /\ o.kind = "begin" BY <4>1 DEF Call, Calls, Kinds
      <4>3. QED BY <4>2, <2>1 DEF Asked
    <3>2. CASE ckBegin # 0
      <4>1. o = Call("end", TRUE, 0, 0) BY <2>1, <3>2 DEF Ops
      <4>2. o \in Calls /\ o.kind = "end" BY <4>1 DEF Call, Calls, Kinds
      <4>3. QED BY <4>2, <2>1, <3>2 DEF Asked
    <3>3. QED BY <3>1, <3>2
  <2>2. CASE t # Checkpointer
    <3>1. PICK s \in BOOLEAN : o = Call("plain", s, 0, 0) BY <2>2 DEF Ops
    <3>2. o \in Calls /\ o.kind = "plain" BY <3>1 DEF Call, Calls, Kinds
    <3>3. QED BY <3>2 DEF Asked
  <2>3. QED BY <2>1, <2>2
<1>3. InFiles' = InFiles /\ Synced' = Synced /\ FilesExact' /\ files' \in Seq(Files) /\ files' # <<>>
  BY <1>0, Kept
<1>4. TypeOK /\ lsn \in Nat /\ written \in Nat /\ Front \in Nat /\ Front' = Front
  BY <1>0, Types, FrontType DEF LoggerInv, Front
<1>5. acked' <= fsynced' /\ StillDurable(fsynced')
  BY <1>0, <1>3 DEF LoggerInv, Promises, Durable, StillDurable
<1>6. CASE PutEntry(t, o)
  <2>1. Segments' BY <1>0, <1>2, <1>6, PutSegments
  <2>2. Checkpoints' BY <1>0, <1>2, <1>6, PutCheckpoints
  <2>3. /\ lsn' \in Nat /\ lsn' = lsn + 1 /\ inMax' = lsn' /\ inbuf' = inbuf \cup {lsn'}
        /\ ckBegin' \in Nat /\ ckBegin' <= lsn' /\ began' \in Seq(Nat)
        /\ pc' \in [Threads -> PCs] /\ call' \in [Threads -> Calls] /\ inputLock' = None
        /\ pc'[t] \in {"fsync", "idle"} /\ (pc'[t] = "fsync" => call'[t].want = lsn')
        /\ OthersWait(t)
    BY <1>2, <1>6, PutTypes DEF OthersWait
  <2>4. TypeOK'
    <3>1. inbuf' \in SUBSET (1 .. lsn') /\ outbuf' \in SUBSET (1 .. lsn') BY <2>3, <1>0, <1>4 DEF TypeOK
    <3>2. Plain BY <1>4, PlainTypes
    <3>3. ckBegin' \in 0 .. lsn' /\ inMax' \in 0 .. lsn' BY <2>3
    <3>4. written' \in 0 .. lsn' /\ completed' \in 0 .. lsn' /\ outMax' \in 0 .. lsn' BY <3>2, <2>3, <1>0 DEF Plain
    <3>5. Plain' BY <3>1, <3>2, <3>3, <3>4, <2>3, <1>0 DEF Plain
    <3>6. QED BY <3>5, <2>3, <1>3, TypesAfter
  <2>5. OneWriter'
    <3>1. pc[t] \notin HasOutput /\ pc'[t] \notin HasOutput BY <1>0, <2>3 DEF HasOutput, HasInput
    <3>2. QED BY <3>1, <2>3, <1>0, OutsiderMoves
  <2>6. Promises'
    <3>1. Keeps(t) BY <2>3 DEF Keeps, HasOutput, HasInput
    <3>2. lsn <= lsn' /\ written <= written' /\ Front <= Front' BY <2>3, <1>0, <1>4
    <3>3. QED BY <3>1, <3>2, <2>3, <1>0, <1>3, <1>4, <1>5, PromisesKept
  <2>7. QED BY <2>1, <2>2, <2>4, <2>5, <2>6, <1>3 DEF LoggerInv
<1>7. CASE /\ call' = [call EXCEPT ![t] = o] /\ Move(t, "space")
           /\ UNCHANGED <<lsn, inbuf, inMax, began, ckBegin, inputLock>>
  <2>1. pc \in [Threads -> PCs] /\ call \in [Threads -> Calls] BY Types DEF LoggerInv
  <2>2. pc' \in [Threads -> PCs] /\ pc'[t] = "space" /\ \A u \in Threads : u # t => pc'[u] = pc[u]
    <3>1. "space" \in PCs BY DEF PCs
    <3>2. QED BY <2>1, <3>1, <1>7, MoveFacts
  <2>3. call' \in [Threads -> Calls] /\ call'[t] = o /\ \A u \in Threads : u # t => call'[u] = call[u]
    <3>1. o \in Calls BY <1>2 DEF Asked
    <3>2. QED BY ONLY <3>1, <2>1, <1>7, t \in Threads, CallSet
  <2>4. OthersWait(t) BY <2>2, <2>3 DEF OthersWait
  <2>5. TypeOK' BY <2>2, <2>3, <1>0, <1>3, <1>4, <1>7 DEF TypeOK, PCs, Kinds, Calls
  <2>6. Segments' BY <1>0, <1>3, <1>4, <1>7 DEF LoggerInv, Segments
  <2>7. OneWriter'
    <3>1. pc[t] \notin HasOutput /\ pc'[t] \notin HasOutput BY <1>0, <2>2 DEF HasOutput, HasInput
    <3>2. QED BY <3>1, <2>4, <1>0, <1>7, OutsiderMoves
  <2>8. Promises'
    <3>1. Keeps(t) BY <2>2 DEF Keeps, HasOutput, HasInput
    <3>2. QED BY <3>1, <2>4, <1>0, <1>3, <1>4, <1>5, <1>7, PromisesKept
  <2>9. Checkpoints'
    <3>1. InCheckpoint(t) BY <2>2, <2>3, <1>2, <1>7 DEF InCheckpoint, Asked
    <3>2. QED BY <3>1, <2>4, <1>0, <1>3, <1>7, CheckpointsKept
  <2>10. QED BY <2>5, <2>6, <2>7, <2>8, <2>9, <1>3 DEF LoggerInv
<1>8. QED BY <1>1, <1>6, <1>7

\* SpaceFound and SpaceDone
LEMMA SpacePutPreserves ==
  ASSUME LoggerInv, NEW t \in Threads, pc[t] \in {"spaceIn", "spaceDone"},
         ReleaseOutput(call[t].seen), PutEntry(t, call[t]),
         UNCHANGED <<outbuf, outMax, written, files, completed, ghosts, crashes>>
  PROVE  LoggerInv'
<1>0. UNCHANGED <<outbuf, outMax, written, files, completed, acked, trimmed, crashes>> BY DEF ghosts
<1>1. Asked(t, call[t])
  <2>1. call[t] \in Calls BY Types DEF LoggerInv
  <2>2. QED BY <2>1 DEF Asked, LoggerInv, Checkpoints
<1>2. pc[t] \in HasOutput /\ pc[t] \notin {"spaceWrite", "write"} BY DEF HasOutput, HasInput
<1>3. InFiles' = InFiles /\ Synced' = Synced /\ FilesExact' /\ files' \in Seq(Files) /\ files' # <<>>
  BY <1>0, Kept
<1>4. TypeOK /\ lsn \in Nat /\ written \in Nat /\ Front \in Nat /\ Front' = Front /\ acked \in Nat /\ fsynced \in Nat
  BY <1>0, Types, FrontType DEF LoggerInv, Front
<1>5. PICK l \in Nat : l = call[t].seen /\ l <= written /\ Durable(l) BY <1>2, Owner
<1>6. /\ available' = TRUE /\ asleep' = {} /\ fsynced' \in Nat /\ fsynced' >= fsynced
      /\ fsynced' <= written /\ (fsynced' = l \/ fsynced' = fsynced)
  BY <1>5, Released
<1>7. acked' <= fsynced' /\ StillDurable(fsynced')
  <2>1. acked <= fsynced /\ Durable(fsynced) BY DEF LoggerInv, Promises
  <2>2. StillDurable(l) /\ StillDurable(fsynced) BY <2>1, <1>0, <1>3, <1>5, DurableStays
  <2>3. QED BY <2>1, <2>2, <1>0, <1>4, <1>6
<1>8. Segments' BY <1>0, <1>1, PutSegments
<1>9. Checkpoints' BY <1>0, <1>1, PutCheckpoints
<1>10. /\ lsn' \in Nat /\ lsn' = lsn + 1 /\ inMax' = lsn' /\ inbuf' = inbuf \cup {lsn'}
       /\ ckBegin' \in Nat /\ ckBegin' <= lsn' /\ began' \in Seq(Nat)
       /\ pc' \in [Threads -> PCs] /\ call' \in [Threads -> Calls] /\ inputLock' = None
       /\ pc'[t] \in {"fsync", "idle"} /\ (pc'[t] = "fsync" => call'[t].want = lsn')
       /\ OthersWait(t)
  BY <1>1, PutTypes DEF OthersWait
<1>11. TypeOK'
  <2>1. inbuf' \in SUBSET (1 .. lsn') /\ outbuf' \in SUBSET (1 .. lsn') BY <1>10, <1>0, <1>4 DEF TypeOK
  <2>2. fsynced' \in 0 .. written' /\ written' \in 0 .. lsn' /\ completed' \in 0 .. lsn' /\ outMax' \in 0 .. lsn'
    BY <1>10, <1>0, <1>4, <1>6 DEF TypeOK
  <2>3. available' \in BOOLEAN /\ asleep' \in SUBSET Threads /\ inputLock' \in Threads \cup {None}
    BY <1>6, <1>10
  <2>4. {acked', trimmed', crashes'} \subseteq Nat BY <1>0, <1>4 DEF TypeOK
  <2>5. ckBegin' \in 0 .. lsn' /\ inMax' \in 0 .. lsn' BY <1>10
  <2>6. Plain' BY <2>1, <2>2, <2>3, <2>4, <2>5, <1>10 DEF Plain
  <2>7. QED BY <2>6, <1>3, <1>10, TypesAfter
<1>12. OneWriter'
  <2>1. pc'[t] \notin HasOutput BY <1>10 DEF HasOutput, HasInput
  <2>2. QED BY <2>1, <1>0, <1>2, <1>10, OutputReleased
<1>13. Promises'
  <2>1. Keeps(t) BY <1>10 DEF Keeps, HasOutput, HasInput
  <2>2. lsn <= lsn' /\ written <= written' /\ Front <= Front' BY <1>0, <1>4, <1>10
  <2>3. QED BY <2>1, <2>2, <1>0, <1>3, <1>4, <1>7, <1>10, PromisesKept
<1>14. QED BY <1>3, <1>8, <1>9, <1>11, <1>12, <1>13 DEF LoggerInv

\* SpaceGrab, FsyncGrab and TrimGrab
LEMMA GrabPreserves ==
  ASSUME LoggerInv, NEW t \in Threads, NEW p, <<pc[t], p>> \in {<<"space", "spaceIn">>, <<"fsync", "swap">>, <<"trim", "trimming">>},
         GrabOutput(t), Move(t, p),
         UNCHANGED <<lsn, buffers, inputLock, asleep, written, fsynced, files, completed, ckBegin, began, ghosts, crashes>>
  PROVE  LoggerInv'
<1>0. /\ UNCHANGED <<lsn, inbuf, outbuf, inMax, outMax, inputLock, asleep, written, fsynced, files, completed, ckBegin,
                     began, acked, trimmed, crashes>>
      /\ available /\ available' = FALSE
  BY DEF buffers, ghosts, GrabOutput
<1>1. p \in PCs /\ p \in HasOutput \ HasInput /\ p \in {"spaceIn", "swap", "trimming"}
  BY DEF PCs, HasOutput, HasInput
<1>2. pc \in [Threads -> PCs] /\ call \in [Threads -> Calls] BY Types DEF LoggerInv
<1>3. pc' \in [Threads -> PCs] /\ pc'[t] = p /\ \A u \in Threads : u # t => pc'[u] = pc[u]
  BY <1>1, <1>2, MoveFacts
<1>4. TypeOK /\ lsn \in Nat /\ written \in Nat /\ Front \in Nat /\ Front' = Front /\ fsynced \in Nat
  BY <1>0, Types, FrontType DEF LoggerInv, Front
<1>5. /\ call' \in [Threads -> Calls] /\ call'[t].seen = fsynced /\ call'[t].kind = call[t].kind
      /\ call'[t].want = call[t].want /\ \A u \in Threads : u # t => call'[u] = call[u]
  <2>1. call' = WithSeen(call, t, fsynced) BY DEF GrabOutput, WithSeen
  <2>2. fsynced \in Nat BY <1>4
  <2>3. QED BY ONLY <2>1, <2>2, <1>2, t \in Threads, SeenSet
<1>6. OthersWait(t) BY <1>3, <1>5 DEF OthersWait
<1>7. InFiles' = InFiles /\ Synced' = Synced /\ FilesExact' /\ files' \in Seq(Files) /\ files' # <<>>
  BY <1>0, Kept
<1>8. TypeOK'
  <2>1. Plain /\ began \in Seq(Nat) BY <1>4, PlainTypes
  <2>2. Plain' BY <2>1, <1>0 DEF Plain
  <2>3. QED BY <2>1, <2>2, <1>0, <1>3, <1>5, <1>7, TypesAfter
<1>9. Segments' BY <1>0, <1>4, <1>7 DEF LoggerInv, Segments
<1>10. OneWriter' BY <1>0, <1>1, <1>3, <1>6, OutputGrabbed
<1>11. acked' <= fsynced' /\ StillDurable(fsynced')
  BY <1>0, <1>7 DEF LoggerInv, Promises, Durable, StillDurable
<1>12. Promises'
  <2>1. p = "swap" => call[t].want <= lsn BY DEF LoggerInv, Promises
  <2>2. fsynced <= written BY Types DEF LoggerInv
  <2>3. Keeps(t) BY <2>1, <2>2, <1>0, <1>1, <1>3, <1>5, <1>11 DEF Keeps
  <2>4. QED BY <2>3, <1>0, <1>4, <1>6, <1>7, <1>11, PromisesKept
<1>13. Checkpoints'
  <2>1. InCheckpoint(t) BY <1>0, <1>3, <1>5 DEF LoggerInv, Checkpoints, InCheckpoint
  <2>2. QED BY <2>1, <1>0, <1>6, <1>7, CheckpointsKept
<1>14. QED BY <1>7, <1>8, <1>9, <1>10, <1>12, <1>13 DEF LoggerInv

\* SpaceSwap and FsyncSwap
LEMMA SwapPreserves ==
  ASSUME LoggerInv, NEW t \in Threads, NEW p, <<pc[t], p>> \in {<<"spaceIn", "spaceWrite">>, <<"swap", "write">>},
         inputLock = None, SwapBuffers, inputLock' = IF p = "spaceWrite" THEN t ELSE inputLock, Move(t, p),
         UNCHANGED <<lsn, available, asleep, written, fsynced, files, completed, ckBegin, began, call, ghosts, crashes>>
  PROVE  LoggerInv'
<1>0. /\ UNCHANGED <<lsn, available, asleep, written, fsynced, files, completed, ckBegin, began, call, acked, trimmed, crashes>>
      /\ inbuf' = outbuf /\ outbuf' = inbuf /\ inMax' = outMax /\ outMax' = inMax
  BY DEF ghosts, SwapBuffers
<1>1. /\ p \in PCs /\ p \in HasOutput /\ pc[t] \in HasOutput /\ pc[t] \notin {"spaceWrite", "write"}
      /\ p \in {"spaceWrite", "write"} /\ (p \in HasInput <=> p = "spaceWrite")
  BY DEF PCs, HasOutput, HasInput
<1>2. pc \in [Threads -> PCs] BY Types DEF LoggerInv
<1>3. pc' \in [Threads -> PCs] /\ pc'[t] = p /\ OthersWait(t)
  BY <1>0, <1>1, <1>2, MoveFacts DEF OthersWait
<1>4. TypeOK /\ lsn \in Nat /\ written \in Nat /\ trimmed \in Nat /\ inMax \in Nat
  BY Types DEF LoggerInv
<1>5. InFiles' = InFiles /\ Synced' = Synced /\ FilesExact' /\ files' \in Seq(Files) /\ files' # <<>>
  BY <1>0, Kept
<1>6. outbuf = {} BY <1>1, Owner
<1>7. /\ InFiles = trimmed + 1 .. written /\ inbuf = written + 1 .. lsn
      /\ trimmed <= written /\ written <= lsn /\ (inbuf # {} => inMax = lsn) /\ Front = written
  BY <1>6 DEF LoggerInv, Segments, Front
<1>8. Front' = lsn
  <2>1. CASE inbuf = {} BY <2>1, <1>0, <1>4, <1>7 DEF Front
  <2>2. CASE inbuf # {} BY <2>2, <1>0, <1>7 DEF Front
  <2>3. QED BY <2>1, <2>2
<1>9. TypeOK' BY <1>0, <1>3, <1>4, <1>5 DEF TypeOK, PCs
<1>10. Segments'
  <2>1. inbuf' = lsn + 1 .. lsn BY <1>0, <1>4, <1>6
  <2>2. QED BY <2>1, <1>0, <1>4, <1>5, <1>6, <1>7, <1>8 DEF Segments
<1>11. OneWriter'
  <2>1. inputLock # t BY LoggerAssumption
  <2>2. QED BY <2>1, <1>0, <1>1, <1>3, OwnerMoves
<1>12. Promises'
  <2>1. acked' <= fsynced' /\ StillDurable(fsynced')
    BY <1>0, <1>5 DEF LoggerInv, Promises, Durable, StillDurable
  <2>2. p = "write" => call[t].want <= lsn BY DEF LoggerInv, Promises
  <2>3. call[t].seen <= written /\ StillDurable(call[t].seen) BY <1>0, <1>1, <1>5, Owner, DurableStays
  <2>4. Keeps(t) BY <2>2, <2>3, <1>0, <1>1, <1>3, <1>8 DEF Keeps
  <2>5. QED BY <2>1, <2>4, <1>0, <1>3, <1>4, <1>5, <1>7, <1>8, PromisesKept
<1>13. Checkpoints'
  <2>1. InCheckpoint(t) BY <1>0, <1>3 DEF LoggerInv, Checkpoints, InCheckpoint
  <2>2. QED BY <2>1, <1>0, <1>3, <1>5, CheckpointsKept
<1>14. QED BY <1>5, <1>9, <1>10, <1>11, <1>12, <1>13 DEF LoggerInv

Written(F, B) == [F EXCEPT ![Len(F)].ents = @ \cup B]

LEMMA WriteOutbufPreserves ==
  ASSUME LoggerInv, NEW t \in Threads, WriteOutbuf(t)
  PROVE  LoggerInv'
<1>0. /\ UNCHANGED <<lsn, inbuf, inMax, outMax, inputLock, available, asleep, fsynced, completed, ckBegin, began, call,
                     acked, trimmed, crashes>>
      /\ outbuf' = {} /\ written' = Front /\ pc[t] \in {"spaceWrite", "write"} /\ files' = Written(files, outbuf)
  BY DEF WriteOutbuf, ghosts, Front, Written
<1>1. PICK p : /\ Move(t, p) /\ (pc[t] = "write" => p \in {"rotate", "sync"})
               /\ pc[t] = "spaceWrite" => p \in {"spaceRotate", "spaceDone"}
  BY DEF WriteOutbuf
<1>2. /\ p \in PCs /\ p \in HasOutput /\ pc[t] \in HasOutput /\ (p \in HasInput <=> pc[t] \in HasInput)
      /\ p \notin {"spaceWrite", "write", "fsync", "swap", "trim", "trimming"}
      /\ p \in {"rotate", "sync"} => pc[t] = "write"
  BY <1>0, <1>1 DEF PCs, HasOutput, HasInput
<1>3. pc' \in [Threads -> PCs] /\ pc'[t] = p /\ OthersWait(t)
  <2>1. pc \in [Threads -> PCs] BY Types DEF LoggerInv
  <2>2. QED BY <2>1, <1>0, <1>1, <1>2, MoveFacts DEF OthersWait
<1>4. TypeOK /\ lsn \in Nat /\ written \in Nat /\ trimmed \in Nat /\ Front \in Nat /\ outbuf \in SUBSET Nat
  BY Types, FrontType DEF LoggerInv
<1>5. /\ InFiles = trimmed + 1 .. written /\ outbuf = written + 1 .. Front /\ inbuf = Front + 1 .. lsn
      /\ trimmed <= written /\ written <= Front /\ Front <= lsn /\ (inbuf # {} => inMax = lsn)
  BY DEF LoggerInv, Segments
<1>6. Sound(files') /\ EntsIn(files') = EntsIn(files) \cup outbuf /\ SyncedIn(files') = SyncedIn(files)
  <2>1. Sound(files) /\ InFiles = EntsIn(files) BY Views DEF LoggerInv, TypeOK
  <2>2. \A l \in EntsIn(files), b \in outbuf : l < b BY <2>1, <1>4, <1>5
  <2>3. \A F, G, B : Sound(F) /\ B \in SUBSET Nat /\ (\A l \in EntsIn(F), b \in B : l < b) /\ G = Written(F, B) =>
                       Sound(G) /\ EntsIn(G) = EntsIn(F) \cup B /\ SyncedIn(G) = SyncedIn(F)
    BY ONLY WriteSound DEF Written
  <2>4. outbuf \in SUBSET Nat /\ files' = Written(files, outbuf) BY <1>0, <1>4
  <2>5. QED BY ONLY <2>1, <2>2, <2>3, <2>4
<1>7. /\ InFiles' = InFiles \cup outbuf /\ Synced' = Synced /\ FilesExact' /\ files' \in Seq(Files) /\ files' # <<>>
  BY <1>6, Views, ViewsAfter DEF LoggerInv, TypeOK
<1>8. Front' = Front BY <1>0 DEF Front
<1>9. TypeOK'
  <2>1. written' \in 0 .. lsn' /\ fsynced' \in 0 .. written'
    <3>1. fsynced \in Nat /\ fsynced <= written BY Types DEF LoggerInv
    <3>2. QED BY <3>1, <1>0, <1>4, <1>5
  <2>2. QED BY <2>1, <1>0, <1>3, <1>4, <1>7 DEF TypeOK, PCs
<1>10. Segments'
  <2>1. InFiles' = trimmed + 1 .. Front BY <1>4, <1>5, <1>7
  <2>2. outbuf' = Front + 1 .. Front BY <1>0, <1>4
  <2>3. trimmed <= Front BY <1>4, <1>5
  <2>4. QED BY <2>1, <2>2, <2>3, <1>0, <1>4, <1>5, <1>8 DEF Segments
<1>11. OneWriter'
  <2>1. inputLock = t <=> pc[t] \in HasInput BY DEF LoggerInv, OneWriter
  <2>2. QED BY <2>1, <1>0, <1>2, <1>3, OwnerMoves
<1>12. Promises'
  <2>1. acked' <= fsynced' /\ StillDurable(fsynced')
    BY <1>0, <1>7 DEF LoggerInv, Promises, Durable, StillDurable
  <2>2. pc[t] = "write" => call[t].want <= Front BY DEF LoggerInv, Promises
  <2>3. call[t].seen \in Nat /\ call[t].seen <= written /\ StillDurable(call[t].seen) BY <1>0, <1>2, <1>7, Owner, DurableStays
  <2>4. call[t].seen <= Front BY <2>3, <1>4, <1>5
  <2>5. Keeps(t) BY <2>2, <2>3, <2>4, <1>0, <1>2, <1>3, <1>8 DEF Keeps
  <2>6. QED BY <2>1, <2>5, <1>0, <1>3, <1>4, <1>5, <1>7, <1>8, PromisesKept
<1>13. Checkpoints'
  <2>1. InCheckpoint(t) BY <1>0, <1>2, <1>3 DEF LoggerInv, Checkpoints, InCheckpoint
  <2>2. QED BY <2>1, <1>0, <1>3, <1>7, CheckpointsKept
<1>14. QED BY <1>7, <1>9, <1>10, <1>11, <1>12, <1>13 DEF LoggerInv

SyncedUp(F) == [F EXCEPT ![Len(F)].synced = F[Len(F)].ents]

LEMMA SyncedLast ==
  ASSUME LoggerInv
  PROVE  /\ Sound(SyncLast) /\ EntsIn(SyncLast) = InFiles /\ SyncedIn(SyncLast) = InFiles
         /\ SyncLast[Len(SyncLast)].synced = SyncLast[Len(SyncLast)].ents
         /\ Sound(files) /\ EntsIn(files) = InFiles /\ SyncedIn(files) = Synced
<1>1. Sound(files) /\ InFiles = EntsIn(files) /\ Synced = SyncedIn(files) BY Views DEF LoggerInv, TypeOK
<1>2. PICK G : G = SyncedUp(files) OBVIOUS
<1>3. /\ Sound(G) /\ EntsIn(G) = EntsIn(files) /\ SyncedIn(G) = EntsIn(files)
      /\ Len(G) = Len(files) /\ G[Len(files)].synced = G[Len(files)].ents
  <2>1. \A F, H : Sound(F) /\ H = SyncedUp(F) =>
          /\ Sound(H) /\ EntsIn(H) = EntsIn(F) /\ SyncedIn(H) = EntsIn(F)
          /\ Len(H) = Len(F) /\ H[Len(F)].synced = H[Len(F)].ents
    BY ONLY SyncSound DEF SyncedUp
  <2>2. QED BY ONLY <1>1, <1>2, <2>1
<1>4. SyncLast = G BY <1>2 DEF SyncLast, Last, SyncedUp
<1>5. QED BY <1>1, <1>3, <1>4

LEMMA RotatePreserves ==
  ASSUME LoggerInv, NEW t \in Threads, Rotate(t)
  PROVE  LoggerInv'
<1>0. /\ UNCHANGED <<lsn, inbuf, outbuf, inMax, outMax, inputLock, available, asleep, written, completed, ckBegin, began,
                     acked, trimmed, crashes>>
      /\ pc[t] \in {"spaceRotate", "rotate"} /\ fsynced' = written
      /\ files' = Append(UpdateLastLsn(SyncLast, written), NewFile(written))
      /\ call' = WithSeen(call, t, written)
  BY DEF Rotate, buffers, ghosts, NewFsynced, WithSeen
<1>1. PICK p : /\ Move(t, p) /\ (pc[t] = "rotate" => p = "sync") /\ (pc[t] = "spaceRotate" => p = "spaceDone")
  BY DEF Rotate
<1>2. /\ p \in PCs /\ p \in HasOutput /\ pc[t] \in HasOutput /\ (p \in HasInput <=> pc[t] \in HasInput)
      /\ p \in {"sync", "spaceDone"} /\ (p = "sync" => pc[t] = "rotate") /\ pc[t] \notin {"spaceWrite", "write"}
  BY <1>0, <1>1 DEF PCs, HasOutput, HasInput
<1>3. TypeOK /\ lsn \in Nat /\ written \in Nat /\ trimmed \in Nat /\ Front \in Nat /\ written <= lsn
  BY Types, FrontType DEF LoggerInv
<1>4. /\ pc' \in [Threads -> PCs] /\ pc'[t] = p /\ OthersWait(t) /\ call' \in [Threads -> Calls]
      /\ call'[t].seen = written /\ call'[t].kind = call[t].kind /\ call'[t].want = call[t].want
  <2>1. pc \in [Threads -> PCs] /\ call \in [Threads -> Calls] BY Types DEF LoggerInv
  <2>2. pc' \in [Threads -> PCs] /\ pc'[t] = p /\ \A u \in Threads : u # t => pc'[u] = pc[u]
    BY <2>1, <1>1, <1>2, MoveFacts
  <2>3. /\ call' \in [Threads -> Calls] /\ call'[t].seen = written /\ call'[t].kind = call[t].kind
        /\ call'[t].want = call[t].want /\ \A u \in Threads : u # t => call'[u] = call[u]
    <3>1. call' = WithSeen(call, t, written) /\ written \in Nat BY <1>0, <1>3
    <3>2. QED BY ONLY <2>1, <3>1, t \in Threads, SeenSet
  <2>4. QED BY <2>2, <2>3 DEF OthersWait
<1>5. /\ InFiles = trimmed + 1 .. written /\ trimmed <= written
  BY DEF LoggerInv, Segments
<1>6. InFiles' = InFiles /\ Synced' = InFiles /\ FilesExact' /\ files' \in Seq(Files) /\ files' # <<>>
  <2>1. PICK F : F = SyncLast OBVIOUS
  <2>2. Sound(F) /\ EntsIn(F) = InFiles /\ SyncedIn(F) = InFiles /\ F[Len(F)].synced = F[Len(F)].ents
    BY <2>1, SyncedLast
  <2>3. PICK G : G = UpdateLastLsn(F, written) OBVIOUS
  <2>4. /\ Sound(G) /\ EntsIn(G) = InFiles /\ SyncedIn(G) = InFiles /\ Len(G) = Len(F)
        /\ G[Len(F)] = File(F[Len(F)].ents, F[Len(F)].synced, written)
    <3>1. written \in Nat BY <1>3
    <3>2. QED BY ONLY <2>2, <2>3, <3>1, MarkSound
  <2>5. Closed(G[Len(G)])
    <3>1. PICK g : g = G[Len(G)] OBVIOUS
    <3>2. g.ents = F[Len(F)].ents /\ g.synced = g.ents /\ g.maxlsn = written BY <2>2, <2>4, <3>1 DEF File
    <3>3. g.ents \subseteq EntsIn(G)
      <4>1. Len(G) \in DOMAIN G BY <2>4, SoundFacts
      <4>2. QED BY <3>1, <4>1 DEF EntsIn
    <3>4. \A l \in g.ents : l <= g.maxlsn BY <3>2, <3>3, <2>4, <1>3, <1>5
    <3>5. QED BY <3>1, <3>2, <3>4 DEF Closed
  <2>6. files' = Append(G, NewFile(written)) /\ written \in Nat BY <2>1, <2>3, <1>0, <1>3
  <2>7. Sound(files') /\ EntsIn(files') = EntsIn(G) /\ SyncedIn(files') = SyncedIn(G)
    BY ONLY <2>4, <2>5, <2>6, AddSound
  <2>8. QED BY <2>4, <2>7, ViewsAfter
<1>7. Synced \subseteq Synced' BY <1>6, SyncedFacts
<1>8. Front' = Front BY <1>0 DEF Front
<1>9. TypeOK'
  <2>1. Plain /\ began \in Seq(Nat) BY <1>3, PlainTypes
  <2>2. Plain' BY <2>1, <1>0, <1>3 DEF Plain
  <2>3. QED BY <2>1, <2>2, <1>0, <1>4, <1>6, TypesAfter
<1>10. Segments' BY <1>0, <1>6, <1>8 DEF LoggerInv, Segments
<1>11. OneWriter'
  <2>1. inputLock = t <=> pc[t] \in HasInput BY DEF LoggerInv, OneWriter
  <2>2. outbuf = {} BY <1>2, Owner
  <2>3. QED BY <2>1, <2>2, <1>0, <1>2, <1>4, OwnerMoves
<1>12. Promises'
  <2>1. StillDurable(written) BY <1>0, <1>3, <1>5, <1>6 DEF StillDurable
  <2>2. acked' <= fsynced'
    <3>1. acked <= fsynced /\ acked \in Nat /\ fsynced \in Nat /\ fsynced <= written BY Types DEF LoggerInv, Promises
    <3>2. QED BY <3>1, <1>0, <1>3
  <2>3. pc[t] = "rotate" => call[t].want <= written BY DEF LoggerInv, Promises
  <2>4. Keeps(t) BY <2>1, <2>3, <1>0, <1>2, <1>3, <1>4 DEF Keeps
  <2>5. QED BY <2>1, <2>2, <2>4, <1>0, <1>3, <1>4, <1>7, <1>8, PromisesKept
<1>13. Checkpoints'
  <2>1. InCheckpoint(t) BY <1>0, <1>2, <1>4 DEF LoggerInv, Checkpoints, InCheckpoint
  <2>2. QED BY <2>1, <1>0, <1>4, <1>7, CheckpointsKept
<1>14. QED BY <1>6, <1>9, <1>10, <1>11, <1>12, <1>13 DEF LoggerInv

\* LogFlush and FsyncIfLsnNotFsynced
LEMMA FsyncCallPreserves ==
  ASSUME LoggerInv, NEW t \in Threads, NEW k \in {"flush", "header"}, NEW w \in Nat, NEW o \in Nat, w <= lsn,
         pc[t] = "idle", call' = [call EXCEPT ![t] = Call(k, TRUE, w, o)], Move(t, "fsync"),
         UNCHANGED <<lsn, buffers, inputLock, available, asleep, written, fsynced, files, completed, ckBegin, began,
                     ghosts, crashes>>
  PROVE  LoggerInv'
<1>0. UNCHANGED <<lsn, inbuf, outbuf, inMax, outMax, inputLock, available, asleep, written, fsynced, files, completed,
                  ckBegin, began, acked, trimmed, crashes>>
  BY DEF buffers, ghosts
<1>1. TypeOK /\ lsn \in Nat /\ written \in Nat /\ Front \in Nat /\ Front' = Front
  BY <1>0, Types, FrontType DEF LoggerInv, Front
<1>2. PICK c \in Calls : call' = [call EXCEPT ![t] = c] /\ c.kind = k /\ c.want = w
  <2>1. PICK c : c = Call(k, TRUE, w, o) OBVIOUS
  <2>2. c \in Calls /\ c.kind = k /\ c.want = w BY <2>1 DEF Call, Calls, Kinds
  <2>3. QED BY <2>1, <2>2
<1>3. /\ pc' \in [Threads -> PCs] /\ pc'[t] = "fsync" /\ OthersWait(t)
      /\ call' \in [Threads -> Calls] /\ call'[t] = c
  <2>1. pc \in [Threads -> PCs] /\ call \in [Threads -> Calls] /\ "fsync" \in PCs BY Types DEF LoggerInv, PCs
  <2>2. pc' \in [Threads -> PCs] /\ pc'[t] = "fsync" /\ \A u \in Threads : u # t => pc'[u] = pc[u]
    BY <2>1, MoveFacts
  <2>3. call' \in [Threads -> Calls] /\ call'[t] = c /\ \A u \in Threads : u # t => call'[u] = call[u]
    BY ONLY <2>1, <1>2, c \in Calls, t \in Threads, CallSet
  <2>4. QED BY <2>2, <2>3 DEF OthersWait
<1>4. InFiles' = InFiles /\ Synced' = Synced /\ FilesExact' /\ files' \in Seq(Files) /\ files' # <<>>
  BY <1>0, Kept
<1>5. TypeOK'
  <2>1. Plain /\ began \in Seq(Nat) BY <1>1, PlainTypes
  <2>2. Plain' BY <2>1, <1>0 DEF Plain
  <2>3. QED BY <2>1, <2>2, <1>0, <1>3, <1>4, TypesAfter
<1>6. Segments' BY <1>0, <1>1, <1>4 DEF LoggerInv, Segments
<1>7. OneWriter'
  <2>1. pc[t] \notin HasOutput /\ pc'[t] \notin HasOutput BY <1>3 DEF HasOutput, HasInput
  <2>2. QED BY <2>1, <1>0, <1>3, OutsiderMoves
<1>8. Promises'
  <2>1. acked' <= fsynced' /\ StillDurable(fsynced')
    BY <1>0, <1>4 DEF LoggerInv, Promises, Durable, StillDurable
  <2>2. Keeps(t) BY <1>0, <1>2, <1>3 DEF Keeps, HasOutput, HasInput
  <2>3. QED BY <2>1, <2>2, <1>0, <1>1, <1>3, <1>4, PromisesKept
<1>9. Checkpoints'
  <2>1. InCheckpoint(t) BY <1>2, <1>3 DEF InCheckpoint
  <2>2. QED BY <2>1, <1>0, <1>3, <1>4, CheckpointsKept
<1>10. QED BY <1>4, <1>5, <1>6, <1>7, <1>8, <1>9 DEF LoggerInv

LEMMA SleepPreserves ==
  ASSUME LoggerInv, NEW t \in Threads, Sleep(t)
  PROVE  LoggerInv'
<1>0. /\ UNCHANGED <<lsn, inbuf, outbuf, inMax, outMax, inputLock, available, written, fsynced, files, completed,
                     ckBegin, began, pc, call, acked, trimmed, crashes>>
      /\ asleep' = asleep \cup {t}
  BY DEF Sleep, buffers, ghosts
<1>1. InFiles' = InFiles /\ Synced' = Synced /\ FilesExact' BY <1>0, Kept
<1>2. Front' = Front BY <1>0 DEF Front
<1>3. TypeOK' BY <1>0 DEF LoggerInv, TypeOK
<1>4. Segments' /\ OneWriter' BY <1>0, <1>1, <1>2 DEF LoggerInv, Segments, OneWriter
<1>5. Promises' BY <1>0, <1>1, <1>2 DEF LoggerInv, Promises, Durable
<1>6. Checkpoints' BY <1>0, <1>1 DEF LoggerInv, Checkpoints
<1>7. QED BY <1>1, <1>3, <1>4, <1>5, <1>6 DEF LoggerInv

-----------------------------------------------------------------------------
(* The fsync returns *)

LEMMA ReturnTypes ==
  ASSUME LoggerInv, NEW t \in Threads, Return(t)
  PROVE  /\ call[t].want \in Nat /\ acked' \in Nat /\ (acked' = acked \/ acked' = call[t].want)
         /\ pc' \in [Threads -> PCs] /\ pc'[t] \in {"trim", "idle"} /\ (pc'[t] = "trim" => call[t].kind = "end")
         /\ call' \in [Threads -> Calls] /\ call'[t].kind = "none" /\ OthersWait(t)
<1>1. pc \in [Threads -> PCs] /\ call \in [Threads -> Calls] /\ acked \in Nat BY Types DEF LoggerInv
<1>2. PICK w \in Nat : w = call[t].want BY <1>1, CallFields
<1>3. acked' \in Nat /\ (acked' = acked \/ acked' = w)
  <2>1. acked' = Max({acked, w}) BY <1>2 DEF Return
  <2>2. PICK m : m = Max({acked, w}) OBVIOUS
  <2>3. acked \in Int /\ w \in Int BY <1>1
  <2>4. m \in Int /\ (m = acked \/ m = w) BY ONLY <2>2, <2>3, MaxOfTwo
  <2>5. QED BY <2>1, <2>2, <2>4, <1>1
<1>4. PICK p \in PCs : Move(t, p) /\ p \in {"trim", "idle"} /\ (p = "trim" => call[t].kind = "end")
  BY DEF Return, PCs
<1>5. pc' \in [Threads -> PCs] /\ pc'[t] = p /\ \A u \in Threads : u # t => pc'[u] = pc[u]
  BY <1>1, <1>4, MoveFacts
<1>6. call' \in [Threads -> Calls] /\ call'[t] = NoCall /\ \A u \in Threads : u # t => call'[u] = call[u]
  <2>1. call' = [call EXCEPT ![t] = NoCall] BY DEF Return
  <2>2. QED BY ONLY <2>1, <1>1, t \in Threads, NoCallFields, CallSet
<1>7. QED BY <1>2, <1>3, <1>4, <1>5, <1>6, NoCallFields DEF OthersWait

\* The end of a checkpoint is on disk when the checkpoint is noted as the last one: it
\* cannot have been trimmed, for no later checkpoint has ended.
LEMMA ReturnCheckpoints ==
  ASSUME LoggerInv, NEW t \in Threads, pc[t] \in {"fsync", "sync"}, Return(t),
         UNCHANGED <<lsn, began, ckBegin, trimmed>>, Synced \subseteq Synced', StillDurable(call[t].want)
  PROVE  Checkpoints'
<1>1. Checkpoints /\ OthersWait(t) /\ call'[t].kind = "none" /\ (pc'[t] = "trim" => call[t].kind = "end")
      /\ pc'[t] \in {"trim", "idle"}
  BY ReturnTypes DEF LoggerInv
<1>2. ASSUME NEW u \in Threads PROVE InCheckpoint(u)
  <2>1. CASE u = t BY <2>1, <1>1 DEF InCheckpoint, Checkpoints
  <2>2. CASE u # t
    <3>1. pc'[u] = pc[u] /\ call'[u] = call[u] BY <2>2, <1>1 DEF OthersWait
    <3>2. QED BY <3>1, <1>1 DEF Checkpoints, InCheckpoint
  <2>3. QED BY <2>1, <2>2
<1>3. trimmed' # 0 => \E e \in Synced' : began'[e] > trimmed' BY <1>1 DEF Checkpoints
<1>4. completed' # 0 => \E e \in Synced' : began'[e] >= completed'
  <2>1. CASE call[t].kind # "end"
    <3>1. completed' = completed BY <2>1 DEF Return
    <3>2. QED BY <3>1, <1>1 DEF Checkpoints
  <2>2. CASE call[t].kind = "end"
    <3>1. completed' = ckBegin BY <2>2 DEF Return
    <3>2. PICK w \in 1 .. lsn : w = call[t].want /\ began[w] = ckBegin /\ ckBegin # 0 BY <2>2, <1>1 DEF Checkpoints
    <3>3. began[w] < w /\ w \in 1 .. w BY <3>2, <1>1 DEF Checkpoints
    <3>4. w <= trimmed \/ w \in Synced' BY <3>2, <3>3 DEF StillDurable
    <3>5. CASE w \in Synced'
      <4>1. ckBegin \in Nat BY Types DEF LoggerInv
      <4>2. began'[w] >= completed' BY <4>1, <3>1, <3>2
      <4>3. QED BY <4>2, <3>5
    <3>6. CASE w <= trimmed
      <4>1. trimmed \in Nat /\ lsn \in Nat /\ ckBegin \in Nat BY Types DEF LoggerInv
      <4>2. trimmed # 0 BY <4>1, <3>6
      <4>3. PICK e \in Synced : began[e] > trimmed BY <4>2, <1>1 DEF Checkpoints
      <4>4. e \in 1 .. lsn BY SyncedFacts
      <4>5. began[e] <= ckBegin /\ began[e] \in Nat
        <5>1. began \in Seq(Nat) /\ Len(began) = lsn BY Types DEF LoggerInv, Checkpoints
        <5>2. QED BY <5>1, <4>4, <3>2, <1>1 DEF Checkpoints
      <4>6. QED BY <4>1, <4>3, <4>5, <3>2, <3>3, <3>6
    <3>7. QED BY <3>4, <3>5, <3>6
  <2>3. QED BY <2>1, <2>2
<1>5. QED BY <1>1, <1>2, <1>3, <1>4 DEF Checkpoints, InCheckpoint

LEMMA CompletedType ==
  ASSUME LoggerInv, NEW t \in Threads, Return(t)
  PROVE  completed' \in 0 .. lsn
BY DEF LoggerInv, TypeOK, Return

LEMMA AlreadyDonePreserves ==
  ASSUME LoggerInv, NEW t \in Threads, AlreadyDone(t)
  PROVE  LoggerInv'
<1>0. /\ UNCHANGED <<lsn, inbuf, outbuf, inMax, outMax, inputLock, available, asleep, written, fsynced, files, ckBegin,
                     began, trimmed, crashes>>
      /\ pc[t] = "fsync" /\ fsynced >= call[t].want /\ Return(t)
  BY DEF AlreadyDone, buffers
<1>1. /\ call[t].want \in Nat /\ acked' \in Nat /\ (acked' = acked \/ acked' = call[t].want)
      /\ pc' \in [Threads -> PCs] /\ pc'[t] \in {"trim", "idle"} /\ (pc'[t] = "trim" => call[t].kind = "end")
      /\ call' \in [Threads -> Calls] /\ call'[t].kind = "none" /\ OthersWait(t) /\ completed' \in 0 .. lsn
  BY <1>0, ReturnTypes, CompletedType
<1>2. TypeOK /\ lsn \in Nat /\ written \in Nat /\ Front \in Nat /\ Front' = Front /\ fsynced \in Nat /\ acked \in Nat
  BY <1>0, Types, FrontType DEF LoggerInv, Front
<1>3. InFiles' = InFiles /\ Synced' = Synced /\ FilesExact' /\ files' \in Seq(Files) /\ files' # <<>>
  BY <1>0, Kept
<1>4. TypeOK'
  <2>1. Plain /\ began \in Seq(Nat) BY <1>2, PlainTypes
  <2>2. Plain' BY <2>1, <1>0, <1>1 DEF Plain
  <2>3. QED BY <2>1, <2>2, <1>0, <1>1, <1>3, TypesAfter
<1>5. Segments' BY <1>0, <1>2, <1>3 DEF LoggerInv, Segments
<1>6. OneWriter'
  <2>1. pc[t] \notin HasOutput /\ pc'[t] \notin HasOutput BY <1>0, <1>1 DEF HasOutput, HasInput
  <2>2. QED BY <2>1, <1>0, <1>1, OutsiderMoves
<1>7. acked' <= fsynced' /\ StillDurable(fsynced') /\ StillDurable(call[t].want)
  <2>1. acked <= fsynced /\ Durable(fsynced) BY DEF LoggerInv, Promises
  <2>2. StillDurable(fsynced) BY <2>1, <1>0, <1>3, DurableStays
  <2>3. 1 .. call[t].want \subseteq 1 .. fsynced BY <1>0, <1>1, <1>2
  <2>4. QED BY <2>1, <2>2, <2>3, <1>0, <1>1, <1>2 DEF StillDurable
<1>8. Promises'
  <2>1. Keeps(t) BY <1>1 DEF Keeps, HasOutput, HasInput
  <2>2. QED BY <2>1, <1>0, <1>1, <1>2, <1>3, <1>7, PromisesKept
<1>9. Checkpoints' BY <1>0, <1>3, <1>7, ReturnCheckpoints
<1>10. QED BY <1>3, <1>4, <1>5, <1>6, <1>8, <1>9 DEF LoggerInv

LEMMA FsyncDonePreserves ==
  ASSUME LoggerInv, NEW t \in Threads, FsyncDone(t)
  PROVE  LoggerInv'
<1>0. /\ UNCHANGED <<lsn, inbuf, outbuf, inMax, outMax, inputLock, written, ckBegin, began, trimmed, crashes>>
      /\ pc[t] = "sync" /\ Return(t)
  BY DEF FsyncDone, buffers
<1>1. /\ call[t].want \in Nat /\ acked' \in Nat /\ (acked' = acked \/ acked' = call[t].want)
      /\ pc' \in [Threads -> PCs] /\ pc'[t] \in {"trim", "idle"} /\ (pc'[t] = "trim" => call[t].kind = "end")
      /\ call' \in [Threads -> Calls] /\ call'[t].kind = "none" /\ OthersWait(t) /\ completed' \in 0 .. lsn
  BY <1>0, ReturnTypes, CompletedType
<1>2. TypeOK /\ lsn \in Nat /\ written \in Nat /\ Front \in Nat /\ Front' = Front /\ fsynced \in Nat /\ acked \in Nat
      /\ trimmed \in Nat
  BY <1>0, Types, FrontType DEF LoggerInv, Front
<1>3. pc[t] \in HasOutput /\ pc[t] \notin HasInput /\ pc[t] \notin {"spaceWrite", "write"}
  BY <1>0 DEF HasOutput, HasInput
<1>4. call[t].want <= written /\ call[t].seen \in Nat /\ call[t].seen <= written /\ Durable(call[t].seen)
  BY <1>0, <1>3, Owner DEF LoggerInv, Promises
<1>5. InFiles = trimmed + 1 .. written /\ Synced \subseteq InFiles BY SyncedFacts
\* what was released is synced, and covers what was asked for
<1>6. PICK l \in Nat : /\ l <= written /\ call[t].want <= l /\ ReleaseOutput(l) /\ StillDurable(l)
                       /\ InFiles' = InFiles /\ Synced \subseteq Synced' /\ FilesExact'
                       /\ files' \in Seq(Files) /\ files' # <<>>
  <2>1. CASE call[t].seen < call[t].want
    <3>1. files' = UpdateLastLsn(SyncLast, written) /\ ReleaseOutput(written) /\ written \in Nat BY <2>1, <1>2 DEF FsyncDone
    <3>2. Sound(SyncLast) /\ EntsIn(SyncLast) = InFiles /\ SyncedIn(SyncLast) = InFiles BY SyncedLast
    <3>3. Sound(files') /\ EntsIn(files') = InFiles /\ SyncedIn(files') = InFiles
      BY ONLY <3>1, <3>2, MarkSound
    <3>4. InFiles' = InFiles /\ Synced' = InFiles /\ FilesExact' /\ files' \in Seq(Files) /\ files' # <<>>
      BY <3>3, ViewsAfter
    <3>5. StillDurable(written) BY <3>4, <1>0, <1>2, <1>5 DEF StillDurable
    <3>6. written <= written BY <1>2
    <3>7. QED BY <3>1, <3>4, <3>5, <3>6, <1>4, <1>5
  <2>2. CASE ~ (call[t].seen < call[t].want)
    <3>1. files' = UpdateLastLsn(files, written) /\ ReleaseOutput(call[t].seen) /\ written \in Nat BY <2>2, <1>2 DEF FsyncDone
    <3>2. Sound(files) /\ EntsIn(files) = InFiles /\ SyncedIn(files) = Synced BY SyncedLast
    <3>3. Sound(files') /\ EntsIn(files') = InFiles /\ SyncedIn(files') = Synced
      BY ONLY <3>1, <3>2, MarkSound
    <3>4. InFiles' = InFiles /\ Synced' = Synced /\ FilesExact' /\ files' \in Seq(Files) /\ files' # <<>>
      BY <3>3, ViewsAfter
    <3>5. StillDurable(call[t].seen) BY <3>4, <1>0, <1>4, DurableStays
    <3>6. call[t].want <= call[t].seen BY <2>2, <1>1, <1>4
    <3>7. QED BY <3>1, <3>4, <3>5, <3>6, <1>4
  <2>3. QED BY <2>1, <2>2
<1>7. /\ available' = TRUE /\ asleep' = {} /\ fsynced' \in Nat /\ fsynced' >= fsynced /\ fsynced' >= l
      /\ fsynced' <= written /\ (fsynced' = l \/ fsynced' = fsynced)
  BY <1>6, Released
<1>8. TypeOK'
  <2>1. Plain /\ began \in Seq(Nat) BY <1>2, PlainTypes
  <2>2. fsynced' \in 0 .. written' /\ available' \in BOOLEAN /\ asleep' \in SUBSET Threads BY <1>0, <1>2, <1>7
  <2>3. Plain' BY <2>1, <2>2, <1>0, <1>1 DEF Plain
  <2>4. QED BY <2>1, <2>3, <1>0, <1>1, <1>6, TypesAfter
<1>9. Segments' BY <1>0, <1>2, <1>6 DEF LoggerInv, Segments
<1>10. OneWriter'
  <2>1. pc'[t] \notin HasOutput BY <1>1 DEF HasOutput, HasInput
  <2>2. QED BY <2>1, <1>0, <1>1, <1>3, OutputReleased
<1>11. acked' <= fsynced' /\ StillDurable(fsynced') /\ StillDurable(call[t].want)
  <2>1. acked <= fsynced /\ Durable(fsynced) BY DEF LoggerInv, Promises
  <2>2. StillDurable(fsynced) BY <2>1, <1>0, <1>6, DurableStays
  <2>3. 1 .. call[t].want \subseteq 1 .. l BY <1>1, <1>6
  <2>4. StillDurable(call[t].want) BY <2>3, <1>6 DEF StillDurable
  <2>5. acked' <= fsynced' BY <2>1, <1>1, <1>2, <1>6, <1>7
  <2>6. QED BY <2>2, <2>4, <2>5, <1>6, <1>7
<1>12. Promises'
  <2>1. Keeps(t) BY <1>1 DEF Keeps, HasOutput, HasInput
  <2>2. QED BY <2>1, <1>0, <1>1, <1>2, <1>6, <1>11, PromisesKept
<1>13. Checkpoints' BY <1>0, <1>6, <1>11, ReturnCheckpoints
<1>14. QED BY <1>6, <1>8, <1>9, <1>10, <1>12, <1>13 DEF LoggerInv

-----------------------------------------------------------------------------
(* Trimming and the crash *)

LEMMA TrimFilePreserves ==
  ASSUME LoggerInv, NEW t \in Threads, TrimFile(t)
  PROVE  LoggerInv'
<1>0. /\ UNCHANGED <<lsn, inbuf, outbuf, inMax, outMax, inputLock, available, asleep, written, fsynced, completed, ckBegin,
                     began, pc, call, acked, crashes>>
      /\ Len(files) > 1 /\ files[1].maxlsn < completed /\ files' = Tail(files)
  BY DEF TrimFile, Trimmable, buffers
<1>1. PICK E : E = files[1].ents OBVIOUS
<1>2. PICK m : m = files[1].maxlsn OBVIOUS
<1>3. /\ TypeOK /\ lsn \in Nat /\ written \in Nat /\ trimmed \in Nat /\ completed \in Nat /\ Front' = Front
      /\ Plain /\ began \in Seq(Nat) /\ pc \in [Threads -> PCs] /\ call \in [Threads -> Calls]
  BY <1>0, Types, PlainTypes DEF LoggerInv, Front
<1>4. Sound(files) /\ EntsIn(files) = InFiles /\ SyncedIn(files) = Synced BY SyncedLast
<1>5. /\ Sound(files') /\ EntsIn(files) = E \cup EntsIn(files') /\ SyncedIn(files) = E \cup SyncedIn(files')
      /\ Before(E, EntsIn(files')) /\ (\A l \in E : l <= m) /\ E \in SUBSET Nat /\ m \in Nat
  <2>1. /\ Sound(files') /\ EntsIn(files) = E \cup EntsIn(files') /\ SyncedIn(files) = E \cup SyncedIn(files')
        /\ Before(E, EntsIn(files')) /\ (\A l \in E : l <= m) /\ files[1] \in Files
    <3>1. Len(files) > 1 /\ files' = Tail(files) BY <1>0
    <3>2. QED BY ONLY <1>1, <1>2, <1>4, <3>1, TrimSound
  <2>2. QED BY <2>1, <1>1, <1>2, FileFacts
<1>6. /\ InFiles' = EntsIn(files') /\ Synced' = SyncedIn(files') /\ FilesExact' /\ files' \in Seq(Files) /\ files' # <<>>
  BY <1>5, ViewsAfter
<1>7. InFiles = E \cup InFiles' /\ Synced = E \cup Synced' /\ Before(E, InFiles') BY <1>4, <1>5, <1>6
<1>8. InFiles = trimmed + 1 .. written /\ trimmed <= written BY DEF LoggerInv, Segments
<1>9. /\ trimmed' \in Nat /\ trimmed' >= trimmed /\ trimmed' <= written /\ (\A l \in E : l <= trimmed')
      /\ (trimmed' = trimmed \/ trimmed' \in E)
  <2>1. PICK S : S = {trimmed} \cup E OBVIOUS
  <2>2. S \in SUBSET Nat /\ S # {} /\ \A l \in S : l <= written BY <2>1, <1>3, <1>5, <1>7, <1>8
  <2>3. Max(S) \in S /\ \A y \in S : Max(S) >= y BY ONLY <2>2, <1>3, MaxExists
  <2>4. trimmed' = Max(S) BY <2>1, <1>1 DEF TrimFile
  <2>5. QED BY <2>1, <2>2, <2>3, <2>4, <1>3
<1>10. InFiles' = trimmed' + 1 .. written
  <2>1. PICK w \in Nat, g \in Nat : w = written /\ g = trimmed BY <1>3
  <2>2. PICK h \in Nat : h = trimmed' /\ h >= g /\ h <= w /\ (\A l \in E : l <= h) /\ (h = g \/ h \in E)
    BY <2>1, <1>9
  <2>3. InFiles = g + 1 .. w BY <2>1, <1>8
  <2>4. ASSUME NEW l \in InFiles' PROVE l \in h + 1 .. w
    <3>1. l \in g + 1 .. w BY <2>3, <1>7
    <3>2. h < l BY <3>1, <2>2, <1>7 DEF Before
    <3>3. QED BY ONLY <3>1, <3>2, h \in Nat, g \in Nat, w \in Nat
  <2>5. ASSUME NEW l \in h + 1 .. w PROVE l \in InFiles'
    <3>0. h >= g BY <2>2
    <3>1. l \in g + 1 .. w /\ l > h BY ONLY <3>0, <2>5, h \in Nat, g \in Nat, w \in Nat
    <3>2. l \notin E BY <3>1, <2>2
    <3>3. QED BY <3>1, <3>2, <2>3, <1>7
  <2>6. QED BY <2>1, <2>2, <2>4, <2>5
\* the end of the checkpoint that makes the file superfluous is in a later file
<1>11. PICK e \in Synced : began[e] >= completed
  <2>1. completed # 0 BY <1>0, <1>2, <1>3, <1>5
  <2>2. QED BY <2>1 DEF LoggerInv, Checkpoints
<1>12. e \in Synced' /\ began[e] > m /\ began[e] \in Nat
  <2>1. e \in 1 .. lsn BY SyncedFacts
  <2>2. began[e] \in Nat /\ began[e] < e BY <2>1, <1>3 DEF LoggerInv, Checkpoints
  <2>3. began[e] > m BY <2>2, <1>0, <1>2, <1>3, <1>5, <1>11
  <2>4. e \notin E BY <2>1, <2>2, <2>3, <1>5
  <2>5. QED BY <2>2, <2>3, <2>4, <1>7
<1>13. TypeOK'
  <2>1. {acked, trimmed, crashes} \subseteq Nat BY <1>3 DEF Plain
  <2>2. {acked', trimmed', crashes'} \subseteq Nat BY <2>1, <1>0, <1>9
  <2>3. Plain' BY <2>2, <1>0, <1>3 DEF Plain
  <2>4. QED BY <2>3, <1>0, <1>3, <1>6, TypesAfter
<1>14. Segments' BY <1>0, <1>3, <1>9, <1>10 DEF LoggerInv, Segments
<1>15. OneWriter' BY <1>0 DEF LoggerInv, OneWriter
<1>16. Promises'
  <2>1. ASSUME NEW l, Durable(l) PROVE StillDurable(l)
    <3>1. ASSUME NEW k \in 1 .. l PROVE k <= trimmed' \/ k \in Synced'
      <4>1. CASE k \in Synced'  BY <4>1
      <4>2. CASE k \in E BY <4>2, <1>9
      <4>3. CASE k <= trimmed BY <4>3, <1>3, <1>9
      <4>4. QED BY <4>1, <4>2, <4>3, <2>1, <1>7 DEF Durable
    <3>2. QED BY <3>1 DEF StillDurable
  <2>2. acked' <= fsynced' /\ StillDurable(fsynced') BY <2>1, <1>0 DEF LoggerInv, Promises
  <2>3. \A u \in Threads : Keeps(u) BY <2>1, <1>0, <1>3 DEF LoggerInv, Promises, Keeps
  <2>4. QED BY <2>2, <2>3 DEF Promises, Keeps, StillDurable, Durable
<1>17. Checkpoints'
  <2>1. completed' # 0 => \E d \in Synced' : began'[d] >= completed' BY <1>0, <1>11, <1>12
  <2>2. trimmed' # 0 => \E d \in Synced' : began'[d] > trimmed'
    <3>1. CASE trimmed' \in E
      <4>1. began[e] > trimmed' BY <3>1, <1>5, <1>9, <1>12
      <4>2. QED BY <4>1, <1>0, <1>12
    <3>2. CASE trimmed' = trimmed /\ trimmed' \notin E
      <4>1. E = {} BY <3>2, <1>3, <1>7, <1>8, <1>9
      <4>2. Synced' = Synced BY <4>1, <1>7
      <4>3. QED BY <4>2, <3>2, <1>0 DEF LoggerInv, Checkpoints
    <3>3. QED BY <3>1, <3>2, <1>9
  <2>3. QED BY <2>1, <2>2, <1>0 DEF LoggerInv, Checkpoints
<1>18. QED BY <1>6, <1>13, <1>14, <1>15, <1>16, <1>17 DEF LoggerInv

LEMMA TrimDonePreserves ==
  ASSUME LoggerInv, NEW t \in Threads, TrimDone(t)
  PROVE  LoggerInv'
<1>0. /\ UNCHANGED <<lsn, inbuf, outbuf, inMax, outMax, inputLock, written, files, completed, began, acked, trimmed, crashes>>
      /\ pc[t] = "trimming" /\ ckBegin' = 0 /\ ReleaseOutput(call[t].seen) /\ Move(t, "idle")
      /\ call' = [call EXCEPT ![t] = NoCall]
  BY DEF TrimDone, buffers, ghosts
<1>1. TypeOK /\ lsn \in Nat /\ written \in Nat /\ Front \in Nat /\ Front' = Front /\ fsynced \in Nat /\ acked \in Nat
  BY <1>0, Types, FrontType DEF LoggerInv, Front
<1>2. /\ pc' \in [Threads -> PCs] /\ pc'[t] = "idle" /\ OthersWait(t)
      /\ call' \in [Threads -> Calls] /\ call'[t] = NoCall
  <2>1. pc \in [Threads -> PCs] /\ call \in [Threads -> Calls] /\ "idle" \in PCs BY Types DEF LoggerInv, PCs
  <2>2. pc' \in [Threads -> PCs] /\ pc'[t] = "idle" /\ \A u \in Threads : u # t => pc'[u] = pc[u]
    BY <2>1, <1>0, MoveFacts
  <2>3. call' \in [Threads -> Calls] /\ call'[t] = NoCall /\ \A u \in Threads : u # t => call'[u] = call[u]
    BY ONLY <2>1, <1>0, t \in Threads, NoCallFields, CallSet
  <2>4. QED BY <2>2, <2>3 DEF OthersWait
<1>3. pc[t] \in HasOutput /\ pc[t] \notin HasInput /\ pc[t] \notin {"spaceWrite", "write"}
  BY <1>0 DEF HasOutput, HasInput
<1>4. PICK l \in Nat : l = call[t].seen /\ l <= written /\ Durable(l) BY <1>3, Owner
<1>5. /\ available' = TRUE /\ asleep' = {} /\ fsynced' \in Nat /\ fsynced' >= fsynced
      /\ fsynced' <= written /\ (fsynced' = l \/ fsynced' = fsynced)
  BY <1>0, <1>4, Released
<1>6. InFiles' = InFiles /\ Synced' = Synced /\ FilesExact' /\ files' \in Seq(Files) /\ files' # <<>>
  BY <1>0, Kept
<1>7. TypeOK'
  <2>1. Plain /\ began \in Seq(Nat) BY <1>1, PlainTypes
  <2>2. fsynced' \in 0 .. written' /\ available' \in BOOLEAN /\ asleep' \in SUBSET Threads /\ ckBegin' \in 0 .. lsn'
    BY <1>0, <1>1, <1>5
  <2>3. Plain' BY <2>1, <2>2, <1>0 DEF Plain
  <2>4. QED BY <2>1, <2>3, <1>0, <1>2, <1>6, TypesAfter
<1>8. Segments' BY <1>0, <1>1, <1>6 DEF LoggerInv, Segments
<1>9. OneWriter'
  <2>1. pc'[t] \notin HasOutput BY <1>2 DEF HasOutput, HasInput
  <2>2. QED BY <2>1, <1>0, <1>2, <1>3, OutputReleased
<1>10. Promises'
  <2>1. acked <= fsynced /\ Durable(fsynced) BY DEF LoggerInv, Promises
  <2>2. StillDurable(l) /\ StillDurable(fsynced) BY <2>1, <1>0, <1>4, <1>6, DurableStays
  <2>3. acked' <= fsynced' BY <2>1, <1>0, <1>1, <1>5
  <2>4. Keeps(t) BY <1>2 DEF Keeps, HasOutput, HasInput
  <2>5. QED BY <2>2, <2>3, <2>4, <1>0, <1>1, <1>2, <1>5, <1>6, PromisesKept
<1>11. Checkpoints'
  <2>1. t = Checkpointer /\ Checkpoints BY <1>0 DEF LoggerInv, Checkpoints
  <2>2. ASSUME NEW u \in Threads PROVE InCheckpoint(u)
    <3>1. CASE u = t BY <3>1, <1>2, NoCallFields DEF InCheckpoint
    <3>2. CASE u # t
      <4>1. pc'[u] = pc[u] /\ call'[u] = call[u] BY <3>2, <1>2 DEF OthersWait
      <4>2. call[u].kind # "end" /\ call[u].kind # "begin" /\ pc[u] \notin {"trim", "trimming"}
        BY <3>2, <2>1 DEF Checkpoints
      <4>3. QED BY <4>1, <4>2 DEF InCheckpoint
    <3>3. QED BY <3>1, <3>2
  <2>3. QED BY <2>1, <2>2, <1>0, <1>6 DEF Checkpoints, InCheckpoint
<1>12. QED BY <1>6, <1>7, <1>8, <1>9, <1>10, <1>11 DEF LoggerInv

\* The log after a crash: all that was trimmed is gone, and the rest goes up to some LSN
\* that no thread was promised more than.
LEMMA LeftAfterCrash ==
  ASSUME LoggerInv, NEW left \in Survivors
  PROVE  /\ left \subseteq InFiles /\ Synced \subseteq left
         /\ \E top \in Nat : /\ left = trimmed + 1 .. top /\ trimmed <= top /\ top <= written /\ acked <= top
                             /\ Max({0} \cup left) = top
<1>1. PICK k \in 0 .. lsn : left = {l \in InFiles : l \in Synced \/ l <= k} BY DEF Survivors
<1>2. PICK w \in Nat, g \in Nat : w = written /\ g = trimmed /\ g <= w BY Types DEF LoggerInv, Segments
<1>3. InFiles = g + 1 .. w /\ Synced \subseteq InFiles /\ \A l \in InFiles, s \in Synced : l <= s => l \in Synced
  BY <1>2, SyncedFacts
<1>4. left \subseteq g + 1 .. w /\ Synced \subseteq left BY <1>1, <1>3
<1>5. \A l \in g + 1 .. w, s \in left : l <= s => l \in left
  <2> SUFFICES ASSUME NEW l \in g + 1 .. w, NEW s \in left, l <= s PROVE l \in left OBVIOUS
  <2>1. l \in InFiles BY <1>3
  <2>2. CASE s \in Synced BY <2>1, <2>2, <1>1, <1>3
  <2>3. CASE s <= k
    <3>0. lsn \in Nat BY Types DEF LoggerInv
    <3>1. s \in g + 1 .. w BY <1>4
    <3>2. l <= k BY <3>0, <3>1, <2>3, <1>1, <1>2
    <3>3. QED BY <2>1, <3>2, <1>1
  <2>4. QED BY <2>2, <2>3, <1>1
<1>6. PICK top : top = Max({0} \cup left) OBVIOUS
<1>7. top \in {0} \cup left /\ \A y \in {0} \cup left : top >= y
  <2>1. PICK S : S = {0} \cup left OBVIOUS
  <2>2. S \in SUBSET Nat /\ S # {} /\ \A l \in S : l <= w BY <2>1, <1>2, <1>4
  <2>3. Max(S) \in S /\ \A y \in S : Max(S) >= y BY ONLY <2>2, w \in Nat, MaxExists
  <2>4. QED BY <2>1, <2>3, <1>6
<1>8. top \in Nat /\ top <= w BY <1>2, <1>4, <1>7
<1>9. left = g + 1 .. top /\ g <= top
  <2>1. CASE left = {}
    <3>1. top = 0 /\ Synced = {} BY <2>1, <1>4, <1>7
    <3>2. g = 0 BY <3>1, <1>2 DEF LoggerInv, Checkpoints
    <3>3. QED BY <2>1, <3>1, <3>2
  <2>2. CASE left # {}
    <3>1. top \in left
      <4>1. PICK l \in left : TRUE BY <2>2
      <4>2. l > 0 /\ top >= l BY <4>1, <1>2, <1>4, <1>7
      <4>3. top # 0 BY <4>2, <1>4, <1>8
      <4>4. QED BY <4>3, <1>7
    <3>2. top \in g + 1 .. w BY <3>1, <1>4
    <3>3. ASSUME NEW l \in left PROVE l \in g + 1 .. top
      <4>1. l \in g + 1 .. w /\ top >= l BY <1>4, <1>7
      <4>2. QED BY ONLY <4>1, <1>8, g \in Nat, w \in Nat
    <3>4. ASSUME NEW l \in g + 1 .. top PROVE l \in left
      <4>1. l \in g + 1 .. w /\ l <= top BY ONLY <1>8, <3>4, g \in Nat, w \in Nat
      <4>2. QED BY <4>1, <3>1, <1>5
    <3>5. g <= top BY ONLY <3>2, g \in Nat, w \in Nat
    <3>6. QED BY <3>3, <3>4, <3>5
  <2>3. QED BY <2>1, <2>2
<1>10. acked <= top
  <2>1. acked <= fsynced /\ Durable(fsynced) /\ acked \in Nat /\ fsynced \in Nat BY Types DEF LoggerInv, Promises
  <2>2. CASE fsynced = 0 BY <2>1, <2>2, <1>8
  <2>3. CASE fsynced # 0
    <3>1. fsynced \in 1 .. fsynced BY <2>1, <2>3
    <3>2. fsynced <= trimmed \/ fsynced \in Synced BY <3>1, <2>1 DEF Durable
    <3>3. fsynced <= top
      <4>1. CASE fsynced <= trimmed BY <4>1, <2>1, <1>2, <1>8, <1>9
      <4>2. CASE fsynced \in Synced BY <4>2, <2>1, <1>4, <1>7, <1>8
      <4>3. QED BY <3>2, <4>1, <4>2
    <3>4. QED BY <3>3, <2>1, <1>8
  <2>4. QED BY <2>2, <2>3
<1>11. QED BY <1>2, <1>3, <1>4, <1>6, <1>8, <1>9, <1>10

\* The last LSN that toku_logfilemgr_init reads for each file
LEMMA ReadBack ==
  ASSUME LoggerInv, NEW left \in Survivors
  PROVE  /\ MaxLsnRead(Len(files), left) = Max({0} \cup left)
         /\ \A i \in 1 .. Len(files) : /\ MaxLsnRead(i, left) \in Nat
                                       /\ \A l \in files[i].ents \cap left : l <= MaxLsnRead(i, left)
<1>1. PICK n \in Nat : n = Len(files) /\ n >= 1 /\ DOMAIN files = 1 .. n
  <2>1. Sound(files) BY SyncedLast
  <2>2. QED BY <2>1, SoundFacts
<1>2. PICK top \in Nat : left = trimmed + 1 .. top BY LeftAfterCrash
<1>3. trimmed \in Nat BY Types DEF LoggerInv
<1>4. left \subseteq Nat /\ \A l \in left : l <= top BY <1>2, <1>3
<1>5. MaxLsnRead(n, left) = Max({0} \cup left)
  <2>1. left \subseteq InFiles BY LeftAfterCrash
  <2>2. UNION {files[j].ents \cap left : j \in 1 .. n} = left BY <2>1, <1>1 DEF InFiles
  <2>3. QED BY <2>2 DEF MaxLsnRead
<1>6. ASSUME NEW i \in 1 .. n
      PROVE  MaxLsnRead(i, left) \in Nat /\ \A l \in files[i].ents \cap left : l <= MaxLsnRead(i, left)
  <2>1. PICK S : S = {0} \cup UNION {files[j].ents \cap left : j \in 1 .. i} OBVIOUS
  <2>2. S \in SUBSET Nat /\ S # {} /\ \A l \in S : l <= top BY <2>1, <1>4
  <2>3. Max(S) \in S /\ \A y \in S : Max(S) >= y BY ONLY <2>2, top \in Nat, MaxExists
  <2>4. MaxLsnRead(i, left) = Max(S) BY <2>1 DEF MaxLsnRead
  <2>5. i \in 1 .. i /\ files[i].ents \cap left \subseteq S BY <2>1
  <2>6. QED BY <2>2, <2>3, <2>4, <2>5
<1>7. QED BY <1>1, <1>5, <1>6

LEMMA CrashPreserves ==
  ASSUME LoggerInv, Crash
  PROVE  LoggerInv'
<1>0. /\ inbuf' = {} /\ outbuf' = {} /\ inputLock' = None /\ available' = TRUE /\ asleep' = {}
      /\ completed' = 0 /\ ckBegin' = 0 /\ acked' = acked /\ trimmed' = trimmed /\ crashes' = crashes + 1
      /\ pc' = [t \in Threads |-> "idle"] /\ call' = [t \in Threads |-> NoCall]
  BY DEF Crash, ghosts
<1>1. PICK left \in Survivors :
        LET top == MaxLsnRead(Len(files), left) IN
        /\ lsn' = top /\ written' = top /\ fsynced' = top /\ inMax' = top /\ outMax' = top
        /\ files' = Append([i \in DOMAIN files |->
                              [ents   |-> files[i].ents \cap left,
                               synced |-> files[i].ents \cap left,
                               maxlsn |-> MaxLsnRead(i, left)]], NewFile(top))
        /\ began' = SubSeq(began, 1, top)
  BY DEF Crash
<1>2. PICK top \in Nat : /\ left = trimmed + 1 .. top /\ trimmed <= top /\ top <= written /\ acked <= top
                         /\ Max({0} \cup left) = top
  BY LeftAfterCrash
<1>3. MaxLsnRead(Len(files), left) = top BY <1>2, ReadBack
<1>4. /\ lsn' = top /\ written' = top /\ fsynced' = top /\ inMax' = top /\ outMax' = top
      /\ began' = SubSeq(began, 1, top)
  BY <1>1, <1>3
<1>5. /\ TypeOK /\ lsn \in Nat /\ written \in Nat /\ written <= lsn /\ trimmed \in Nat /\ acked \in Nat /\ crashes \in Nat
      /\ began \in Seq(Nat) /\ Len(began) = lsn
  BY Types DEF LoggerInv, Checkpoints
<1>6. InFiles' = left /\ Synced' = left /\ FilesExact' /\ files' \in Seq(Files) /\ files' # <<>>
  <2>1. Sound(files) /\ EntsIn(files) = InFiles BY SyncedLast
  <2>2. PICK n \in Nat : n = Len(files) /\ n >= 1 /\ DOMAIN files = 1 .. n /\ \A i \in 1 .. n : files[i] \in Files
    BY <2>1, SoundFacts
  <2>3. PICK H : H = [i \in 1 .. n |-> File(files[i].ents \cap left, files[i].ents \cap left, MaxLsnRead(i, left))]
    OBVIOUS
  <2>4. files' = Append(H, NewFile(top)) BY <2>2, <2>3, <1>1, <1>3 DEF File
  <2>5. left \in SUBSET Nat BY <1>2, <1>5
  <2>6. ASSUME NEW i \in 1 .. n
        PROVE  /\ H[i] \in Files /\ H[i].ents = files[i].ents \cap left /\ H[i].synced = H[i].ents
               /\ \A l \in H[i].ents : l <= H[i].maxlsn
    <3>1. H[i] = File(files[i].ents \cap left, files[i].ents \cap left, MaxLsnRead(i, left)) BY <2>3
    <3>2. MaxLsnRead(i, left) \in Nat /\ \A l \in files[i].ents \cap left : l <= MaxLsnRead(i, left)
      BY <2>2, ReadBack
    <3>3. PICK e, m : e = files[i].ents \cap left /\ m = MaxLsnRead(i, left) OBVIOUS
    <3>4. e \in SUBSET Nat /\ m \in Nat /\ \A l \in e : l <= m BY <3>2, <3>3, <2>5
    <3>5. PICK f : f = File(e, e, m) OBVIOUS
    <3>6. f.ents = e /\ f.synced = e /\ f.maxlsn = m /\ f \in Files BY ONLY <3>4, <3>5 DEF File, Files
    <3>7. QED BY <3>1, <3>3, <3>4, <3>5, <3>6
  <2>7. H \in [1 .. n -> Files] BY <2>3, <2>6
  <2>8. left \in SUBSET EntsIn(files) BY <2>1, LeftAfterCrash
  <2>9. Sound(H) /\ EntsIn(H) = left /\ SyncedIn(H) = left /\ Closed(H[Len(H)])
    BY <2>1, <2>2, <2>6, <2>7, <2>8, CrashSound
  <2>10. Sound(files') /\ EntsIn(files') = EntsIn(H) /\ SyncedIn(files') = SyncedIn(H)
    BY ONLY <2>4, <2>9, top \in Nat, AddSound
  <2>11. QED BY <2>9, <2>10, ViewsAfter
<1>7. began' \in Seq(Nat) /\ Len(began') = top /\ \A l \in 1 .. top : l \in 1 .. lsn /\ began'[l] = began[l]
  <2>1. top <= lsn BY <1>2, <1>5
  <2>2. \A l \in 1 .. top : l \in 1 .. lsn BY <2>1, <1>5
  <2>3. QED BY <2>1, <2>2, <1>4, <1>5
<1>8. TypeOK'
  <2>1. pc' \in [Threads -> PCs] /\ call' \in [Threads -> Calls] BY <1>0, NoCallFields DEF PCs
  <2>2. {acked', trimmed', crashes'} \subseteq Nat BY <1>0, <1>5
  <2>3. available' \in BOOLEAN BY <1>0
  <2>4. Plain' BY <2>2, <2>3, <1>0, <1>4 DEF Plain
  <2>5. QED BY <2>1, <2>4, <1>6, <1>7, TypesAfter
<1>9. Front' = top BY <1>0, <1>4 DEF Front
<1>10. Segments'
  <2>1. outbuf' = top + 1 .. top /\ inbuf' = top + 1 .. top BY <1>0
  <2>2. QED BY <2>1, <1>0, <1>2, <1>4, <1>6, <1>9 DEF Segments
<1>11. OneWriter'
  <2>1. \A t \in Threads : pc'[t] = "idle" /\ inputLock' # t BY <1>0, LoggerAssumption
  <2>2. QED BY <2>1, <1>0 DEF OneWriter, HasOutput, HasInput
<1>12. Promises'
  <2>1. \A t \in Threads : pc'[t] = "idle" BY <1>0
  <2>2. \A k \in 1 .. fsynced' : k <= trimmed' \/ k \in Synced' BY <1>0, <1>2, <1>4, <1>5, <1>6
  <2>3. acked' <= fsynced' BY <1>0, <1>2, <1>4
  <2>4. QED BY <2>1, <2>2, <2>3 DEF Promises, Durable, HasOutput, HasInput
<1>13. Checkpoints'
  <2>1. \A t \in Threads : pc'[t] = "idle" /\ call'[t].kind = "none" BY <1>0, NoCallFields
  <2>2. \A l \in 1 .. lsn' : began'[l] < l BY <1>4, <1>7 DEF LoggerInv, Checkpoints
  <2>3. \A k, l \in 1 .. lsn' : k < l /\ began'[k] # 0 /\ began'[l] # 0 => began'[k] <= began'[l]
    BY <1>4, <1>7 DEF LoggerInv, Checkpoints
  <2>4. trimmed' # 0 => \E e \in Synced' : began'[e] > trimmed'
    <3>1. ASSUME trimmed # 0 PROVE \E e \in Synced' : began'[e] > trimmed'
      <4>1. PICK e \in Synced : began[e] > trimmed BY <3>1 DEF LoggerInv, Checkpoints
      <4>2. e \in left BY LeftAfterCrash
      <4>3. e \in 1 .. top BY <4>2, <1>2, <1>5
      <4>4. QED BY <4>1, <4>2, <4>3, <1>0, <1>6, <1>7
    <3>2. QED BY <3>1, <1>0
  <2>5. QED BY <2>1, <2>2, <2>3, <2>4, <1>0, <1>4, <1>7 DEF Checkpoints
<1>14. QED BY <1>6, <1>8, <1>10, <1>11, <1>12, <1>13 DEF LoggerInv

-----------------------------------------------------------------------------
LEMMA InitInv == Init => LoggerInv
<1> SUFFICES ASSUME Init PROVE LoggerInv OBVIOUS
<1>1. /\ lsn = 0 /\ written = 0 /\ fsynced = 0 /\ inbuf = {} /\ outbuf = {} /\ inMax = 0 /\ outMax = 0
      /\ inputLock = None /\ available = TRUE /\ asleep = {} /\ completed = 0 /\ ckBegin = 0 /\ began = <<>>
      /\ acked = 0 /\ trimmed = 0 /\ crashes = 0 /\ files = <<NewFile(0)>>
      /\ pc = [t \in Threads |-> "idle"] /\ call = [t \in Threads |-> NoCall]
  BY DEF Init
<1>2. \A t \in Threads : pc[t] = "idle" /\ call[t] = NoCall BY <1>1
<1>3. files \in Seq(Files) /\ files # <<>> /\ DOMAIN files = {1} /\ Len(files) = 1 /\ files[1] = NewFile(0)
  <2>1. NewFile(0) \in Files BY DEF NewFile, Files
  <2>2. QED BY <2>1, <1>1
<1>4. files[1].ents = {} /\ files[1].synced = {} BY <1>3 DEF NewFile
<1>5. InFiles = {} /\ Synced = {} BY <1>3, <1>4 DEF InFiles, Synced
<1>6. FilesExact BY <1>3, <1>4 DEF FilesExact
<1>7. TypeOK
  <2>1. pc \in [Threads -> PCs] /\ call \in [Threads -> Calls] BY <1>1, NoCallFields DEF PCs
  <2>2. began \in Seq(Nat) BY <1>1
  <2>3. QED BY <2>1, <2>2, <1>1, <1>3 DEF TypeOK, PCs, Kinds, Calls
<1>8. Front = 0 BY <1>1 DEF Front
<1>9. Segments BY <1>1, <1>5, <1>8 DEF Segments
<1>10. OneWriter
  <2>1. \A t \in Threads : inputLock # t BY <1>1, LoggerAssumption
  <2>2. QED BY <2>1, <1>1, <1>2 DEF OneWriter, HasOutput, HasInput
<1>11. Promises BY <1>1, <1>2 DEF Promises, Durable, HasOutput, HasInput
<1>12. Checkpoints BY <1>1, <1>2, NoCallFields DEF Checkpoints
<1>13. QED BY <1>6, <1>7, <1>9, <1>10, <1>11, <1>12 DEF LoggerInv

LEMMA StepPreserves ==
  ASSUME LoggerInv, NEW t \in Threads, Step(t)
  PROVE  LoggerInv'
<1>1. CASE Sleep(t) BY <1>1, SleepPreserves
<1>2. CASE SpaceGrab(t) BY <1>2, GrabPreserves DEF SpaceGrab
<1>3. CASE SpaceFound(t) BY <1>3, SpacePutPreserves DEF SpaceFound
<1>4. CASE SpaceSwap(t)
  <2>1. <<pc[t], "spaceWrite">> \in {<<"spaceIn", "spaceWrite">>, <<"swap", "write">>} BY <1>4 DEF SpaceSwap
  <2>2. inputLock' = IF "spaceWrite" = "spaceWrite" THEN t ELSE inputLock BY <1>4 DEF SpaceSwap
  <2>3. QED BY <2>1, <2>2, <1>4, SwapPreserves DEF SpaceSwap
<1>5. CASE SpaceDone(t) BY <1>5, SpacePutPreserves DEF SpaceDone
<1>6. CASE WriteOutbuf(t) BY <1>6, WriteOutbufPreserves
<1>7. CASE Rotate(t) BY <1>7, RotatePreserves
<1>8. CASE AlreadyDone(t) BY <1>8, AlreadyDonePreserves
<1>9. CASE FsyncGrab(t) BY <1>9, GrabPreserves DEF FsyncGrab
<1>10. CASE FsyncSwap(t)
  <2>1. <<pc[t], "write">> \in {<<"spaceIn", "spaceWrite">>, <<"swap", "write">>} BY <1>10 DEF FsyncSwap
  <2>2. inputLock' = IF "write" = "spaceWrite" THEN t ELSE inputLock BY <1>10 DEF FsyncSwap
  <2>3. QED BY <2>1, <2>2, <1>10, SwapPreserves DEF FsyncSwap
<1>11. CASE FsyncDone(t) BY <1>11, FsyncDonePreserves
<1>12. CASE TrimGrab(t) BY <1>12, GrabPreserves DEF TrimGrab
<1>13. CASE TrimFile(t) BY <1>13, TrimFilePreserves
<1>14. CASE TrimDone(t) BY <1>14, TrimDonePreserves
<1>15. QED
  BY <1>1, <1>2, <1>3, <1>4, <1>5, <1>6, <1>7, <1>8, <1>9, <1>10, <1>11, <1>12, <1>13, <1>14 DEF Step

LEMMA NextPreserves == LoggerInv /\ [Next]_vars => LoggerInv'
<1> SUFFICES ASSUME LoggerInv, [Next]_vars PROVE LoggerInv' OBVIOUS
<1>1. CASE UNCHANGED vars
  <2>1. /\ UNCHANGED <<lsn, inbuf, outbuf, inMax, outMax, inputLock, available, asleep, written, fsynced, files, completed,
                       ckBegin, began, pc, call, acked, trimmed, crashes>>
    BY <1>1 DEF vars
  <2>2. InFiles' = InFiles /\ Synced' = Synced /\ FilesExact' BY <2>1, Kept
  <2>3. Front' = Front BY <2>1 DEF Front
  <2>4. TypeOK' BY <2>1 DEF LoggerInv, TypeOK
  <2>5. Segments' /\ OneWriter' BY <2>1, <2>2, <2>3 DEF LoggerInv, Segments, OneWriter
  <2>6. Promises' BY <2>1, <2>2, <2>3 DEF LoggerInv, Promises, Durable
  <2>7. Checkpoints' BY <2>1, <2>2 DEF LoggerInv, Checkpoints
  <2>8. QED BY <2>2, <2>4, <2>5, <2>6, <2>7 DEF LoggerInv
<1>2. ASSUME NEW t \in Threads, LogEntry(t) PROVE LoggerInv' BY <1>2, LogEntryPreserves
<1>3. ASSUME NEW t \in Threads, LogFlush(t) PROVE LoggerInv'
  <2>1. inMax \in Nat /\ inMax <= lsn /\ lsn \in Nat BY Types DEF LoggerInv
  <2>2. QED BY <2>1, <1>3, FsyncCallPreserves DEF LogFlush
<1>4. ASSUME NEW t \in Threads, Step(t) PROVE LoggerInv' BY <1>4, StepPreserves
<1>5. CASE FsyncIfLsnNotFsynced
  <2>1. ckBegin \in Nat /\ ckBegin <= lsn /\ lsn \in Nat BY Types DEF LoggerInv
  <2>2. Checkpointer \in Threads BY LoggerAssumption
  <2>3. QED BY <2>1, <2>2, <1>5, FsyncCallPreserves DEF FsyncIfLsnNotFsynced
<1>6. CASE Crash BY <1>6, CrashPreserves
<1>7. QED BY <1>1, <1>2, <1>3, <1>4, <1>5, <1>6 DEF Next

\* The invariant holds however many threads log, flush, checkpoint and trim, whatever the
\* sizes of the buffer and of the files, and after any number of crashes.
THEOREM LoggerInvariantHolds == Spec => []LoggerInv
<1>1. QED BY InitInv, NextPreserves, PTL DEF Spec

\* The entries of the log are one sequence without a gap, in the order of their LSNs.
THEOREM InOrderHolds == Spec => []InOrder
<1>1. LoggerInv => InOrder
  <2> SUFFICES ASSUME LoggerInv PROVE InOrder OBVIOUS
  <2>1. PICK w \in Nat, g \in Nat, f \in Nat, n \in Nat : w = written /\ g = trimmed /\ f = Front /\ n = lsn
    BY Types, FrontType DEF LoggerInv
  <2>2. /\ InFiles = g + 1 .. w /\ outbuf = w + 1 .. f /\ inbuf = f + 1 .. n /\ g <= w /\ w <= f /\ f <= n
    BY <2>1 DEF LoggerInv, Segments
  <2>3. InFiles \cup outbuf \cup inbuf = g + 1 .. n BY <2>2
  <2>4. Before(InFiles, outbuf) /\ Before(InFiles \cup outbuf, inbuf) BY <2>2 DEF Before
  <2>5. \A l \in InFiles : l <= w BY <2>2
  <2>6. outbuf # {} => outMax = Max(outbuf)
    <3>1. SUFFICES ASSUME outbuf # {} PROVE outMax = Max(outbuf) OBVIOUS
    <3>2. f = outMax BY <3>1, <2>1 DEF Front
    <3>3. f \in outbuf /\ \A y \in outbuf : f >= y BY <3>1, <2>2
    <3>4. Max(outbuf) \in outbuf /\ \A y \in outbuf : Max(outbuf) >= y BY ONLY <3>3, MaxIs
    <3>5. QED BY <3>2, <3>3, <3>4, <2>2
  <2>7. QED BY <2>1, <2>3, <2>4, <2>5, <2>6 DEF InOrder, LoggerInv, FilesExact
<1>2. QED BY <1>1, LoggerInvariantHolds, PTL

\* What toku_logger_maybe_fsync returned for is on disk, up to what a checkpoint made
\* superfluous, across rotation, trimming and crashes.
THEOREM CommitDurableHolds == Spec => []CommitDurable
<1>1. LoggerInv => CommitDurable
  <2> SUFFICES ASSUME LoggerInv, NEW l \in 1 .. acked PROVE l <= trimmed \/ l \in Synced BY DEF CommitDurable
  <2>1. acked <= fsynced /\ Durable(fsynced) /\ acked \in Nat /\ fsynced \in Nat BY Types DEF LoggerInv, Promises
  <2>2. l \in 1 .. fsynced BY <2>1
  <2>3. QED BY <2>1, <2>2 DEF Durable
<1>2. QED BY <1>1, LoggerInvariantHolds, PTL

\* Whatever a crash leaves of the log, recovery finds all entries from the begin of the
\* last checkpoint whose end is in the log.
THEOREM RecoveryHasItsLogHolds == Spec => []RecoveryHasItsLog
<1>1. LoggerInv => RecoveryHasItsLog
  <2> SUFFICES ASSUME LoggerInv, NEW left \in Survivors
               PROVE  LET ends == {l \in left : began[l] # 0}
                          from == IF ends = {} THEN 1 ELSE began[Max(ends)]
                      IN  from .. Max({0} \cup left) \subseteq left
    BY DEF RecoveryHasItsLog
  <2>1. PICK top \in Nat : left = trimmed + 1 .. top /\ trimmed <= top /\ top <= written /\ Max({0} \cup left) = top
    BY LeftAfterCrash
  <2>2. PICK g \in Nat : g = trimmed BY Types DEF LoggerInv
  <2>3. left = g + 1 .. top /\ Synced \subseteq left BY <2>1, <2>2, LeftAfterCrash
  <2>4. PICK ends : ends = {l \in left : began[l] # 0} OBVIOUS
  <2>5. CASE ends = {}
    <3>1. g = 0
      <4>1. ASSUME g # 0 PROVE FALSE
        <5>1. PICK e \in Synced : began[e] > g BY <4>1, <2>2 DEF LoggerInv, Checkpoints
        <5>2. began[e] # 0 BY <5>1
        <5>3. QED BY <5>1, <5>2, <2>3, <2>4, <2>5
      <4>2. QED BY <4>1
    <3>2. 1 .. top \subseteq left BY <3>1, <2>3
    <3>3. QED BY <3>2, <2>1, <2>4, <2>5
  <2>6. CASE ends # {}
    <3>1. ends \in SUBSET Nat /\ \A x \in ends : x <= top BY <2>3, <2>4
    <3>2. PICK m : m = Max(ends) OBVIOUS
    <3>3. m \in ends /\ \A y \in ends : m >= y BY ONLY <3>1, <3>2, <2>6, top \in Nat, MaxExists
    <3>4. /\ lsn \in Nat /\ top <= lsn /\ began \in Seq(Nat) /\ Len(began) = lsn
      <4>1. lsn \in Nat /\ written \in Nat /\ written <= lsn /\ began \in Seq(Nat) /\ Len(began) = lsn
        BY Types DEF LoggerInv, Checkpoints
      <4>2. QED BY <4>1, <2>1
    <3>5. \A l \in left : l \in 1 .. lsn BY <2>3, <3>4
    <3>6. m \in left /\ m \in 1 .. lsn /\ began[m] \in Nat /\ began[m] # 0 BY <2>4, <3>3, <3>4, <3>5
    <3>7. began[m] > g
      <4>1. CASE g = 0 BY <4>1, <3>6
      <4>2. CASE g # 0
        <5>1. PICK e \in Synced : began[e] > g BY <4>2, <2>2 DEF LoggerInv, Checkpoints
        <5>2. e \in left /\ e \in 1 .. lsn BY <5>1, <2>3, <3>5
        <5>3. began[e] \in Nat /\ began[e] # 0 BY <5>1, <5>2, <3>4
        <5>4. e \in ends /\ e <= m BY <5>2, <5>3, <2>4, <3>1, <3>3, <3>6
        <5>5. began[e] <= began[m]
          <6>1. CASE e = m BY <6>1, <3>6
          <6>2. CASE e # m
            <7>1. e < m BY <6>2, <5>2, <5>4, <3>6
            <7>2. QED BY <7>1, <5>2, <5>3, <3>6 DEF LoggerInv, Checkpoints
          <6>3. QED BY <6>1, <6>2
        <5>6. QED BY <5>1, <5>3, <5>5, <3>6
      <4>3. QED BY <4>1, <4>2
    <3>8. began[m] .. top \subseteq left BY <3>6, <3>7, <2>3
    <3>9. QED BY <3>2, <3>8, <2>1, <2>4, <2>6
  <2>7. QED BY <2>5, <2>6
<1>2. QED BY <1>1, LoggerInvariantHolds, PTL

=============================================================================
