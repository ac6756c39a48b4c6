------------------------------ MODULE LockTree ------------------------------
(***************************************************************************)
(* A locktree (locktree/locktree.cc) and the clients that fill and empty   *)
(* it (src/ydb_row_lock.cc, src/ydb_txn.cc): consolidation of overlapping  *)
(* ranges, the single-transaction optimization (STO) that keeps ranges in  *)
(* a buffer instead of the tree, lock escalation with its callback into    *)
(* each transaction, release range by range, and the memory accounting.    *)
(*                                                                         *)
(* An action is one visit to the tree under the lock of its root, or one   *)
(* section of a transaction's txn_mutex.  Escalation keeps the root locked *)
(* while it calls back into one transaction after another.                 *)
(***************************************************************************)
EXTENDS Integers, FiniteSets

CONSTANTS Txns,          \* transaction ids
          Keys,          \* the keys, as numbers in comparator order
          None,
          ScoreThreshold,  \* STO_SCORE_THRESHOLD
          BufferMax,       \* STO_BUFFER_MAX_SIZE
          Batch,           \* num_row_locks_per_batch of escalate
          MaxLocks,        \* bound: locks a transaction asks for
          HotIndexer       \* may a hot indexer lock rows for a transaction?

ASSUME LockTreeAssumption ==
  /\ Txns \subseteq Nat /\ Keys \subseteq Int
  /\ None \notin Txns
  /\ ScoreThreshold \in Nat /\ BufferMax \in Nat /\ MaxLocks \in Nat
  /\ Batch \in Nat \ {0}
  /\ HotIndexer \in BOOLEAN

\* ranges are closed on both sides, with the left end at most the right end
Ranges    == {r \in [l : Keys, r : Keys] : r.l <= r.r}
TreeLocks == {a \in [l : Keys, r : Keys, txn : Txns] : a.l <= a.r}

VARIABLES
  tree,       \* m_rangetree: the row locks
  sto,        \* m_sto_txnid
  stoBuffer,  \* the ranges in m_sto_buffer
  stoSize,    \* how many records m_sto_buffer has, repeated ones included
  score,      \* m_sto_score
  mem,        \* m_current_lock_memory of the manager, in records
  pc,         \* where each transaction stands with its release
  live,       \* transactions in the transaction manager
  granted,    \* ranges that are locked but not noted yet
  noted,      \* the ranges in each transaction's lt_map buffer
  notedSize,  \* how many records that buffer has
  used,       \* requests made so far
  escalated   \* transactions that a running escalation has still to call back, or None

stoVars    == <<sto, stoBuffer, stoSize>>
clientVars == <<pc, live, granted, noted, notedSize, used>>
vars       == <<tree, sto, stoBuffer, stoSize, score, mem, pc, live, granted, noted,
                notedSize, used, escalated>>

Init ==
  /\ tree = {} /\ sto = None /\ stoBuffer = {} /\ stoSize = 0
  /\ score = ScoreThreshold
  /\ mem = 0
  /\ pc = [t \in Txns |-> "run"]
  /\ live = Txns
  /\ granted = [t \in Txns |-> {}]
  /\ noted = [t \in Txns |-> {}]
  /\ notedSize = [t \in Txns |-> 0]
  /\ used = [t \in Txns |-> 0]
  /\ escalated = None

\* lkr.prepare gets the lock of the root at once
RootFree == escalated = None
-----------------------------------------------------------------------------
(* Faulty variants of the operations below, for the checks of the properties *)
\* The dominating range stops at the right end of the request.
DominatesMut(n, r, O) ==
  /\ n.l \in {r.l} \cup {a.l : a \in O} /\ n.l <= r.l /\ \A a \in O : n.l <= a.l
  /\ n.r = r.r
\* Ranges that share only an end point do not overlap.
OverlapsMut(a, b) == a.l < b.r /\ b.l < a.r
\* The migrated locks are not accounted for.
EarlyMemMut(t) == IF sto # None /\ (sto # t \/ stoSize > BufferMax) THEN mem - stoSize ELSE mem
\* The score goes past its threshold.
NextScoreMut == score + 1
\* The client asks for the next lock before it has noted the last one.
MayAskMut(t) == t \in live /\ pc[t] = "run" /\ used[t] < MaxLocks /\ escalated = None
\* A transaction stays in the transaction manager while it releases its locks.
EndMut(t) ==
  /\ t \in live /\ pc[t] = "run"
  /\ granted[t] = {} /\ noted[t] # {}
  /\ pc' = [pc EXCEPT ![t] = "ended"]
  /\ UNCHANGED <<tree, stoVars, score, mem, live, granted, noted, notedSize, used, escalated>>
\* sto_try_release trusts its first look.
StoTryReleaseMut(t) ==
  /\ pc[t] = "stoRelease" /\ escalated = None
  /\ sto' = None /\ stoBuffer' = {} /\ stoSize' = 0
  /\ pc' = [pc EXCEPT ![t] = "done"]
  /\ noted' = [noted EXCEPT ![t] = {}]
  /\ notedSize' = [notedSize EXCEPT ![t] = 0]
  /\ mem' = mem - stoSize - notedSize[t]
  /\ UNCHANGED <<tree, score, live, granted, used, escalated>>
\* The thread waits for the optimization that its first look saw.
StoTryReleaseWaitMut(t) ==
  /\ pc[t] = "stoRelease" /\ escalated = None /\ sto # None
  /\ sto' = None /\ stoBuffer' = {} /\ stoSize' = 0
  /\ pc' = [pc EXCEPT ![t] = "done"]
  /\ noted' = [noted EXCEPT ![t] = {}]
  /\ notedSize' = [notedSize EXCEPT ![t] = 0]
  /\ mem' = mem - stoSize - notedSize[t]
  /\ UNCHANGED <<tree, score, live, granted, used, escalated>>
\* A release removes what overlaps, whoever owns it.
RemoveOverlappingMut(t, r) == {a \in tree : a.l <= r.r /\ r.l <= a.r}
-----------------------------------------------------------------------------
(* The range tree *)

Overlaps(a, b)  == a.l <= b.r /\ b.l <= a.r
Lock(r, t)      == [l |-> r.l, r |-> r.r, txn |-> t]
Span(a)         == [l |-> a.l, r |-> a.r]
Overlapping(T, r) == {a \in T : Overlaps(a, r)}

\* determine_conflicting_txnids
Conflicting(T, t, r) == {a.txn : a \in Overlapping(T, r)} \ {t}

\* acquire_lock_consolidated without conflicts: the overlapping locks and the range
\* become one lock that dominates them
Dominates(n, r, O) ==
  /\ n.l \in {r.l} \cup {a.l : a \in O} /\ n.l <= r.l /\ \A a \in O : n.l <= a.l
  /\ n.r \in {r.r} \cup {a.r : a \in O} /\ r.r <= n.r /\ \A a \in O : a.r <= n.r

\* What is left when every range of S is acquired in turn for one transaction: the
\* runs of overlapping ranges, each from the start of a run to its end.
Starts(S) == {r.l : r \in {q \in S : ~ \E p \in S : p.l < q.l /\ q.l <= p.r}}
Ends(S)   == {r.r : r \in {q \in S : ~ \E p \in S : p.l <= q.r /\ q.r < p.r}}
Merged(S) ==
  {n \in [l : Starts(S), r : Ends(S)] :
     n.l <= n.r /\ ~ \E x \in Starts(S) : n.l < x /\ x <= n.r}

\* escalate: the locks in key order, cut into batches; neighbours of one batch and one
\* transaction become one lock
BatchOf(T, a)      == Cardinality({b \in T : b.l < a.l}) \div Batch
SameRun(T, a, b)   ==
  /\ BatchOf(T, a) = BatchOf(T, b)
  /\ \A c \in T : (a.l <= c.l /\ c.l <= b.l) \/ (b.l <= c.l /\ c.l <= a.l) => c.txn = a.txn
Escalated(T) ==
  {[l |-> p[1].l, r |-> p[2].r, txn |-> p[1].txn] :
     p \in {q \in T \X T : \A c \in T : SameRun(T, q[1], c) <=> q[1].l <= c.l /\ c.l <= q[2].l}}
-----------------------------------------------------------------------------
(* The single-transaction optimization *)

\* sto_end_early: the buffered ranges go to the tree; T is the tree after that
EndsEarly(t) == sto # None /\ (sto # t \/ stoSize > BufferMax)
AfterMigration == {Lock(r, sto) : r \in Merged(stoBuffer)}
EarlyTree(t)   == IF EndsEarly(t) THEN AfterMigration ELSE tree
EarlyMem(t)    == IF EndsEarly(t) THEN mem + Cardinality(AfterMigration) - stoSize ELSE mem

\* sto_end, and the score of sto_end_early
StoEnd == sto' = None /\ stoBuffer' = {} /\ stoSize' = 0

EndEarlyIfNeeded(t) ==
  \/ EndsEarly(t) /\ StoEnd /\ score' = 0
  \/ ~ EndsEarly(t) /\ UNCHANGED <<stoVars, score>>

\* sto_try_acquire begins or goes on with the optimization
StoApplies(t) ==
  \/ tree = {} /\ stoBuffer = {} /\ score >= ScoreThreshold
  \/ sto # None /\ ~ EndsEarly(t)
-----------------------------------------------------------------------------
(* Acquiring locks *)

\* one request of the client thread; the hot indexer may have another under way
MayAsk(t) ==
  /\ t \in live /\ pc[t] = "run"
  /\ used[t] < MaxLocks
  /\ granted[t] = {} \/ HotIndexer
  /\ RootFree

Granted(t, r) ==
  /\ granted' = [granted EXCEPT ![t] = @ \cup {r}]
  /\ used' = [used EXCEPT ![t] = @ + 1]
  /\ UNCHANGED <<pc, live, noted, notedSize, escalated>>

AcquireSto(t, r) ==
  /\ MayAsk(t)
  /\ StoApplies(t)
  /\ sto' = t
  /\ stoBuffer' = stoBuffer \cup {r}
  /\ stoSize' = stoSize + 1
  /\ mem' = mem + 1
  /\ Granted(t, r)
  /\ UNCHANGED <<tree, score>>

AcquireTree(t, r) ==
  /\ MayAsk(t)
  /\ ~ StoApplies(t)
  /\ Conflicting(EarlyTree(t), t, r) = {}
  /\ \E n \in Ranges :
       /\ Dominates(n, r, Overlapping(EarlyTree(t), r))
       /\ tree' = (EarlyTree(t) \ Overlapping(EarlyTree(t), r)) \cup {Lock(n, t)}
  /\ mem' = EarlyMem(t) - Cardinality(Overlapping(EarlyTree(t), r)) + 1
  /\ EndEarlyIfNeeded(t)
  /\ Granted(t, r)

\* the request is refused, but the optimization is over all the same
AcquireConflict(t, r) ==
  /\ MayAsk(t)
  /\ ~ StoApplies(t)
  /\ Conflicting(EarlyTree(t), t, r) # {}
  /\ tree' = EarlyTree(t)
  /\ mem' = EarlyMem(t)
  /\ EndEarlyIfNeeded(t)
  /\ used' = [used EXCEPT ![t] = @ + 1]
  /\ UNCHANGED <<pc, live, granted, noted, notedSize, escalated>>

\* db_txn_note_row_lock
NoteRowLock(t, r) ==
  /\ r \in granted[t]
  /\ granted' = [granted EXCEPT ![t] = @ \ {r}]
  /\ noted' = [noted EXCEPT ![t] = @ \cup {r}]
  /\ notedSize' = [notedSize EXCEPT ![t] = @ + 1]
  /\ mem' = mem + 1
  /\ UNCHANGED <<tree, stoVars, score, pc, live, used, escalated>>
-----------------------------------------------------------------------------
(* The end of a transaction *)

\* toku_txn_complete_txn, and then txn_mutex, which the thread keeps until it is done
\* (there is nothing to do if the transaction never met this locktree)
End(t) ==
  /\ t \in live /\ pc[t] = "run"
  /\ granted[t] = {}
  /\ live' = live \ {t}
  /\ pc' = [pc EXCEPT ![t] = IF noted[t] = {} THEN "done" ELSE "ended"]
  /\ UNCHANGED <<tree, stoVars, score, mem, granted, noted, notedSize, used, escalated>>

\* release_locks: the unlocked look at m_sto_txnid
StoLook(t) ==
  /\ pc[t] = "ended"
  /\ pc' = [pc EXCEPT ![t] = IF sto # None THEN "stoRelease" ELSE "releasing"]
  /\ UNCHANGED <<tree, stoVars, score, mem, live, granted, noted, notedSize, used, escalated>>

\* the rest of toku_db_release_lt_key_ranges, up to the retry of the lock requests
Released(t, m) ==
  /\ pc' = [pc EXCEPT ![t] = "done"]
  /\ noted' = [noted EXCEPT ![t] = {}]
  /\ notedSize' = [notedSize EXCEPT ![t] = 0]
  /\ mem' = m - notedSize[t]

\* sto_try_release looks again, with the root locked
StoTryRelease(t) ==
  /\ pc[t] = "stoRelease" /\ RootFree
  /\ \/ sto # None /\ StoEnd /\ Released(t, mem - stoSize)
     \/ /\ sto = None
        /\ pc' = [pc EXCEPT ![t] = "releasing"]
        /\ UNCHANGED <<stoVars, mem, noted, notedSize>>
  /\ UNCHANGED <<tree, score, live, granted, used, escalated>>

\* release_locks brings the optimization nearer with each release from the tree
NextScore == IF score < ScoreThreshold THEN score + 1 ELSE score

\* remove_overlapping_locks_for_txnid
RemoveOverlapping(t, r) == {a \in Overlapping(tree, r) : a.txn = t}

ReleaseOne(t, r) ==
  /\ pc[t] = "releasing" /\ RootFree
  /\ r \in noted[t]
  /\ tree' = tree \ RemoveOverlapping(t, r)
  /\ LET m == mem - Cardinality(RemoveOverlapping(t, r)) IN
       \/ /\ noted[t] = {r}
          /\ Released(t, m)
          /\ score' = NextScore
       \/ /\ noted[t] # {r}
          /\ noted' = [noted EXCEPT ![t] = @ \ {r}]
          /\ mem' = m
          /\ UNCHANGED <<pc, notedSize, score>>
  /\ UNCHANGED <<stoVars, live, granted, used, escalated>>
-----------------------------------------------------------------------------
(* Escalation *)

\* escalate up to its callbacks: nobody sees the tree before the root is unlocked
EscalateBegin ==
  /\ RootFree
  /\ LET T == Escalated(EarlyTree(None)) IN
       /\ T # {}
       /\ tree' = T
       /\ mem' = EarlyMem(None) - Cardinality(EarlyTree(None)) + Cardinality(T)
       /\ escalated' = {a.txn : a \in T}
  /\ EndEarlyIfNeeded(None)
  /\ UNCHANGED clientVars

LocksOf(t) == {a \in tree : a.txn = t}

\* txn_mutex is held by the thread that releases its locks
MutexFree(t) == pc[t] \notin {"ended", "stoRelease", "releasing"}

\* toku_db_txn_escalate_callback for the next transaction
EscalateCallback(t) ==
  /\ escalated # None /\ t \in escalated /\ \A u \in escalated : t <= u
  /\ \/ /\ t \in live /\ MutexFree(t) /\ notedSize[t] > 0
        /\ noted' = [noted EXCEPT ![t] = {Span(a) : a \in LocksOf(t)}]
        /\ notedSize' = [notedSize EXCEPT ![t] = Cardinality(LocksOf(t))]
        /\ mem' = mem - notedSize[t] + Cardinality(LocksOf(t))
     \/ /\ t \in live /\ MutexFree(t) /\ notedSize[t] = 0
        /\ UNCHANGED <<noted, notedSize, mem>>
     \/ /\ t \notin live
        /\ UNCHANGED <<noted, notedSize, mem>>
  /\ escalated' = escalated \ {t}
  /\ UNCHANGED <<tree, stoVars, score, pc, live, granted, used>>

EscalateEnd ==
  /\ escalated = {}
  /\ escalated' = None
  /\ UNCHANGED <<tree, stoVars, score, mem, clientVars>>
-----------------------------------------------------------------------------
Step(t) ==
  \/ StoLook(t) \/ StoTryRelease(t)
  \/ \E r \in Ranges : NoteRowLock(t, r) \/ ReleaseOne(t, r)

EscalateStep == EscalateEnd \/ \E t \in Txns : EscalateCallback(t)

Next ==
  \/ \E t \in Txns :
       \/ \E r \in Ranges : AcquireSto(t, r) \/ AcquireTree(t, r) \/ AcquireConflict(t, r)
       \/ End(t) \/ Step(t)
  \/ EscalateBegin \/ EscalateStep

Spec == Init /\ [][Next]_vars

(***************************************************************************)
(* A thread that releases its locks or escalates goes on with it.  Nothing *)
(* obliges a transaction to ask or to end, or the manager to escalate.     *)
(***************************************************************************)
Fairness == WF_vars(EscalateStep) /\ \A t \in Txns : WF_vars(Step(t))
FairSpec == Spec /\ Fairness
-----------------------------------------------------------------------------
\* Every variable has its type.
TypeOK ==
  /\ tree \in SUBSET TreeLocks
  /\ sto \in Txns \cup {None} /\ stoBuffer \in SUBSET Ranges /\ stoSize \in Nat
  /\ score \in 0..ScoreThreshold /\ mem \in Int
  /\ pc \in [Txns -> {"run", "ended", "stoRelease", "releasing", "done"}]
  /\ live \in SUBSET Txns
  /\ granted \in [Txns -> SUBSET Ranges] /\ noted \in [Txns -> SUBSET Ranges]
  /\ notedSize \in [Txns -> Nat] /\ used \in [Txns -> Nat]
  /\ escalated = None \/ escalated \in SUBSET Txns

\* No two row locks overlap, whoever owns them: neither consolidation, nor the
\* migration of the STO buffer, nor escalation leaves a key with two locks.
Disjoint ==
  \A a, b \in tree : a # b =>
    ~ \E k \in Keys : a.l <= k /\ k <= a.r /\ b.l <= k /\ k <= b.r

\* the keys that t has locked
Holds(t) ==
  {k \in Keys :
     \/ \E a \in tree : a.txn = t /\ a.l <= k /\ k <= a.r
     \/ sto = t /\ \E r \in stoBuffer : r.l <= k /\ k <= r.r}

\* A live transaction holds every key of every range it was granted, through
\* migration, consolidation and escalation, and whatever the others release.
KeepsItsLocks ==
  \A t \in live : \A r \in granted[t] \cup noted[t] :
    \A k \in Keys : r.l <= k /\ k <= r.r => k \in Holds(t)

\* The row locks are exclusive and last: the two of them together.
LocksExact == Disjoint /\ KeepsItsLocks

\* Nothing is leaked.  Each lock of a transaction overlaps a range that it has noted
\* and not released yet, or will note, so that the last ReleaseOne leaves none, even
\* if escalation changed the locks and could not tell a transaction that has ended.
NothingLeaked ==
  /\ \A a \in tree : \E r \in granted[a.txn] \cup noted[a.txn] : a.l <= r.r /\ r.l <= a.r
  /\ \A t \in Txns : pc[t] = "done" => Holds(t) = {}

\* the records of the transactions' own buffers, numbered in each buffer
BufferRecords(size) == UNION {{t} \X (1 .. size[t]) : t \in Txns}

\* The memory tracker is exact: the row locks in the tree, the records of the STO
\* buffer and of the transactions' own buffers, and nothing else.  The manager
\* escalates and refuses locks by this number, and asserts that it ends at zero.
MemoryExact == mem = Cardinality(tree) + stoSize + Cardinality(BufferRecords(notedSize))

\* "The escalated lock set must be the single lock that this txnid just acquired"
\* (ydb_row_lock.cc, lines 162-167), when a live transaction that has no buffer for
\* this locktree is called back.
CallbackSeesOneLock ==
  \A t \in live : escalated # None /\ t \in escalated /\ notedSize[t] = 0
    => Cardinality(LocksOf(t)) = 1

\* An escalation gets through its callbacks: it never waits for the txn_mutex of a
\* transaction that waits for the root ("it is impossible to deadlock on the txn mutex").
EscalationEnds == escalated # None ~> escalated = None

\* A transaction that ends releases all its locks, whatever happened to the
\* optimization between the two looks of release_locks, once the escalations, which
\* could take the root from it again and again, are over.
ReleaseEnds ==
  <>[](escalated = None) => \A t \in Txns : pc[t] = "ended" ~> pc[t] = "done"

\* The locktree is an implementation of the abstract row locks.
RL == INSTANCE RowLocks WITH held <- [t \in Txns |-> Holds(t)]
RLSpec == RL!Spec

(***************************************************************************)
(* Why they hold.  Locks do not touch each other; a transaction that has   *)
(* not begun to release has one lock, or one record of the STO buffer, for *)
(* each of its ranges; the optimization runs only while the tree is empty, *)
(* for a transaction whose release will find it, and never during an       *)
(* escalation; and who is to be called back has a lock.                    *)
(***************************************************************************)
Apart == \A a, b \in tree : a # b => a.r < b.l \/ b.r < a.l

Covered(t, r) ==
  \/ \E a \in tree : a.txn = t /\ a.l <= r.l /\ r.r <= a.r
  \/ sto = t /\ \E q \in stoBuffer : q.l <= r.l /\ r.r <= q.r

NotReleasing == {"run", "ended", "stoRelease"}
AllCovered ==
  \A t \in Txns : pc[t] \in NotReleasing => \A r \in granted[t] \cup noted[t] : Covered(t, r)

AllTraced == \A a \in tree : \E r \in granted[a.txn] \cup noted[a.txn] : a.l <= r.r /\ r.l <= a.r

StoExact ==
  /\ sto = None <=> stoBuffer = {}
  /\ sto = None => stoSize = 0
  /\ sto # None => /\ tree = {} /\ escalated = None
                   /\ pc[sto] \in NotReleasing /\ stoBuffer \subseteq granted[sto] \cup noted[sto]

PhasesExact ==
  \A t \in Txns :
    /\ t \in live <=> pc[t] = "run"
    /\ pc[t] # "run" => granted[t] = {}
    /\ pc[t] \in {"ended", "stoRelease", "releasing"} => noted[t] # {}
    /\ pc[t] = "done" => noted[t] = {}
    /\ pc[t] = "run" => (noted[t] = {} <=> notedSize[t] = 0)
    /\ ~ HotIndexer => \A r, q \in granted[t] : r = q

CalledHaveLocks == escalated # None => \A t \in escalated : \E a \in tree : a.txn = t

LockTreeInv ==
  /\ TypeOK /\ IsFiniteSet(tree) /\ IsFiniteSet(stoBuffer)
  /\ IsFiniteSet(BufferRecords(notedSize)) /\ MemoryExact
  /\ Apart /\ AllCovered /\ AllTraced /\ StoExact /\ PhasesExact /\ CalledHaveLocks
=============================================================================
