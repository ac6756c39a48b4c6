------------------------- MODULE LockRequestProofs -------------------------
(***************************************************************************)
(* Proofs about LockRequest for any set of transactions, keys and ranges:  *)
(* no grant is missed, no lock outlives its transaction, and no deadlock   *)
(* is reported that is not there.                                          *)
(***************************************************************************)
EXTENDS LockRequest, TLAPS

-----------------------------------------------------------------------------
(* What a grant and a release do to the conflicts of the others *)

\* A grant takes nothing from anybody: it only adds to the conflicts of a request.
LEMMA GrantAddsConflicts ==
  ASSUME TypeOK, NEW t \in Txns, NEW r \in SUBSET Keys, Conflicts(t, r) = {}, Grant(t, r),
         NEW w \in Txns, req'[w] = req[w]
  PROVE  Conflicts(w, req[w]) \subseteq Conflicts(w, req[w])'
<1> SUFFICES ASSUME NEW u \in Conflicts(w, req[w]) PROVE u \in Conflicts(w, req[w])'
  OBVIOUS
<1>1. PICK k \in req[w] : owner[k] = u /\ u # w /\ u # None
  BY DEF Conflicts
<1>2. k \in Keys /\ owner'[k] = (IF k \in r THEN t ELSE owner[k])
  BY <1>1 DEF TypeOK, Grant
<1>3. k \in r => owner[k] = t
  BY <1>1 DEF Conflicts
<1>4. owner'[k] = u BY <1>1, <1>2, <1>3
<1>5. QED BY <1>1, <1>4 DEF Conflicts

\* The same of a retry that grants the request of t.
LEMMA RetryAddsConflicts ==
  ASSUME TypeOK, NEW t \in Txns, RetryGrants(t), UNCHANGED req
  PROVE  \A w \in Txns : Conflicts(w, req[w]) \subseteq Conflicts(w, req[w])'
<1>1. req[t] \in SUBSET Keys /\ Conflicts(t, req[t]) = {} /\ Grant(t, req[t])
  BY DEF TypeOK, RetryGrants
<1>2. QED BY <1>1, GrantAddsConflicts

\* With the same owners and the same range the conflicts are the same.
LEMMA ConflictsStay ==
  ASSUME UNCHANGED owner, NEW w \in Txns, req'[w] = req[w]
  PROVE  Conflicts(w, req[w])' = Conflicts(w, req[w])
  BY DEF Conflicts

\* NoMissedGrant survives a step that lets nobody sleep without a conflict who did
\* not before, if whoever would retry a request still has somebody to do it.
LEMMA RetriersStay ==
  ASSUME NoMissedGrant,
         \A w \in Txns : Waits(w)' /\ Conflicts(w, req[w])' = {}
                         => Waits(w) /\ Conflicts(w, req[w]) = {},
         \A u, w \in Txns : Waits(w)' /\ Conflicts(w, req[w])' = {} /\ WillRetry(u, w)
                            => \E v \in Txns : WillRetry(v, w)'
  PROVE  NoMissedGrant'
  BY DEF NoMissedGrant

-----------------------------------------------------------------------------
(* Every action preserves the invariant *)

\* A new lock takes nothing from anybody: the conflicts of the others only grow.
LEMMA StartGrantedInv ==
  ASSUME IInv, NEW t \in Txns, NEW r \in Ranges, StartGranted(t, r)
  PROVE  IInv'
<1> USE DEF IInv, TypeOK, StartGranted, At, Move, requests, group, Grant, Complete
<1>1. TypeOK'
  BY LockRequestAssumption
<1>2. StatusExact'
  BY DEF StatusExact, Ended
<1>3. PendingExact'
  BY DEF PendingExact, StatusExact, Ended
<1>4. LocksAccounted'
  BY DEF LocksAccounted, StatusExact, Ended
<1>5. Generations'
  BY DEF Generations, IsNextGeneration
<1>6. LoopExact'
  BY DEF LoopExact, InfoFree
<1>7. FoundHonest'
  <2> SUFFICES ASSUME NEW w \in Txns, pc'[w] = "conflicted", NEW u \in found'[w]
               PROVE  u \in Conflicts(w, req[w])' \/ pc'[u] \in {"releasing"} \cup Ended
    BY DEF FoundHonest
  <2>1. w # t /\ pc[w] = "conflicted" /\ req'[w] = req[w] /\ found'[w] = found[w]
    OBVIOUS
  <2>2. Conflicts(w, req[w]) \subseteq Conflicts(w, req[w])'
    BY <2>1, GrantAddsConflicts, LockRequestAssumption
  <2>3. u \in Conflicts(w, req[w]) \/ pc[u] \in {"releasing"} \cup Ended
    BY <2>1 DEF FoundHonest
  <2>4. u \in Txns
    BY <2>1
  <2>5. QED BY <2>2, <2>3, <2>4 DEF Ended
<1>8. NoMissedGrant'
  <2>1. \A w \in Txns : Waits(w)' /\ Conflicts(w, req[w])' = {}
                        => Waits(w) /\ Conflicts(w, req[w]) = {}
    BY GrantAddsConflicts, LockRequestAssumption DEF Waits
  <2>2. \A u, w \in Txns : Waits(w)' /\ Conflicts(w, req[w])' = {} /\ WillRetry(u, w)
                           => \E v \in Txns : WillRetry(v, w)'
    BY DEF WillRetry, IsNextGeneration
  <2>3. QED BY <2>1, <2>2, RetriersStay
<1>9. QED BY <1>1, <1>2, <1>3, <1>4, <1>5, <1>6, <1>7, <1>8

\* A refused request leaves no trace.
LEMMA StartOutOfLocksInv ==
  ASSUME IInv, NEW t \in Txns, StartOutOfLocks(t)
  PROVE  IInv'
<1> USE DEF IInv, TypeOK, StartOutOfLocks, At, Move, requests, group
<1>1. TypeOK'
  BY LockRequestAssumption
<1>2. StatusExact'
  BY DEF StatusExact, Ended
<1>3. PendingExact'
  BY DEF PendingExact, StatusExact, Ended
<1>4. LocksAccounted'
  BY DEF LocksAccounted, StatusExact, Ended
<1>5. Generations'
  BY DEF Generations, IsNextGeneration
<1>6. LoopExact'
  BY DEF LoopExact, InfoFree
<1>7. FoundHonest'
  BY DEF FoundHonest, Conflicts, Ended
<1>8. NoMissedGrant'
  <2>1. \A w \in Txns : Waits(w)' /\ Conflicts(w, req[w])' = {}
                        => Waits(w) /\ Conflicts(w, req[w]) = {}
    <3>1. \A w \in Txns : Waits(w)' => Waits(w) /\ req'[w] = req[w]
      BY DEF Waits
    <3>2. QED BY <3>1, ConflictsStay
  <2>2. \A u, w \in Txns : Waits(w)' /\ Conflicts(w, req[w])' = {} /\ WillRetry(u, w)
                           => \E v \in Txns : WillRetry(v, w)'
    BY DEF WillRetry, IsNextGeneration
  <2>3. QED BY <2>1, <2>2, RetriersStay
<1>9. QED BY <1>1, <1>2, <1>3, <1>4, <1>5, <1>6, <1>7, <1>8

\* The conflict set of the new request holds the owners of its keys.
LEMMA StartConflictInv ==
  ASSUME IInv, NEW t \in Txns, NEW r \in Ranges, StartConflict(t, r)
  PROVE  IInv'
<1> USE DEF IInv, TypeOK, StartConflict, At, Move, requests, group
<1>1. TypeOK'
  <2>1. Conflicts(t, r) \subseteq Txns
    BY LockRequestAssumption DEF Conflicts
  <2>2. QED BY <2>1, LockRequestAssumption
<1>2. StatusExact'
  BY DEF StatusExact, Ended
<1>3. PendingExact'
  BY DEF PendingExact, StatusExact, Ended
<1>4. LocksAccounted'
  BY DEF LocksAccounted, StatusExact, Ended
<1>5. Generations'
  BY DEF Generations, IsNextGeneration
<1>6. LoopExact'
  BY DEF LoopExact, InfoFree
<1>7. FoundHonest'
  BY DEF FoundHonest, Conflicts, Ended
<1>8. NoMissedGrant'
  <2>1. \A w \in Txns : Waits(w)' /\ Conflicts(w, req[w])' = {}
                        => Waits(w) /\ Conflicts(w, req[w]) = {}
    <3>1. \A w \in Txns : Waits(w)' => Waits(w) /\ req'[w] = req[w]
      BY DEF Waits
    <3>2. QED BY <3>1, ConflictsStay
  <2>2. \A u, w \in Txns : Waits(w)' /\ Conflicts(w, req[w])' = {} /\ WillRetry(u, w)
                           => \E v \in Txns : WillRetry(v, w)'
    BY DEF WillRetry, IsNextGeneration
  <2>3. QED BY <2>1, <2>2, RetriersStay
<1>9. QED BY <1>1, <1>2, <1>3, <1>4, <1>5, <1>6, <1>7, <1>8

\* The request joins the pending set, or is gone if it would deadlock.
LEMMA StartPendInv ==
  ASSUME IInv, NEW t \in Txns, StartPend(t)
  PROVE  IInv'
<1> USE DEF IInv, TypeOK, StartPend, At, Move, requests, group, Destroy, InsertPending, InfoFree
<1>1. TypeOK'
  BY LockRequestAssumption
<1>2. StatusExact'
  BY DEF StatusExact, Ended
<1>3. PendingExact'
  <2>1. t \notin pending /\ status[t] = "pending"
    BY DEF PendingExact, StatusExact
  <2>2. CASE DeadlockExists(t)
    BY <2>1, <2>2 DEF PendingExact
  <2>3. CASE ~ DeadlockExists(t)
    BY <2>1, <2>3 DEF PendingExact
  <2>4. QED BY <2>2, <2>3
<1>4. LocksAccounted'
  <2>1. \A k \in Keys : owner'[k] # None =>
          \/ \E q \in noted'[owner'[k]] : k \in q
          \/ status'[owner'[k]] = "granted" /\ k \in req'[owner'[k]]
    <3> TAKE k \in Keys
    <3>1. status[t] = "pending"
      BY DEF StatusExact
    <3>2. owner[k] # None => owner[k] \in Txns
      OBVIOUS
    <3>3. QED BY <3>1, <3>2 DEF LocksAccounted
  <2>2. \A u \in Txns : pc'[u] \in Ended => noted'[u] = {}
    BY DEF LocksAccounted, Ended
  <2>3. QED BY <2>1, <2>2 DEF LocksAccounted
<1>5. Generations'
  BY DEF Generations, IsNextGeneration
<1>6. LoopExact'
  BY DEF LoopExact
<1>7. FoundHonest'
  BY DEF FoundHonest, Conflicts, Ended
<1>8. NoMissedGrant'
  <2>1. \A w \in Txns : Waits(w)' /\ Conflicts(w, req[w])' = {}
                        => Waits(w) /\ Conflicts(w, req[w]) = {}
    <3>1. \A w \in Txns : Waits(w)' => Waits(w) /\ req'[w] = req[w]
      BY DEF Waits
    <3>2. QED BY <3>1, ConflictsStay
  <2>2. \A u, w \in Txns : Waits(w)' /\ Conflicts(w, req[w])' = {} /\ WillRetry(u, w)
                           => \E v \in Txns : WillRetry(v, w)'
    BY DEF WillRetry, IsNextGeneration
  <2>3. QED BY <2>1, <2>2, RetriersStay
<1>9. QED BY <1>1, <1>2, <1>3, <1>4, <1>5, <1>6, <1>7, <1>8

\* wait() retries the request under the mutex before it sleeps: it sleeps only if it meets a conflict.
LEMMA WaitEnterInv ==
  ASSUME IInv, NEW t \in Txns, WaitEnter(t)
  PROVE  IInv'
<1> USE DEF IInv, TypeOK, WaitEnter, At, Move, requests, group, WaitRetry, RetryGrants, RetryFails, Grant, RemovePending, Complete, InfoFree
<1>1. TypeOK'
  <2>1. CASE RetryGrants(t)
    BY <2>1, LockRequestAssumption
  <2>2. CASE RetryFails(t)
    BY <2>2, LockRequestAssumption
  <2>3. QED BY <2>1, <2>2
<1>2. StatusExact'
  BY DEF StatusExact, Ended
<1>3. PendingExact'
  <2>1. CASE RetryGrants(t)
    BY <2>1 DEF PendingExact
  <2>2. CASE RetryFails(t)
    BY <2>2 DEF PendingExact
  <2>3. QED BY <2>1, <2>2
<1>4. LocksAccounted'
  BY DEF LocksAccounted, StatusExact, Ended
<1>5. Generations'
  BY DEF Generations, IsNextGeneration
<1>6. LoopExact'
  BY DEF LoopExact
<1>7. FoundHonest'
  <2>1. CASE RetryGrants(t)
    BY <2>1, RetryAddsConflicts DEF FoundHonest, Ended
  <2>2. CASE RetryFails(t)
    BY <2>2 DEF FoundHonest, Conflicts, Ended
  <2>3. QED BY <2>1, <2>2
<1>8. NoMissedGrant'
  <2>1. \A w \in Txns : Waits(w)' /\ Conflicts(w, req[w])' = {}
                        => Waits(w) /\ Conflicts(w, req[w]) = {}
    <3>1. CASE RetryGrants(t)
      BY <3>1, RetryAddsConflicts DEF Waits
    <3>2. CASE RetryFails(t)
      <4>1. \A w \in Txns : Waits(w)' => Waits(w) \/ w = t
        BY <3>2 DEF Waits
      <4>2. QED BY <3>2, <4>1, ConflictsStay
    <3>3. QED BY <3>1, <3>2
  <2>2. \A u, w \in Txns : Waits(w)' /\ Conflicts(w, req[w])' = {} /\ WillRetry(u, w)
                           => \E v \in Txns : WillRetry(v, w)'
    BY DEF WillRetry, IsNextGeneration
  <2>3. QED BY <2>1, <2>2, RetriersStay
<1>9. QED BY <1>1, <1>2, <1>3, <1>4, <1>5, <1>6, <1>7, <1>8

\* The waiting thread takes the outcome that another thread gave to its request.
LEMMA WaitReturnInv ==
  ASSUME IInv, NEW t \in Txns, WaitReturn(t)
  PROVE  IInv'
<1> USE DEF IInv, TypeOK, WaitReturn, At, Move, requests, group, Destroy, InfoFree
<1>1. TypeOK'
  BY LockRequestAssumption
<1>2. StatusExact'
  BY DEF StatusExact, Ended
<1>3. PendingExact'
  BY DEF PendingExact, StatusExact, Ended
<1>4. LocksAccounted'
  BY DEF LocksAccounted, StatusExact, Ended
<1>5. Generations'
  BY DEF Generations, IsNextGeneration
<1>6. LoopExact'
  BY DEF LoopExact
<1>7. FoundHonest'
  BY DEF FoundHonest, Conflicts, Ended
<1>8. NoMissedGrant'
  <2>1. \A w \in Txns : Waits(w)' /\ Conflicts(w, req[w])' = {}
                        => Waits(w) /\ Conflicts(w, req[w]) = {}
    <3>1. \A w \in Txns : Waits(w)' => Waits(w) /\ req'[w] = req[w]
      BY DEF Waits
    <3>2. QED BY <3>1, ConflictsStay
  <2>2. \A u, w \in Txns : Waits(w)' /\ Conflicts(w, req[w])' = {} /\ WillRetry(u, w)
                           => \E v \in Txns : WillRetry(v, w)'
    BY DEF WillRetry, IsNextGeneration
  <2>3. QED BY <2>1, <2>2, RetriersStay
<1>9. QED BY <1>1, <1>2, <1>3, <1>4, <1>5, <1>6, <1>7, <1>8

\* A request that timed out leaves the pending set together with its thread.
LEMMA WaitExpiresInv ==
  ASSUME IInv, NEW t \in Txns, WaitExpires(t)
  PROVE  IInv'
<1> USE DEF IInv, TypeOK, WaitExpires, At, Move, requests, group, RemovePending, Destroy, InfoFree
<1>1. TypeOK'
  BY LockRequestAssumption
<1>2. StatusExact'
  BY DEF StatusExact, Ended
<1>3. PendingExact'
  BY DEF PendingExact, StatusExact, Ended
<1>4. LocksAccounted'
  BY DEF LocksAccounted, StatusExact, Ended
<1>5. Generations'
  BY DEF Generations, IsNextGeneration
<1>6. LoopExact'
  BY DEF LoopExact
<1>7. FoundHonest'
  BY DEF FoundHonest, Conflicts, Ended
<1>8. NoMissedGrant'
  <2>1. \A w \in Txns : Waits(w)' /\ Conflicts(w, req[w])' = {}
                        => Waits(w) /\ Conflicts(w, req[w]) = {}
    <3>1. \A w \in Txns : Waits(w)' => Waits(w) /\ req'[w] = req[w]
      BY DEF Waits
    <3>2. QED BY <3>1, ConflictsStay
  <2>2. \A u, w \in Txns : Waits(w)' /\ Conflicts(w, req[w])' = {} /\ WillRetry(u, w)
                           => \E v \in Txns : WillRetry(v, w)'
    BY DEF WillRetry, IsNextGeneration
  <2>3. QED BY <2>1, <2>2, RetriersStay
<1>9. QED BY <1>1, <1>2, <1>3, <1>4, <1>5, <1>6, <1>7, <1>8

\* A killed request is complete; its thread has still to see it.
LEMMA KillWaiterInv ==
  ASSUME IInv, NEW t \in Txns, KillWaiter(t)
  PROVE  IInv'
<1> USE DEF IInv, TypeOK, KillWaiter, At, Move, requests, group, RemovePending, Complete, InfoFree
<1>1. TypeOK'
  BY LockRequestAssumption
<1>2. StatusExact'
  <2>1. pc[t] \in {"started", "asleep"} /\ status[t] = "pending"
    BY DEF PendingExact
  <2>2. QED BY <2>1 DEF StatusExact, Ended
<1>3. PendingExact'
  BY DEF PendingExact, StatusExact, Ended
<1>4. LocksAccounted'
  <2>1. status[t] = "pending" /\ \A u \in Txns : status'[u] = "granted" <=> status[u] = "granted"
    BY DEF PendingExact
  <2>2. QED BY <2>1 DEF LocksAccounted
<1>5. Generations'
  BY DEF Generations, IsNextGeneration
<1>6. LoopExact'
  BY DEF LoopExact
<1>7. FoundHonest'
  BY DEF FoundHonest, Conflicts, Ended
<1>8. NoMissedGrant'
  <2>1. \A w \in Txns : Waits(w)' /\ Conflicts(w, req[w])' = {}
                        => Waits(w) /\ Conflicts(w, req[w]) = {}
    <3>1. \A w \in Txns : Waits(w)' => Waits(w) /\ req'[w] = req[w]
      BY DEF Waits
    <3>2. QED BY <3>1, ConflictsStay
  <2>2. \A u, w \in Txns : Waits(w)' /\ Conflicts(w, req[w])' = {} /\ WillRetry(u, w)
                           => \E v \in Txns : WillRetry(v, w)'
    BY DEF WillRetry, IsNextGeneration
  <2>3. QED BY <2>1, <2>2, RetriersStay
<1>9. QED BY <1>1, <1>2, <1>3, <1>4, <1>5, <1>6, <1>7, <1>8

\* The lock that was the request's is now noted.
LEMMA NoteRowLockInv ==
  ASSUME IInv, NEW t \in Txns, NoteRowLock(t)
  PROVE  IInv'
<1> USE DEF IInv, TypeOK, NoteRowLock, At, Move, requests, group, Destroy
<1>1. TypeOK'
  <2>1. req[t] \in Ranges
    BY DEF StatusExact
  <2>2. QED BY <2>1, LockRequestAssumption
<1>2. StatusExact'
  BY DEF StatusExact, Ended
<1>3. PendingExact'
  BY DEF PendingExact, StatusExact, Ended
<1>4. LocksAccounted'
  BY DEF LocksAccounted, StatusExact, Ended
<1>5. Generations'
  BY DEF Generations, IsNextGeneration
<1>6. LoopExact'
  BY DEF LoopExact, InfoFree
<1>7. FoundHonest'
  BY DEF FoundHonest, Conflicts, Ended
<1>8. NoMissedGrant'
  <2>1. \A w \in Txns : Waits(w)' /\ Conflicts(w, req[w])' = {}
                        => Waits(w) /\ Conflicts(w, req[w]) = {}
    <3>1. \A w \in Txns : Waits(w)' => Waits(w) /\ req'[w] = req[w]
      BY DEF Waits
    <3>2. QED BY <3>1, ConflictsStay
  <2>2. \A u, w \in Txns : Waits(w)' /\ Conflicts(w, req[w])' = {} /\ WillRetry(u, w)
                           => \E v \in Txns : WillRetry(v, w)'
    BY DEF WillRetry, IsNextGeneration
  <2>3. QED BY <2>1, <2>2, RetriersStay
<1>9. QED BY <1>1, <1>2, <1>3, <1>4, <1>5, <1>6, <1>7, <1>8

\* A transaction that ends will retry the requests of the others.
LEMMA BeginReleaseInv ==
  ASSUME IInv, NEW t \in Txns, BeginRelease(t)
  PROVE  IInv'
<1> USE DEF IInv, TypeOK, BeginRelease, At, Move, requests, group
<1>1. TypeOK'
  BY LockRequestAssumption
<1>2. StatusExact'
  BY DEF StatusExact, Ended
<1>3. PendingExact'
  BY DEF PendingExact, StatusExact, Ended
<1>4. LocksAccounted'
  BY DEF LocksAccounted, StatusExact, Ended
<1>5. Generations'
  BY DEF Generations, IsNextGeneration
<1>6. LoopExact'
  BY DEF LoopExact, InfoFree
<1>7. FoundHonest'
  BY DEF FoundHonest, Conflicts, Ended
<1>8. NoMissedGrant'
  BY DEF NoMissedGrant, Waits, WillRetry, Conflicts, IsNextGeneration
<1>9. QED BY <1>1, <1>2, <1>3, <1>4, <1>5, <1>6, <1>7, <1>8

\* While a transaction releases its locks, it is one that will retry every request.
LEMMA ReleaseOneInv ==
  ASSUME IInv, NEW t \in Txns, NEW r \in Ranges, ReleaseOne(t, r)
  PROVE  IInv'
<1> USE DEF IInv, TypeOK, ReleaseOne, At, Move, requests, group
<1>1. TypeOK'
  BY LockRequestAssumption
<1>2. StatusExact'
  BY DEF StatusExact, Ended
<1>3. PendingExact'
  BY DEF PendingExact, StatusExact, Ended
<1>4. LocksAccounted'
  BY DEF LocksAccounted, StatusExact, Ended
<1>5. Generations'
  BY DEF Generations, IsNextGeneration
<1>6. LoopExact'
  BY DEF LoopExact, InfoFree
<1>7. FoundHonest'
  BY DEF FoundHonest, Conflicts, Ended
<1>8. NoMissedGrant'
  BY DEF NoMissedGrant, Waits, WillRetry, Conflicts, IsNextGeneration
<1>9. QED BY <1>1, <1>2, <1>3, <1>4, <1>5, <1>6, <1>7, <1>8

\* The look at pending_is_empty is unlocked, but whoever is pending later tries the lock itself.
LEMMA RetryCheckInv ==
  ASSUME IInv, NEW t \in Txns, RetryCheck(t)
  PROVE  IInv'
<1> USE DEF IInv, TypeOK, RetryCheck, At, Move, requests, group
<1>1. TypeOK'
  BY LockRequestAssumption
<1>2. StatusExact'
  BY DEF StatusExact, Ended
<1>3. PendingExact'
  BY DEF PendingExact, StatusExact, Ended
<1>4. LocksAccounted'
  BY DEF LocksAccounted, StatusExact, Ended
<1>5. Generations'
  BY DEF Generations, IsNextGeneration
<1>6. LoopExact'
  BY DEF LoopExact, InfoFree
<1>7. FoundHonest'
  BY DEF FoundHonest, Conflicts, Ended
<1>8. NoMissedGrant'
  <2>1. \A w \in Txns : Waits(w)' /\ Conflicts(w, req[w])' = {}
                        => Waits(w) /\ Conflicts(w, req[w]) = {}
    <3>1. \A w \in Txns : Waits(w)' => Waits(w) /\ req'[w] = req[w]
      BY DEF Waits
    <3>2. QED BY <3>1, ConflictsStay
  <2>2. \A u, w \in Txns : Waits(w)' /\ Conflicts(w, req[w])' = {} /\ WillRetry(u, w)
                           => \E v \in Txns : WillRetry(v, w)'
    <3>1. pendingIsEmpty => \A w \in Txns : ~ Waits(w)'
      BY DEF Waits, PendingExact
    <3>2. QED BY <3>1 DEF WillRetry, IsNextGeneration
  <2>3. QED BY <2>1, <2>2, RetriersStay
<1>9. QED BY <1>1, <1>2, <1>3, <1>4, <1>5, <1>6, <1>7, <1>8

\* The thread that asks for a new generation is the next one, or another thread is.
LEMMA RetryWantInv ==
  ASSUME IInv, NEW t \in Txns, RetryWant(t)
  PROVE  IInv'
<1> USE DEF IInv, TypeOK, RetryWant, At, Move, requests, group
<1>1. TypeOK'
  BY LockRequestAssumption
<1>2. StatusExact'
  BY DEF StatusExact, Ended
<1>3. PendingExact'
  BY DEF PendingExact, StatusExact, Ended
<1>4. LocksAccounted'
  BY DEF LocksAccounted, StatusExact, Ended
<1>5. Generations'
  BY DEF Generations, IsNextGeneration
<1>6. LoopExact'
  BY DEF LoopExact, InfoFree
<1>7. FoundHonest'
  BY DEF FoundHonest, Conflicts, Ended
<1>8. NoMissedGrant'
  <2>1. \A w \in Txns : Waits(w)' /\ Conflicts(w, req[w])' = {}
                        => Waits(w) /\ Conflicts(w, req[w]) = {}
    <3>1. \A w \in Txns : Waits(w)' => Waits(w) /\ req'[w] = req[w]
      BY DEF Waits
    <3>2. QED BY <3>1, ConflictsStay
  <2>2. \A u, w \in Txns : Waits(w)' /\ Conflicts(w, req[w])' = {} /\ WillRetry(u, w)
                           => \E v \in Txns : WillRetry(v, w)'
    <3>1. \E v \in Txns : \A w \in Txns : WillRetry(v, w)'
      BY <1>5 DEF Generations, WillRetry
    <3>2. QED BY <3>1
  <2>3. QED BY <2>1, <2>2, RetriersStay
<1>9. QED BY <1>1, <1>2, <1>3, <1>4, <1>5, <1>6, <1>7, <1>8

\* A thread that steps back leaves a thread of the next generation behind.
LEMMA RetryGateInv ==
  ASSUME IInv, NEW t \in Txns, RetryGate(t)
  PROVE  IInv'
<1> USE DEF IInv, TypeOK, RetryGate, At, Move, requests, group, RetryRun
<1>1. TypeOK'
  BY LockRequestAssumption
<1>2. StatusExact'
  BY DEF StatusExact, Ended
<1>3. PendingExact'
  BY DEF PendingExact, StatusExact, Ended
<1>4. LocksAccounted'
  BY DEF LocksAccounted, StatusExact, Ended
<1>5. Generations'
  BY DEF Generations, IsNextGeneration
<1>6. LoopExact'
  BY DEF LoopExact, InfoFree
<1>7. FoundHonest'
  BY DEF FoundHonest, Conflicts, Ended
<1>8. NoMissedGrant'
  <2>1. \A w \in Txns : Waits(w)' /\ Conflicts(w, req[w])' = {}
                        => Waits(w) /\ Conflicts(w, req[w]) = {}
    <3>1. \A w \in Txns : Waits(w)' => Waits(w) /\ req'[w] = req[w]
      BY DEF Waits
    <3>2. QED BY <3>1, ConflictsStay
  <2>2. \A u, w \in Txns : Waits(w)' /\ Conflicts(w, req[w])' = {} /\ WillRetry(u, w)
                           => \E v \in Txns : WillRetry(v, w)'
    BY DEF WillRetry, IsNextGeneration
  <2>3. QED BY <2>1, <2>2, RetriersStay
<1>9. QED BY <1>1, <1>2, <1>3, <1>4, <1>5, <1>6, <1>7, <1>8

\* The thread woken from retry_cv runs a retry for all generations wanted so far.
LEMMA RetryCvInv ==
  ASSUME IInv, NEW t \in Txns, RetryCv(t)
  PROVE  IInv'
<1> USE DEF IInv, TypeOK, RetryCv, At, Move, requests, group, RetryRun
<1>1. TypeOK'
  BY LockRequestAssumption
<1>2. StatusExact'
  BY DEF StatusExact, Ended
<1>3. PendingExact'
  BY DEF PendingExact, StatusExact, Ended
<1>4. LocksAccounted'
  BY DEF LocksAccounted, StatusExact, Ended
<1>5. Generations'
  BY DEF Generations, IsNextGeneration
<1>6. LoopExact'
  BY DEF LoopExact, InfoFree
<1>7. FoundHonest'
  BY DEF FoundHonest, Conflicts, Ended
<1>8. NoMissedGrant'
  <2>1. \A w \in Txns : Waits(w)' /\ Conflicts(w, req[w])' = {}
                        => Waits(w) /\ Conflicts(w, req[w]) = {}
    <3>1. \A w \in Txns : Waits(w)' => Waits(w) /\ req'[w] = req[w]
      BY DEF Waits
    <3>2. QED BY <3>1, ConflictsStay
  <2>2. \A u, w \in Txns : Waits(w)' /\ Conflicts(w, req[w])' = {} /\ WillRetry(u, w)
                           => \E v \in Txns : WillRetry(v, w)'
    BY DEF WillRetry, IsNextGeneration
  <2>3. QED BY <2>1, <2>2, RetriersStay
<1>9. QED BY <1>1, <1>2, <1>3, <1>4, <1>5, <1>6, <1>7, <1>8

\* The loop will visit everyone who waits.
LEMMA RetryLoopBeginInv ==
  ASSUME IInv, NEW t \in Txns, RetryLoopBegin(t)
  PROVE  IInv'
<1> USE DEF IInv, TypeOK, RetryLoopBegin, At, Move, requests, group, InfoFree
<1>1. TypeOK'
  BY LockRequestAssumption
<1>2. StatusExact'
  BY DEF StatusExact, Ended
<1>3. PendingExact'
  BY DEF PendingExact, StatusExact, Ended
<1>4. LocksAccounted'
  BY DEF LocksAccounted, StatusExact, Ended
<1>5. Generations'
  BY DEF Generations, IsNextGeneration
<1>6. LoopExact'
  <2>1. \A u \in Txns : u # None
    BY LockRequestAssumption
  <2>2. QED BY <2>1 DEF LoopExact
<1>7. FoundHonest'
  BY DEF FoundHonest, Conflicts, Ended
<1>8. NoMissedGrant'
  <2>1. \A w \in Txns : Waits(w)' /\ Conflicts(w, req[w])' = {}
                        => Waits(w) /\ Conflicts(w, req[w]) = {}
    <3>1. \A w \in Txns : Waits(w)' => Waits(w) /\ req'[w] = req[w]
      BY DEF Waits
    <3>2. QED BY <3>1, ConflictsStay
  <2>2. \A u, w \in Txns : Waits(w)' /\ Conflicts(w, req[w])' = {} /\ WillRetry(u, w)
                           => \E v \in Txns : WillRetry(v, w)'
    <3>1. \A w \in Txns : Waits(w)' => w \in visit'
      BY DEF Waits, PendingExact
    <3>2. QED BY <3>1 DEF WillRetry
  <2>3. QED BY <2>1, <2>2, RetriersStay
<1>9. QED BY <1>1, <1>2, <1>3, <1>4, <1>5, <1>6, <1>7, <1>8

\* A visit grants a request, or finds that it is still blocked.
LEMMA RetryVisitInv ==
  ASSUME IInv, NEW t \in Txns, RetryVisit(t)
  PROVE  IInv'
<1> USE DEF IInv, TypeOK, RetryVisit, At, Move, requests, group, RetryGrants, RetryFails, Grant, RemovePending, Complete
<1>0. PICK q \in visit : /\ q \in pending /\ q \in Txns
                         /\ pc[q] \in {"started", "asleep"} /\ status[q] = "pending"
                         /\ RetryGrants(q) \/ RetryFails(q)
                         /\ visit' = visit \ {q}
  BY DEF LoopExact, PendingExact
<1>1. TypeOK'
  <2>1. CASE RetryGrants(q)
    BY <1>0, <2>1, LockRequestAssumption
  <2>2. CASE RetryFails(q)
    BY <1>0, <2>2
  <2>3. QED BY <1>0, <2>1, <2>2
<1>2. StatusExact'
  BY <1>0 DEF StatusExact, Ended
<1>3. PendingExact'
  <2>1. CASE RetryGrants(q)
    <3>1. pending' = pending \ {q} /\ pendingIsEmpty' = (pending' = {}) /\ pc' = pc
      BY <2>1
    <3>2. \A w \in Txns : status'[w] = "pending" <=> status[w] = "pending" /\ w # q
      BY <1>0, <2>1
    <3>3. QED BY <3>1, <3>2 DEF PendingExact
  <2>2. CASE RetryFails(q)
    BY <1>0, <2>2 DEF PendingExact
  <2>3. QED BY <1>0, <2>1, <2>2
<1>4. LocksAccounted'
  BY <1>0 DEF LocksAccounted
<1>5. Generations'
  BY DEF Generations, IsNextGeneration
<1>6. LoopExact'
  BY <1>0 DEF LoopExact, InfoFree
<1>7. FoundHonest'
  <2>1. CASE RetryGrants(q)
    BY <1>0, <2>1, RetryAddsConflicts DEF FoundHonest
  <2>2. CASE RetryFails(q)
    BY <2>2 DEF FoundHonest, Conflicts
  <2>3. QED BY <1>0, <2>1, <2>2
<1>8. NoMissedGrant'
  <2>1. \A w \in Txns : Waits(w)' /\ Conflicts(w, req[w])' = {}
                        => Waits(w) /\ Conflicts(w, req[w]) = {}
    <3>1. CASE RetryGrants(q)
      BY <1>0, <3>1, RetryAddsConflicts DEF Waits
    <3>2. CASE RetryFails(q)
      <4>1. \A w \in Txns : Waits(w)' => Waits(w)
        BY <3>2 DEF Waits
      <4>2. QED BY <3>2, <4>1, ConflictsStay
    <3>3. QED BY <1>0, <3>1, <3>2
  <2>2. \A u, w \in Txns : Waits(w)' /\ Conflicts(w, req[w])' = {} /\ WillRetry(u, w)
                           => \E v \in Txns : WillRetry(v, w)'
    <3>1. Conflicts(q, req[q])' = {} => ~ Waits(q)'
      BY <1>0 DEF Waits, Conflicts
    <3>2. QED BY <1>0, <3>1 DEF WillRetry, IsNextGeneration
  <2>3. QED BY <2>1, <2>2, RetriersStay
<1>9. QED BY <1>1, <1>2, <1>3, <1>4, <1>5, <1>6, <1>7, <1>8

\* Nobody is left to visit.
LEMMA RetryLoopEndInv ==
  ASSUME IInv, NEW t \in Txns, RetryLoopEnd(t)
  PROVE  IInv'
<1> USE DEF IInv, TypeOK, RetryLoopEnd, At, Move, requests, group
<1>1. TypeOK'
  BY LockRequestAssumption
<1>2. StatusExact'
  BY DEF StatusExact, Ended
<1>3. PendingExact'
  BY DEF PendingExact, StatusExact, Ended
<1>4. LocksAccounted'
  BY DEF LocksAccounted, StatusExact, Ended
<1>5. Generations'
  BY DEF Generations, IsNextGeneration
<1>6. LoopExact'
  <2>1. infoHolder = t
    BY DEF LoopExact
  <2>2. QED BY <2>1, LockRequestAssumption DEF LoopExact, InfoFree
<1>7. FoundHonest'
  BY DEF FoundHonest, Conflicts, Ended
<1>8. NoMissedGrant'
  <2>1. \A w \in Txns : Waits(w)' /\ Conflicts(w, req[w])' = {}
                        => Waits(w) /\ Conflicts(w, req[w]) = {}
    <3>1. \A w \in Txns : Waits(w)' => Waits(w) /\ req'[w] = req[w]
      BY DEF Waits
    <3>2. QED BY <3>1, ConflictsStay
  <2>2. \A u, w \in Txns : Waits(w)' /\ Conflicts(w, req[w])' = {} /\ WillRetry(u, w)
                           => \E v \in Txns : WillRetry(v, w)'
    BY DEF WillRetry, IsNextGeneration
  <2>3. QED BY <2>1, <2>2, RetriersStay
<1>9. QED BY <1>1, <1>2, <1>3, <1>4, <1>5, <1>6, <1>7, <1>8

\* The end of a retry wakes the threads at retry_cv.
LEMMA RetryFinishInv ==
  ASSUME IInv, NEW t \in Txns, RetryFinish(t)
  PROVE  IInv'
<1> USE DEF IInv, TypeOK, RetryFinish, At, Move, requests, group
<1>1. TypeOK'
  BY LockRequestAssumption
<1>2. StatusExact'
  BY DEF StatusExact, Ended
<1>3. PendingExact'
  BY DEF PendingExact, StatusExact, Ended
<1>4. LocksAccounted'
  BY DEF LocksAccounted, StatusExact, Ended
<1>5. Generations'
  BY DEF Generations, IsNextGeneration
<1>6. LoopExact'
  BY DEF LoopExact, InfoFree
<1>7. FoundHonest'
  BY DEF FoundHonest, Conflicts, Ended
<1>8. NoMissedGrant'
  <2>1. \A w \in Txns : Waits(w)' /\ Conflicts(w, req[w])' = {}
                        => Waits(w) /\ Conflicts(w, req[w]) = {}
    <3>1. \A w \in Txns : Waits(w)' => Waits(w) /\ req'[w] = req[w]
      BY DEF Waits
    <3>2. QED BY <3>1, ConflictsStay
  <2>2. \A u, w \in Txns : Waits(w)' /\ Conflicts(w, req[w])' = {} /\ WillRetry(u, w)
                           => \E v \in Txns : WillRetry(v, w)'
    BY DEF WillRetry, IsNextGeneration
  <2>3. QED BY <2>1, <2>2, RetriersStay
<1>9. QED BY <1>1, <1>2, <1>3, <1>4, <1>5, <1>6, <1>7, <1>8

\* The process ends.
LEMMA RetryOutOfLocksInv ==
  ASSUME IInv, NEW t \in Txns, RetryOutOfLocks(t)
  PROVE  IInv'
<1> USE DEF IInv, TypeOK, RetryOutOfLocks, At, Move, requests, group, InfoFree
<1>1. TypeOK'
  BY LockRequestAssumption
<1>2. StatusExact'
  BY DEF StatusExact, Ended
<1>3. PendingExact'
  BY DEF PendingExact, StatusExact, Ended
<1>4. LocksAccounted'
  BY DEF LocksAccounted, StatusExact, Ended
<1>5. Generations'
  BY DEF Generations, IsNextGeneration
<1>6. LoopExact'
  BY DEF LoopExact
<1>7. FoundHonest'
  BY DEF FoundHonest, Conflicts, Ended
<1>8. NoMissedGrant'
  <2>1. \A w \in Txns : Waits(w)' /\ Conflicts(w, req[w])' = {}
                        => Waits(w) /\ Conflicts(w, req[w]) = {}
    <3>1. \A w \in Txns : Waits(w)' => Waits(w) /\ req'[w] = req[w]
      BY DEF Waits
    <3>2. QED BY <3>1, ConflictsStay
  <2>2. \A u, w \in Txns : Waits(w)' /\ Conflicts(w, req[w])' = {} /\ WillRetry(u, w)
                           => \E v \in Txns : WillRetry(v, w)'
    BY DEF WillRetry, IsNextGeneration
  <2>3. QED BY <2>1, <2>2, RetriersStay
<1>9. QED BY <1>1, <1>2, <1>3, <1>4, <1>5, <1>6, <1>7, <1>8

-----------------------------------------------------------------------------
(* The theorems *)

\* The invariant holds in every state that the lock requests can reach.
THEOREM InvariantHolds == Spec => []IInv
<1>1. Init => IInv
  <2> SUFFICES ASSUME Init PROVE IInv
    OBVIOUS
  <2>1. TypeOK
    BY LockRequestAssumption DEF Init, TypeOK
  <2>2. StatusExact /\ PendingExact
    BY DEF Init, StatusExact, PendingExact, Ended
  <2>3. LocksAccounted /\ Generations
    BY DEF Init, LocksAccounted, Generations, Ended
  <2>4. LoopExact
    BY LockRequestAssumption DEF Init, LoopExact, InfoFree
  <2>5. FoundHonest /\ NoMissedGrant
    BY DEF Init, FoundHonest, NoMissedGrant, Waits
  <2>6. QED BY <2>1, <2>2, <2>3, <2>4, <2>5 DEF IInv
<1>2. IInv /\ [Next]_vars => IInv'
  <2> SUFFICES ASSUME IInv, [Next]_vars PROVE IInv'
    OBVIOUS
  <2>1. ASSUME NEW t \in Txns, NEW r \in Ranges, StartGranted(t, r) PROVE IInv'
    BY <2>1, StartGrantedInv
  <2>2. ASSUME NEW t \in Txns, NEW r \in Ranges, StartConflict(t, r) PROVE IInv'
    BY <2>2, StartConflictInv
  <2>3. ASSUME NEW t \in Txns, StartOutOfLocks(t) PROVE IInv'
    BY <2>3, StartOutOfLocksInv
  <2>4. ASSUME NEW t \in Txns, RetryOutOfLocks(t) PROVE IInv'
    BY <2>4, RetryOutOfLocksInv
  <2>5. ASSUME NEW t \in Txns, BeginRelease(t) PROVE IInv'
    BY <2>5, BeginReleaseInv
  <2>6. ASSUME NEW t \in Txns, KillWaiter(t) PROVE IInv'
    BY <2>6, KillWaiterInv
  <2>7. ASSUME NEW t \in Txns, WaitExpires(t) PROVE IInv'
    BY <2>7, WaitExpiresInv
  <2>8. ASSUME NEW t \in Txns, Step(t) PROVE IInv'
    BY <2>8, StartPendInv, WaitEnterInv, WaitReturnInv, NoteRowLockInv, ReleaseOneInv,
       RetryCheckInv, RetryWantInv, RetryGateInv, RetryCvInv, RetryLoopBeginInv,
       RetryVisitInv, RetryLoopEndInv, RetryFinishInv DEF Step
  <2>9. CASE UNCHANGED vars
    <3> USE <2>9 DEF IInv, vars
    <3>1. TypeOK' /\ StatusExact' /\ PendingExact'
      BY DEF TypeOK, StatusExact, PendingExact
    <3>2. LocksAccounted' /\ Generations' /\ LoopExact'
      BY DEF LocksAccounted, Generations, IsNextGeneration, LoopExact, InfoFree
    <3>3. FoundHonest' /\ NoMissedGrant'
      BY DEF FoundHonest, NoMissedGrant, Waits, WillRetry, Conflicts, IsNextGeneration
    <3>4. QED BY <3>1, <3>2, <3>3
  <2>10. QED
    BY <2>1, <2>2, <2>3, <2>4, <2>5, <2>6, <2>7, <2>8, <2>9 DEF Next
<1>3. QED BY <1>1, <1>2, PTL DEF Spec

\* No grant is missed: whoever sleeps in wait() without a conflict will be visited
\* by a retry that is under way.
THEOREM NoMissedGrantHolds == Spec => []NoMissedGrant
<1>1. IInv => NoMissedGrant
  BY DEF IInv
<1>2. QED BY <1>1, InvariantHolds, PTL

\* The pending set holds the requests of the threads that wait, and no others, so
\* that remove_from_lock_requests finds what it removes and destroy() frees nothing
\* that is still in the set.
THEOREM PendingExactHolds == Spec => []PendingExact
<1>1. IInv => PendingExact
  BY DEF IInv
<1>2. QED BY <1>1, InvariantHolds, PTL

\* No lock outlives its transaction: release_lt_key_ranges leaves nothing behind,
\* even if another thread granted the transaction's last request.
THEOREM NoLeakedLockHolds == Spec => []NoLeakedLock
<1>1. IInv => NoLeakedLock
  BY DEF IInv, TypeOK, NoLeakedLock, LocksAccounted, StatusExact
<1>2. QED BY <1>1, InvariantHolds, PTL

\* A deadlock that deadlock_exists sees is one: the stale conflicts of start() that
\* are still pending are conflicts now.
LEMMA DeadlockIsReal ==
  ASSUME IInv, NEW t \in Txns, pc[t] = "conflicted", DeadlockExists(t)
  PROVE  InCycle(t)
<1> SUFFICES ASSUME NEW S \in SUBSET Txns,
                    Conflicts(t, req[t]) \subseteq S,
                    \A u \in S \cap pending : Conflicts(u, req[u]) \subseteq S
             PROVE  t \in S
  BY DEF InCycle
<1> DEFINE R == S \cap (pending \cup {t})
<1>1. R \in SUBSET (pending \cup {t})
  OBVIOUS
<1>2. Blocked(found[t]) \subseteq R
  <2> SUFFICES ASSUME NEW u \in found[t], u \in pending PROVE u \in S
    BY DEF Blocked
  <2>1. pc[u] \in {"started", "asleep"}
    BY DEF IInv, TypeOK, PendingExact
  <2>2. u \in Conflicts(t, req[t])
    BY <2>1 DEF IInv, FoundHonest, Ended
  <2>3. QED BY <2>2
<1>3. ASSUME NEW u \in R \ {t}
      PROVE  Blocked(Conflicts(u, req[u])) \cup (Conflicts(u, req[u]) \cap {t}) \subseteq R
  BY <1>3 DEF Blocked
<1>4. t \in R
  BY <1>1, <1>2, <1>3 DEF DeadlockExists
<1>5. QED BY <1>4

\* start() reports no deadlock that is not there.
THEOREM NoFalseDeadlockHolds == Spec => NoFalseDeadlock
<1>1. IInv /\ [Next]_vars =>
        [\A t \in Txns : pc[t] = "conflicted" /\ pc'[t] = "run" => InCycle(t)]_vars
  <2> SUFFICES ASSUME IInv, Next, NEW t \in Txns, pc[t] = "conflicted", pc'[t] = "run"
               PROVE  InCycle(t)
    OBVIOUS
  <2>1. StartPend(t)
    BY DEF IInv, TypeOK, Next, Step, StartGranted, StartConflict, StartOutOfLocks,
       RetryOutOfLocks, BeginRelease, KillWaiter, WaitExpires, StartPend, WaitEnter,
       WaitRetry, WaitReturn, NoteRowLock, ReleaseOne, RetryCheck, RetryWant, RetryGate,
       RetryRun, RetryCv, RetryLoopBegin, RetryVisit, RetryLoopEnd, RetryFinish, At, Move
  <2>2. DeadlockExists(t)
    BY <2>1 DEF IInv, TypeOK, StartPend, Move
  <2>3. QED BY <2>2, DeadlockIsReal
<1>2. QED BY <1>1, InvariantHolds, PTL DEF Spec, NoFalseDeadlock
=============================================================================
