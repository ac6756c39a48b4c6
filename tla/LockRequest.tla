---------------------------- MODULE LockRequest ----------------------------
(***************************************************************************)
(* Row lock requests of the transactions on one locktree                   *)
(* (locktree/lock_request.cc, src/ydb_row_lock.cc): start, the wait for a  *)
(* conflicting transaction, deadlock detection, timeout and kill, and the  *)
(* group retry that a releasing transaction runs for everyone who waits.   *)
(*                                                                         *)
(* Each transaction is driven by one thread.  An action is what the thread *)
(* does between two points where another thread may run: one visit to the  *)
(* locktree, or one critical section of info->mutex or info->retry_mutex.  *)
(* The locktree itself is reduced to the owner of each key; LockTree shows *)
(* that its ranges, its single-transaction buffer and its escalation       *)
(* amount to that.                                                         *)
(***************************************************************************)
EXTENDS Naturals, FiniteSets

CONSTANTS Txns,         \* transaction ids, never reused
          Keys,
          Ranges,       \* the key ranges that may be requested
          None,
          MaxRequests,  \* bound: lock requests per transaction
          OutOfLocks    \* may check_current_lock_constraints refuse a lock?

ASSUME LockRequestAssumption ==
  /\ Txns \subseteq Nat
  /\ None \notin Txns
  /\ Ranges \subseteq SUBSET Keys
  /\ MaxRequests \in Nat
  /\ OutOfLocks \in BOOLEAN

VARIABLES
  pc,              \* where each transaction's thread stands
  owner,           \* the locktree: who owns each key
  noted,           \* the ranges in each transaction's lt_map buffer
  req,             \* the range of each transaction's lock request
  status,          \* m_state and, once it is COMPLETE, m_complete_r
  found,           \* the conflict set that start() got from the locktree
  aborted,         \* an invariant() failed: the process is gone
  used,            \* requests made so far
  pending,         \* info->pending_lock_requests
  pendingIsEmpty,  \* info->pending_is_empty
  retryWant, retryDone, runningRetry,  \* the group retry counters of info
  myWant,          \* my_retry_want of each releasing thread
  visit,           \* requests that the running retry loop has still to retry
  infoHolder       \* the thread that holds info->mutex across several actions

requests == <<req, status, found, aborted, pending, pendingIsEmpty>>
group    == <<retryWant, retryDone, runningRetry, myWant, visit, infoHolder>>
vars     == <<pc, owner, noted, req, status, found, aborted, used, pending,
              pendingIsEmpty, retryWant, retryDone, runningRetry, myWant, visit,
              infoHolder>>

Init ==
  /\ pc = [t \in Txns |-> "run"]
  /\ owner = [k \in Keys |-> None]
  /\ noted = [t \in Txns |-> {}]
  /\ req = [t \in Txns |-> {}]
  /\ status = [t \in Txns |-> "initialized"]
  /\ found = [t \in Txns |-> {}]
  /\ aborted = FALSE
  /\ used = [t \in Txns |-> 0]
  /\ pending = {} /\ pendingIsEmpty = TRUE
  /\ retryWant = 0 /\ retryDone = 0 /\ runningRetry = FALSE
  /\ myWant = [t \in Txns |-> 0]
  /\ visit = {}
  /\ infoHolder = None

\* t's thread stands at one of the places S of a process that is alive
At(t, S)   == pc[t] \in S /\ ~ aborted
Move(t, s) == pc' = [pc EXCEPT ![t] = s]
InfoFree   == infoHolder = None
-----------------------------------------------------------------------------
(***************************************************************************)
(* Faulty variants of the operations below, for the checks of the          *)
(* properties themselves.                                                  *)
(***************************************************************************)
\* Every generation that is not the latest runs, and so nobody may.
IsNextGenerationMut(t) == myWant[t] = retryDone
\* A timed out request completes but stays in the pending set.
RemovePendingMut(S) == UNCHANGED <<pending, pendingIsEmpty>>
\* wait() sleeps without trying the lock again under the mutex.
WaitRetryMut(t) ==
  /\ Move(t, "asleep")
  /\ UNCHANGED <<owner, requests>>
\* The wait graph takes every conflict for a blocked transaction.
BlockedMut(S) == S
\* The lock of a request that a retry granted is not noted.
NoteRowLockMut(t) ==
  /\ pc[t] = "granted"
  /\ status' = [status EXCEPT ![t] = "initialized"]
  /\ req' = [req EXCEPT ![t] = {}]
  /\ Move(t, "run")
  /\ UNCHANGED <<owner, noted, used, found, aborted, pending, pendingIsEmpty, group>>
\* The locktree reports a conflict with nobody for a key that nobody owns.
ConflictsMut(t, r) == {owner[k] : k \in r} \ {t}
\* The end of a group retry wakes nobody.
RetryFinishMut(t) ==
  /\ At(t, {"retried"})
  /\ runningRetry' = FALSE
  /\ Move(t, "done")
  /\ UNCHANGED <<owner, noted, used, requests, retryWant, retryDone, myWant, visit, infoHolder>>
-----------------------------------------------------------------------------
(* The locktree, seen from a lock request *)

\* locktree::get_conflicts
Conflicts(t, r) == {owner[k] : k \in r} \ {t, None}

\* locktree::acquire_write_lock, which read locks are upgraded to, when it grants
Grant(t, r) == owner' = [k \in Keys |-> IF k \in r THEN t ELSE owner[k]]
-----------------------------------------------------------------------------
(* The set of pending requests *)

InsertPending(t) == pending' = pending \cup {t} /\ pendingIsEmpty' = FALSE

RemovePending(S) ==
  /\ pending' = pending \ S
  /\ pendingIsEmpty' = (pending' = {})

Complete(t, r) == status' = [status EXCEPT ![t] = r]

\* the client destroys its request when start or wait has returned: complete(r) and
\* destroy are one where no other thread can see the completed request
Destroy(t) ==
  /\ status' = [status EXCEPT ![t] = "initialized"]
  /\ req' = [req EXCEPT ![t] = {}]

\* build_wait_graph follows a conflict only if that transaction waits, too
Blocked(S) == S \cap pending

\* deadlock_exists: from the conflicts that start() was given, and then along the
\* conflicts of the pending requests, the wait-for graph leads back to t.
DeadlockExists(t) ==
  \A S \in SUBSET (pending \cup {t}) :
    /\ Blocked(found[t]) \subseteq S
    /\ \A u \in S \ {t} :
         Blocked(Conflicts(u, req[u])) \cup (Conflicts(u, req[u]) \cap {t}) \subseteq S
    => t \in S
-----------------------------------------------------------------------------
(* start *)

\* start: the locktree grants the lock at once
StartGranted(t, r) ==
  /\ At(t, {"run"}) /\ used[t] < MaxRequests
  /\ Conflicts(t, r) = {}
  /\ used' = [used EXCEPT ![t] = @ + 1]
  /\ req' = [req EXCEPT ![t] = r]
  /\ Grant(t, r)
  /\ Complete(t, "granted")
  /\ Move(t, "granted")
  /\ UNCHANGED <<noted, found, aborted, pending, pendingIsEmpty, group>>

\* start: check_current_lock_constraints fails even after an escalation
StartOutOfLocks(t) ==
  /\ OutOfLocks
  /\ At(t, {"run"}) /\ used[t] < MaxRequests
  /\ used' = [used EXCEPT ![t] = @ + 1]
  /\ UNCHANGED <<pc, owner, noted, requests, group>>

\* start: the locktree reports conflicts; info->mutex is not held yet
StartConflict(t, r) ==
  /\ At(t, {"run"}) /\ used[t] < MaxRequests
  /\ Conflicts(t, r) # {}
  /\ used' = [used EXCEPT ![t] = @ + 1]
  /\ req' = [req EXCEPT ![t] = r]
  /\ found' = [found EXCEPT ![t] = Conflicts(t, r)]
  /\ status' = [status EXCEPT ![t] = "pending"]
  /\ Move(t, "conflicted")
  /\ UNCHANGED <<owner, noted, aborted, pending, pendingIsEmpty, group>>

\* start: the critical section of info->mutex
StartPend(t) ==
  /\ At(t, {"conflicted"}) /\ InfoFree
  /\ \/ /\ DeadlockExists(t)
        /\ Destroy(t)
        /\ Move(t, "run")
        /\ UNCHANGED <<pending, pendingIsEmpty>>
     \/ /\ ~ DeadlockExists(t)
        /\ InsertPending(t)
        /\ Move(t, "started")
        /\ UNCHANGED <<status, req>>
  /\ found' = [found EXCEPT ![t] = {}]
  /\ UNCHANGED <<owner, noted, used, aborted, group>>
-----------------------------------------------------------------------------
(* wait *)

\* retry of a pending request u when the locktree grants it; the waiting thread
\* sees the completion when it wakes
RetryGrants(u) ==
  /\ Conflicts(u, req[u]) = {}
  /\ Grant(u, req[u])
  /\ RemovePending({u})
  /\ Complete(u, "granted")

\* retry of a pending request u that meets conflicts
RetryFails(u) ==
  /\ Conflicts(u, req[u]) # {}
  /\ UNCHANGED <<owner, pending, pendingIsEmpty, status>>

\* wait, on a request that is still pending: retry it, then sleep unless granted
WaitRetry(t) ==
  /\ \/ RetryGrants(t) /\ Move(t, "granted")
     \/ RetryFails(t) /\ Move(t, "asleep")
  /\ UNCHANGED <<req, found, aborted>>

WaitEnter(t) ==
  /\ At(t, {"started"}) /\ InfoFree
  /\ status[t] = "pending"
  /\ WaitRetry(t)
  /\ UNCHANGED <<noted, used, group>>

\* wait, when the request was completed by a retry or a kill before or while the
\* thread slept
WaitReturn(t) ==
  /\ At(t, {"started", "asleep"}) /\ InfoFree
  /\ \/ /\ status[t] = "granted"
        /\ Move(t, "granted")
        /\ UNCHANGED <<req, status>>
     \/ /\ status[t] = "notGranted"
        /\ Move(t, "run")
        /\ Destroy(t)
  /\ UNCHANGED <<owner, noted, used, found, aborted, pending, pendingIsEmpty, group>>

\* wait, when the time is up or the killed callback says so: the request fails
WaitExpires(t) ==
  /\ At(t, {"asleep"}) /\ InfoFree
  /\ status[t] = "pending"
  /\ RemovePending({t})
  /\ Destroy(t)
  /\ Move(t, "run")
  /\ UNCHANGED <<owner, noted, used, found, aborted, group>>

\* kill_waiter, from another thread: any request in the pending set
KillWaiter(t) ==
  /\ t \in pending /\ At(t, {"started", "asleep"}) /\ InfoFree
  /\ RemovePending({t})
  /\ Complete(t, "notGranted")
  /\ UNCHANGED <<pc, owner, noted, used, req, found, aborted, group>>

\* db_txn_note_row_lock, after start or wait returned 0
NoteRowLock(t) ==
  /\ At(t, {"granted"})
  /\ noted' = [noted EXCEPT ![t] = @ \cup {req[t]}]
  /\ Destroy(t)
  /\ Move(t, "run")
  /\ UNCHANGED <<owner, used, found, aborted, pending, pendingIsEmpty, group>>
-----------------------------------------------------------------------------
(* release and group retry *)

\* toku_txn_release_locks: the transaction commits or aborts; without a noted range
\* there is nothing to release
BeginRelease(t) ==
  /\ At(t, {"run"})
  /\ Move(t, IF noted[t] = {} THEN "done" ELSE "releasing")
  /\ UNCHANGED <<owner, noted, used, requests, group>>

\* release_locks gives up one noted range after another, and with it more of the
\* transaction's keys where consolidation or escalation made one lock of several
ReleaseOne(t, r) ==
  /\ At(t, {"releasing"}) /\ r \in noted[t]
  /\ \E more \in SUBSET Keys :
       owner' = [k \in Keys |-> IF k \in r \cup more /\ owner[k] = t THEN None ELSE owner[k]]
  /\ noted' = [noted EXCEPT ![t] = @ \ {r}]
  /\ Move(t, IF noted[t] = {r} THEN "released" ELSE "releasing")
  /\ UNCHANGED <<used, requests, group>>

\* retry_all_lock_requests: the look at pending_is_empty without a lock
RetryCheck(t) ==
  /\ At(t, {"released"})
  /\ Move(t, IF pendingIsEmpty THEN "done" ELSE "nonEmpty")
  /\ UNCHANGED <<owner, noted, used, requests, group>>

\* the atomic increment of retry_want
RetryWant(t) ==
  /\ At(t, {"nonEmpty"})
  /\ retryWant' = retryWant + 1
  /\ myWant' = [myWant EXCEPT ![t] = retryWant + 1]
  /\ Move(t, "queued")
  /\ UNCHANGED <<owner, noted, used, requests, retryDone, runningRetry, visit, infoHolder>>

\* (my_retry_want - 1) == info->retry_done
IsNextGeneration(t) == myWant[t] = retryDone + 1

RetryRun(t) ==
  /\ runningRetry' = TRUE
  /\ retryDone' = retryWant
  /\ Move(t, "retrying")

\* the section of retry_mutex that decides who runs the retries
RetryGate(t) ==
  /\ At(t, {"queued"})
  /\ \/ /\ ~ IsNextGeneration(t)
        /\ Move(t, "done")
        /\ UNCHANGED <<retryDone, runningRetry>>
     \/ /\ IsNextGeneration(t) /\ runningRetry
        /\ Move(t, "waitCv")
        /\ UNCHANGED <<retryDone, runningRetry>>
     \/ /\ IsNextGeneration(t) /\ ~ runningRetry
        /\ RetryRun(t)
  /\ UNCHANGED <<owner, noted, used, requests, retryWant, myWant, visit, infoHolder>>

\* the return of the wait on retry_cv: with one thread per generation, whoever is
\* woken finds no retry running
RetryCv(t) ==
  /\ At(t, {"wokenCv"}) /\ ~ runningRetry
  /\ RetryRun(t)
  /\ UNCHANGED <<owner, noted, used, requests, retryWant, myWant, visit, infoHolder>>

\* retry_all_lock_requests_info takes info->mutex and keeps it over the loop
RetryLoopBegin(t) ==
  /\ At(t, {"retrying"}) /\ InfoFree
  /\ infoHolder' = t
  /\ visit' = pending
  /\ Move(t, "visiting")
  /\ UNCHANGED <<owner, noted, used, requests, retryWant, retryDone, runningRetry, myWant>>

\* one turn of the loop: the pending requests in the order of their txnids
RetryVisit(t) ==
  /\ At(t, {"visiting"})
  /\ \E u \in visit :
       /\ \A v \in visit : u <= v
       /\ RetryGrants(u) \/ RetryFails(u)
       /\ visit' = visit \ {u}
  /\ UNCHANGED <<pc, noted, used, req, found, aborted, retryWant, retryDone,
                 runningRetry, myWant, infoHolder>>

RetryLoopEnd(t) ==
  /\ At(t, {"visiting"}) /\ visit = {}
  /\ infoHolder' = None
  /\ Move(t, "retried")
  /\ UNCHANGED <<owner, noted, used, requests, retryWant, retryDone, runningRetry,
                 myWant, visit>>

\* retry_mutex again: let the next generation run
RetryFinish(t) ==
  /\ At(t, {"retried"})
  /\ runningRetry' = FALSE
  /\ pc' = [u \in Txns |-> IF u = t THEN "done"
                           ELSE IF pc[u] = "waitCv" THEN "wokenCv" ELSE pc[u]]
  /\ UNCHANGED <<owner, noted, used, requests, retryWant, retryDone, myWant, visit, infoHolder>>

\* retry, called by wait or by the loop, when check_current_lock_constraints fails:
\* no conflict was found, and conflicts.get(0) asserts that there is one
RetryOutOfLocks(t) ==
  /\ OutOfLocks
  /\ \/ At(t, {"started"}) /\ InfoFree /\ status[t] = "pending"
     \/ At(t, {"visiting"}) /\ visit # {}
  /\ aborted' = TRUE
  /\ UNCHANGED <<pc, owner, noted, used, req, status, found, pending, pendingIsEmpty, group>>
-----------------------------------------------------------------------------
\* The steps a thread takes by itself once it has begun them
Step(t) ==
  \/ StartPend(t) \/ WaitEnter(t) \/ WaitReturn(t) \/ NoteRowLock(t)
  \/ \E r \in Ranges : ReleaseOne(t, r)
  \/ RetryCheck(t) \/ RetryWant(t) \/ RetryGate(t) \/ RetryCv(t)
  \/ RetryLoopBegin(t) \/ RetryVisit(t) \/ RetryLoopEnd(t) \/ RetryFinish(t)

Next ==
  \E t \in Txns :
    \/ \E r \in Ranges : StartGranted(t, r) \/ StartConflict(t, r)
    \/ StartOutOfLocks(t) \/ RetryOutOfLocks(t)
    \/ BeginRelease(t) \/ KillWaiter(t) \/ WaitExpires(t)
    \/ Step(t)

Spec == Init /\ [][Next]_vars

(***************************************************************************)
(* A thread that has begun an operation goes on with it: the mutexes are   *)
(* held for bounded sections.  Nothing makes a transaction ask for a lock, *)
(* end, time out or be killed.                                             *)
(***************************************************************************)
FairSpec == Spec /\ \A t \in Txns : WF_vars(Step(t))
-----------------------------------------------------------------------------
\* Every variable has its type.
TypeOK ==
  /\ pc \in [Txns -> {"run", "granted", "conflicted", "started", "asleep", "releasing",
                      "released", "nonEmpty", "queued", "waitCv", "wokenCv", "retrying",
                      "visiting", "retried", "done"}]
  /\ owner \in [Keys -> Txns \cup {None}]
  /\ noted \in [Txns -> SUBSET Ranges]
  /\ req \in [Txns -> SUBSET Keys]
  /\ status \in [Txns -> {"initialized", "pending", "granted", "notGranted"}]
  /\ found \in [Txns -> SUBSET Txns]
  /\ aborted \in BOOLEAN
  /\ used \in [Txns -> Nat]
  /\ pending \in SUBSET Txns /\ pendingIsEmpty \in BOOLEAN
  /\ retryWant \in Nat /\ retryDone \in Nat /\ runningRetry \in BOOLEAN
  /\ myWant \in [Txns -> Nat]
  /\ visit \in SUBSET Txns
  /\ infoHolder \in Txns \cup {None}

Waits(t) == pc[t] = "asleep" /\ status[t] = "pending"

\* u will retry t's request: it is on its way to the group retry, or is the thread
\* of the next generation, or runs the loop and has t before it
WillRetry(u, t) ==
  \/ pc[u] \in {"releasing", "released", "nonEmpty"}
  \/ pc[u] \in {"queued", "waitCv", "wokenCv"} /\ IsNextGeneration(u)
  \/ pc[u] = "retrying"
  \/ pc[u] = "visiting" /\ t \in visit

\* No grant is missed.  A thread that sleeps in wait() although nothing blocks its
\* request any more will be visited by a retry: neither the unlocked look at
\* pending_is_empty, nor a retry thread that steps back because of the generation
\* counters, nor a release between start() and wait() loses the wakeup.
NoMissedGrant ==
  \A t \in Txns : Waits(t) /\ Conflicts(t, req[t]) = {} => \E u \in Txns : WillRetry(u, t)

\* The places where a transaction has given up its locks
Ended == {"released", "nonEmpty", "queued", "waitCv", "wokenCv", "retrying",
          "visiting", "retried", "done"}

\* A lock never outlives its transaction.  Locks are released from the ranges that
\* the client thread noted after start() or wait() returned 0; a grant by another
\* thread that races with a timeout or a kill must not give a lock nobody notes.
NoLeakedLock ==
  \A k \in Keys : owner[k] # None => pc[owner[k]] \notin Ended

\* A pending request belongs to a thread that is in wait() or about to call it, and
\* the reverse: remove_from_lock_requests always finds the request it removes
\* (lines 458-459), and destroy() never sees one that is pending (line 88).
PendingExact ==
  /\ \A t \in Txns :
       t \in pending <=> pc[t] \in {"started", "asleep"} /\ status[t] = "pending"
  /\ pendingIsEmpty <=> pending = {}

\* The retry loop meets no request that has left the pending set: the requests live
\* on the stacks of threads that time out, are killed and go on, and only info->mutex,
\* which the loop keeps from its first visit to its last, holds them back.
LoopExact ==
  /\ \A t \in Txns : pc[t] = "visiting" <=> infoHolder = t
  /\ visit \subseteq pending
  /\ InfoFree => visit = {}

\* t really waits for itself: every set of transactions that holds t's blockers, and
\* with each waiting transaction the blockers of that one, holds t
InCycle(t) ==
  \A S \in SUBSET Txns :
    /\ Conflicts(t, req[t]) \subseteq S
    /\ \A u \in S \cap pending : Conflicts(u, req[u]) \subseteq S
    => t \in S

\* start() reports a deadlock only when there is one: though the conflicts it read
\* before it took the mutex may be stale, they mislead it about nobody who waits.
NoFalseDeadlock ==
  [][\A t \in Txns : pc[t] = "conflicted" /\ pc'[t] = "run" => InCycle(t)]_vars

\* No thread sleeps for ever in wait() when nothing blocks its request.
GrantArrives == \A t \in Txns : ~ <>[](Waits(t) /\ Conflicts(t, req[t]) = {})

\* A transaction that has begun to release its locks gets through: the threads of
\* the group retry do not wait for each other for ever.
ReleaseEnds == \A t \in Txns : pc[t] = "releasing" ~> pc[t] = "done"

\* start() returns "DB_LOCK_DEADLOCK if this request would end up deadlocked"
\* (lock_request.h): no set of transactions sleeps in wait() each blocked by another.
NoUndetectedDeadlock ==
  \A S \in SUBSET Txns \ {{}} :
    ~ \A t \in S : Waits(t) /\ \E u \in S : u \in Conflicts(t, req[t])

\* txnid_set::get(0) in retry() finds an element (the invariant_zero of get).
ConflictNamed == ~ aborted
-----------------------------------------------------------------------------
(***************************************************************************)
(* The inductive invariant.                                                *)
(***************************************************************************)
\* A request is complete only while its thread is on the way back to the client.
StatusExact ==
  \A t \in Txns :
    /\ pc[t] \in {"run", "releasing"} \cup Ended => status[t] = "initialized"
    /\ pc[t] = "conflicted" => status[t] = "pending"
    /\ pc[t] = "granted" => status[t] = "granted"
    /\ status[t] # "initialized" => req[t] \in Ranges

\* Every lock is noted, or is the one that the client is about to note.
LocksAccounted ==
  /\ \A k \in Keys : owner[k] # None =>
       \/ \E r \in noted[owner[k]] : k \in r
       \/ status[owner[k]] = "granted" /\ k \in req[owner[k]]
  /\ \A t \in Txns : pc[t] \in Ended => noted[t] = {}

\* Some thread belongs to the next generation of retries when one is wanted.
Generations ==
  /\ retryDone <= retryWant
  /\ retryDone < retryWant =>
       \E t \in Txns : pc[t] \in {"queued", "waitCv", "wokenCv"} /\ IsNextGeneration(t)

\* A conflict that start() found has gone only with its transaction.
FoundHonest ==
  \A t \in Txns : pc[t] = "conflicted" =>
    \A u \in found[t] : u \in Conflicts(t, req[t]) \/ pc[u] \in {"releasing"} \cup Ended

IInv ==
  /\ TypeOK /\ StatusExact /\ PendingExact /\ LocksAccounted
  /\ Generations /\ LoopExact /\ FoundHonest /\ NoMissedGrant
=============================================================================
