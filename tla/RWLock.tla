------------------------------- MODULE RWLock -------------------------------
(***************************************************************************)
(* The reader-writer lock of util/rwlock.h, which also carries the         *)
(* non-blocking mutex of util/nb_mutex.h (a cachetable pair's disk lock).  *)
(* As in FRWLock an action is the code between two points where the        *)
(* external mutex is given up.  Here every condition wait is in a loop, a  *)
(* new writer may pass the writers that wait, and one thread may wait      *)
(* until the lock has no users left (rwlock_wait_for_users).               *)
(***************************************************************************)
EXTENDS Naturals, FiniteSets

CONSTANTS RwThreads,   \* the threads that use the lock
          NoCond     \* wait_users_go_to_zero when it is NULL

ASSUME RWLockAssumption == IsFiniteSet(RwThreads) /\ NoCond \notin RwThreads

VARIABLES
  rwpc,          \* where each thread stands with the lock
  awake,       \* waiters whose condition was signalled and who have not run yet
  reader, wantRead, writer, wantWrite,  \* the counters of st_rwlock
  usersCond    \* wait_users_go_to_zero: the thread that waits, or NoCond

rwvars == <<rwpc, awake, reader, wantRead, writer, wantWrite, usersCond>>

RwIn(s)  == {t \in RwThreads : rwpc[t] = s}
Asleep(s)   == RwIn(s) \ awake
RwMove(t, s)  == rwpc' = [rwpc EXCEPT ![t] = s]

rwlock_init ==
  /\ rwpc = [t \in RwThreads |-> "idle"]
  /\ awake = {}
  /\ reader = 0 /\ wantRead = 0 /\ writer = 0 /\ wantWrite = 0
  /\ usersCond = NoCond
-----------------------------------------------------------------------------
(* Faulty variants of the operations below, for the checks of the properties *)
\* A reader looks at the writer count alone.
rwlock_read_will_blockMut == writer > 0
\* A writer is let in beside the readers.
rwlock_write_will_blockMut == writer > 0
\* A reader that waited is still counted as one that waits.
rwlock_read_lock_wakeMut(t) ==
  /\ rwpc[t] = "waitRead" /\ t \in awake
  /\ awake' = awake \ {t}
  /\ writer = 0 /\ wantWrite = 0
  /\ RwMove(t, "reading")
  /\ reader' = reader + 1
  /\ UNCHANGED <<wantRead, writer, wantWrite, usersCond>>
\* The last user goes without telling rwlock_wait_for_users.
WakeUsersMut(users) == {}
-----------------------------------------------------------------------------
\* rwlock_users
rwlock_users == reader + wantRead + writer + wantWrite

\* rwlock_read_will_block, and the tests of rwlock_read_lock
rwlock_read_will_block == writer > 0 \/ wantWrite > 0

\* rwlock_write_will_block, and the tests of rwlock_write_lock
rwlock_write_will_block == writer > 0 \/ reader > 0

\* toku_cond_signal on the condition of the threads in state s wakes one of them
SignalOne(s) == IF Asleep(s) = {} THEN {{}} ELSE {{t} : t \in Asleep(s)}

\* rwlock_read_unlock: whom the departing reader wakes
WakeAfterRead ==
  IF reader = 1 /\ wantWrite > 0 THEN SignalOne("waitWrite") ELSE {{}}

\* rwlock_write_unlock: whom the departing writer wakes
WakeAfterWrite ==
  IF wantWrite > 0 THEN SignalOne("waitWrite")
  ELSE IF wantRead > 0 THEN {Asleep("waitRead")}
  ELSE {{}}

\* both unlocks: tell the thread in rwlock_wait_for_users when it is alone
WakeUsers(users) == IF usersCond # NoCond /\ users = 0 THEN {usersCond} ELSE {}

\* rwlock_read_lock and rwlock_write_lock demand that nobody drains the lock
NotDraining == usersCond = NoCond

rwlock_read_lock(t) ==
  /\ rwpc[t] = "idle" /\ NotDraining
  /\ ~ rwlock_read_will_block
  /\ RwMove(t, "reading")
  /\ reader' = reader + 1
  /\ UNCHANGED <<awake, wantRead, writer, wantWrite, usersCond>>

rwlock_read_lock_wait(t) ==
  /\ rwpc[t] = "idle" /\ NotDraining
  /\ rwlock_read_will_block
  /\ RwMove(t, "waitRead")
  /\ wantRead' = wantRead + 1
  /\ UNCHANGED <<awake, reader, writer, wantWrite, usersCond>>

\* the loop of rwlock_read_lock after toku_cond_wait: wait again or take the lock
rwlock_read_lock_wake(t) ==
  /\ rwpc[t] = "waitRead" /\ t \in awake
  /\ awake' = awake \ {t}
  /\ \/ rwlock_read_will_block /\ UNCHANGED <<rwpc, reader, wantRead>>
     \/ /\ ~ rwlock_read_will_block
        /\ RwMove(t, "reading")
        /\ reader' = reader + 1
        /\ wantRead' = wantRead - 1
  /\ UNCHANGED <<writer, wantWrite, usersCond>>

rwlock_read_unlock(t) ==
  /\ rwpc[t] = "reading"
  /\ RwMove(t, "idle")
  /\ reader' = reader - 1
  /\ \E woken \in WakeAfterRead : awake' = awake \cup woken \cup WakeUsers(rwlock_users - 1)
  /\ UNCHANGED <<wantRead, writer, wantWrite, usersCond>>

rwlock_write_lock(t) ==
  /\ rwpc[t] = "idle" /\ NotDraining
  /\ ~ rwlock_write_will_block
  /\ RwMove(t, "writing")
  /\ writer' = writer + 1
  /\ UNCHANGED <<awake, reader, wantRead, wantWrite, usersCond>>

rwlock_write_lock_wait(t) ==
  /\ rwpc[t] = "idle" /\ NotDraining
  /\ rwlock_write_will_block
  /\ RwMove(t, "waitWrite")
  /\ wantWrite' = wantWrite + 1
  /\ UNCHANGED <<awake, reader, wantRead, writer, usersCond>>

\* the loop of rwlock_write_lock after toku_cond_wait
rwlock_write_lock_wake(t) ==
  /\ rwpc[t] = "waitWrite" /\ t \in awake
  /\ awake' = awake \ {t}
  /\ \/ rwlock_write_will_block /\ UNCHANGED <<rwpc, writer, wantWrite>>
     \/ /\ ~ rwlock_write_will_block
        /\ RwMove(t, "writing")
        /\ writer' = writer + 1
        /\ wantWrite' = wantWrite - 1
  /\ UNCHANGED <<reader, wantRead, usersCond>>

rwlock_write_unlock(t) ==
  /\ rwpc[t] = "writing"
  /\ RwMove(t, "idle")
  /\ writer' = writer - 1
  /\ \E woken \in WakeAfterWrite : awake' = awake \cup woken \cup WakeUsers(rwlock_users - 1)
  /\ UNCHANGED <<reader, wantRead, wantWrite, usersCond>>

\* rwlock_wait_for_users up to its toku_cond_wait.  The caller holds no lock, and
\* with no users at all the call returns at once and changes nothing.
rwlock_wait_for_users(t) ==
  /\ rwpc[t] = "idle" /\ NotDraining
  /\ rwlock_users > 0
  /\ RwMove(t, "draining")
  /\ usersCond' = t
  /\ UNCHANGED <<awake, reader, wantRead, writer, wantWrite>>

\* The loop of rwlock_wait_for_users ends when there are no users; it is never
\* woken with users left, or DrainEnds would fail.
rwlock_wait_for_users_wake(t) ==
  /\ rwpc[t] = "draining" /\ t \in awake
  /\ rwlock_users = 0
  /\ awake' = awake \ {t}
  /\ RwMove(t, "idle")
  /\ usersCond' = NoCond
  /\ UNCHANGED <<reader, wantRead, writer, wantWrite>>

rwlock_next ==
  \E t \in RwThreads :
    \/ rwlock_read_lock(t) \/ rwlock_read_lock_wait(t) \/ rwlock_read_lock_wake(t) \/ rwlock_read_unlock(t)
    \/ rwlock_write_lock(t) \/ rwlock_write_lock_wait(t) \/ rwlock_write_lock_wake(t) \/ rwlock_write_unlock(t)
    \/ rwlock_wait_for_users(t) \/ rwlock_wait_for_users_wake(t)

RwSpec == rwlock_init /\ [][rwlock_next]_rwvars

\* Holders release the lock, and a signalled thread gets the external mutex back.
RwFairness ==
  \A t \in RwThreads :
    WF_rwvars(\/ rwlock_read_lock_wake(t) \/ rwlock_write_lock_wake(t)
              \/ rwlock_read_unlock(t) \/ rwlock_write_unlock(t)
              \/ rwlock_wait_for_users_wake(t))

RwFairSpec == RwSpec /\ RwFairness
-----------------------------------------------------------------------------
\* Every variable has its type, and the counters count the threads they name.
RwTypeOK ==
  /\ rwpc \in [RwThreads -> {"idle", "reading", "writing", "waitRead", "waitWrite", "draining"}]
  /\ awake \subseteq RwIn("waitRead") \cup RwIn("waitWrite") \cup RwIn("draining")
  /\ usersCond \in RwThreads \cup {NoCond}
  /\ reader = Cardinality(RwIn("reading")) /\ writer = Cardinality(RwIn("writing"))
  /\ wantRead = Cardinality(RwIn("waitRead"))
  /\ wantWrite = Cardinality(RwIn("waitWrite"))

\* Nobody sleeps on a lock that is his to take.  The last user wakes the thread in
\* rwlock_wait_for_users; a free lock that a writer waits for has a writer on its
\* way, though a newcomer may still come first; and without writers no reader
\* sleeps.  The unlocks signal once, and the counters decide whom.
NoLostWakeup ==
  /\ usersCond # NoCond => (rwlock_users = 0 <=> usersCond \in awake)
  /\ reader = 0 /\ writer = 0 /\ RwIn("waitWrite") # {} => RwIn("waitWrite") \cap awake # {}
  /\ writer = 0 /\ RwIn("waitWrite") = {} => RwIn("waitRead") \subseteq awake

\* One writer alone or readers alone, and only the thread in usersCond drains: with the
\* counters exact and no wakeup lost, the invariant that every step keeps.
RwExclusive ==
  /\ RwIn("writing") # {} => RwIn("reading") = {}
  /\ \A t, u \in RwIn("writing") : t = u
DrainExact == \A t \in RwThreads : rwpc[t] = "draining" <=> usersCond = t
RwInv == RwTypeOK /\ RwExclusive /\ DrainExact /\ NoLostWakeup

\* rwlock_wait_for_users returns: with no new user let in, the signals of the
\* unlocks reach every waiter in turn, and the last user wakes the drainer.
DrainEnds == usersCond # NoCond ~> usersCond = NoCond

\* "pending writers have priority over pending readers" (rwlock.h, use case 3): a
\* reader that waited gets the lock only when no writer waits for it.
PendingWritersFirst ==
  [][\A t \in RwThreads :
       rwpc[t] = "waitRead" /\ rwpc'[t] = "reading" => RwIn("waitWrite") = {}]_rwvars

\* The lock does what the abstract reader-writer lock does.
RwAbstract == INSTANCE ReadWriteLock WITH Threads <- RwThreads, readers <- RwIn("reading"),
                                   writers <- RwIn("writing")
RwImplements == RwAbstract!Spec
=============================================================================
