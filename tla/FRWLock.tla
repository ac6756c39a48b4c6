------------------------------ MODULE FRWLock ------------------------------
(***************************************************************************)
(* The fair reader-writer lock toku::frwlock (util/frwlock.cc), the lock   *)
(* of a cachetable pair's value, of the pair list and of checkpoint_safe.  *)
(*                                                                         *)
(* Every operation runs with the external mutex held, so an action is the  *)
(* code between two points where the mutex is given up: entry to return,   *)
(* entry to toku_cond_wait, or the return of toku_cond_wait to return.     *)
(* A waiter of a condition variable that has been signalled but has not    *)
(* got the mutex back is in `signaled'; the code re-checks nothing when it *)
(* wakes, so what may happen in that window is the point of this module.   *)
(***************************************************************************)
EXTENDS Naturals, Sequences, FiniteSets

CONSTANTS Threads,           \* the threads that use the lock
          ReadItem,          \* m_queue_item_read, the queue entry of all waiting readers
          SpuriousWakeups    \* may a condition wait return without a signal?

ASSUME FRWLockAssumption ==
  /\ IsFiniteSet(Threads)
  /\ ReadItem \notin Threads
  /\ SpuriousWakeups \in BOOLEAN

VARIABLES
  pc,                 \* where each thread stands with the lock
  exp,                \* the `expensive' argument of each thread's write_lock
  queue,              \* m_wait_head .. m_wait_tail: a writer's own item, or ReadItem
  signaled,           \* waiters whose condition was signalled and who have not run yet
  numReaders,         \* m_num_readers
  numWriters,         \* m_num_writers
  numWantWrite,       \* m_num_want_write
  numWantRead,        \* m_num_want_read
  numSignaledReaders, \* m_num_signaled_readers
  numExpWantWrite,    \* m_num_expensive_want_write
  readInQueue,        \* m_wait_read_is_in_queue
  writerExpensive,    \* m_current_writer_expensive
  readWaitExpensive   \* m_read_wait_expensive

waiting  == <<queue, signaled, readInQueue, readWaitExpensive>>
wants    == <<numWantWrite, numWantRead, numSignaledReaders, numExpWantWrite>>
vars     == <<pc, exp, queue, signaled, numReaders, numWriters, numWantWrite,
              numWantRead, numSignaledReaders, numExpWantWrite, readInQueue,
              writerExpensive, readWaitExpensive>>

InState(s) == {t \in Threads : pc[t] = s}

Init ==
  /\ pc = [t \in Threads |-> "idle"]
  /\ exp = [t \in Threads |-> FALSE]
  /\ queue = << >>
  /\ signaled = {}
  /\ numReaders = 0 /\ numWriters = 0
  /\ numWantWrite = 0 /\ numWantRead = 0
  /\ numSignaledReaders = 0 /\ numExpWantWrite = 0
  /\ readInQueue = FALSE
  /\ writerExpensive = FALSE
  /\ readWaitExpensive = FALSE

\* The threads blocked on the condition variable of queue entry c.
Waiters(c) ==
  (IF c = ReadItem THEN InState("waitRead") ELSE {c} \cap Threads) \ signaled

One(b) == IF b THEN 1 ELSE 0
-----------------------------------------------------------------------------
(***************************************************************************)
(* Faulty variants of the operations below, for the checks of the          *)
(* properties themselves.                                                  *)
(***************************************************************************)
\* A reader passes the writers that are waiting.
ReadMustWaitMut == numWriters > 0
\* The broadcast to the readers leaves m_num_signaled_readers alone.
GrantReadersMut ==
  /\ signaled' = signaled \cup Waiters(ReadItem)
  /\ readInQueue' = FALSE
  /\ readWaitExpensive' = FALSE
  /\ UNCHANGED numSignaledReaders
\* The last reader forgets the writer at the head of the queue.
MaybeSignalNextWriterMut(readers) == UNCHANGED <<queue, signaled>>
\* A writer is granted the lock beside the readers.
WriteMustWaitMut == \/ numWriters > 0 \/ numSignaledReaders > 0 \/ numWantWrite > 0
\* The cost of joining the queue ignores the writers that wait.
ReadCostMut == writerExpensive
-----------------------------------------------------------------------------
\* try_write_lock: the condition under which it gives up
WriteMustWait ==
  \/ numReaders > 0 \/ numWriters > 0
  \/ numSignaledReaders > 0 \/ numWantWrite > 0

\* try_read_lock, and the test at the head of read_lock
ReadMustWait == numWriters > 0 \/ numWantWrite > 0

\* what a reader that waits now has to expect, computed the same way in read_lock
\* and in read_lock_is_expensive
ReadCost == writerExpensive \/ numExpWantWrite > 0

TakeWrite(t, expensive) ==
  /\ pc' = [pc EXCEPT ![t] = "writing"]
  /\ numWriters' = 1
  /\ writerExpensive' = expensive

\* try_write_lock that succeeds, also the fast path of write_lock
TryWriteLock(t, expensive) ==
  /\ pc[t] = "idle"
  /\ ~ WriteMustWait
  /\ TakeWrite(t, expensive)
  /\ exp' = [exp EXCEPT ![t] = expensive]
  /\ UNCHANGED <<waiting, wants, numReaders>>

\* write_lock up to its toku_cond_wait
WriteLockWait(t, expensive) ==
  /\ pc[t] = "idle"
  /\ WriteMustWait
  /\ pc' = [pc EXCEPT ![t] = "waitWrite"]
  /\ exp' = [exp EXCEPT ![t] = expensive]
  /\ queue' = Append(queue, t)
  /\ numWantWrite' = numWantWrite + 1
  /\ numExpWantWrite' = numExpWantWrite + One(expensive)
  /\ UNCHANGED <<signaled, readInQueue, readWaitExpensive, numWantRead,
                 numSignaledReaders, numReaders, numWriters, writerExpensive>>

\* write_lock after its toku_cond_wait: nothing is checked again
WriteLockWake(t) ==
  /\ pc[t] = "waitWrite"
  /\ t \in signaled \/ SpuriousWakeups
  /\ signaled' = signaled \ {t}
  /\ numWantWrite' = numWantWrite - 1
  /\ numExpWantWrite' = numExpWantWrite - One(exp[t])
  /\ TakeWrite(t, exp[t])
  /\ UNCHANGED <<exp, queue, readInQueue, readWaitExpensive, numWantRead,
                 numSignaledReaders, numReaders>>

\* try_read_lock that succeeds, also the fast path of read_lock
TryReadLock(t) ==
  /\ pc[t] = "idle"
  /\ ~ ReadMustWait
  /\ pc' = [pc EXCEPT ![t] = "reading"]
  /\ numReaders' = numReaders + 1
  /\ UNCHANGED <<waiting, wants, exp, numWriters, writerExpensive>>

\* read_lock up to its toku_cond_wait
ReadLockWait(t) ==
  /\ pc[t] = "idle"
  /\ ReadMustWait
  /\ \/ /\ readInQueue
        /\ UNCHANGED <<queue, readInQueue, readWaitExpensive>>
     \/ /\ ~ readInQueue
        /\ queue' = Append(queue, ReadItem)
        /\ readInQueue' = TRUE
        /\ readWaitExpensive' = ReadCost
  /\ pc' = [pc EXCEPT ![t] = "waitRead"]
  /\ numWantRead' = numWantRead + 1
  /\ UNCHANGED <<exp, signaled, numReaders, numWriters, numWantWrite,
                 numSignaledReaders, numExpWantWrite, writerExpensive>>

\* read_lock after its toku_cond_wait: nothing is checked again
ReadLockWake(t) ==
  /\ pc[t] = "waitRead"
  /\ t \in signaled \/ SpuriousWakeups
  /\ pc' = [pc EXCEPT ![t] = "reading"]
  /\ signaled' = signaled \ {t}
  /\ numWantRead' = numWantRead - 1
  /\ numSignaledReaders' = numSignaledReaders - 1
  /\ numReaders' = numReaders + 1
  /\ UNCHANGED <<exp, queue, readInQueue, readWaitExpensive, numWantWrite,
                 numExpWantWrite, numWriters, writerExpensive>>

\* maybe_signal_next_writer, with the reader count that read_unlock has just stored
MaybeSignalNextWriter(readers) ==
  \/ /\ numWantWrite > 0 /\ numSignaledReaders = 0 /\ readers = 0
     /\ queue' = Tail(queue)
     /\ \E t \in Waiters(Head(queue)) : signaled' = signaled \cup {t}
  \/ /\ ~ (numWantWrite > 0 /\ numSignaledReaders = 0 /\ readers = 0)
     /\ UNCHANGED <<queue, signaled>>

ReadUnlock(t) ==
  /\ pc[t] = "reading"
  /\ pc' = [pc EXCEPT ![t] = "idle"]
  /\ numReaders' = numReaders - 1
  /\ MaybeSignalNextWriter(numReaders - 1)
  /\ UNCHANGED <<exp, readInQueue, readWaitExpensive, wants, numWriters,
                 writerExpensive>>

\* maybe_signal_or_broadcast_next when the head of the queue is the readers' entry
GrantReaders ==
  /\ signaled' = signaled \cup Waiters(ReadItem)
  /\ numSignaledReaders' = numWantRead
  /\ readInQueue' = FALSE
  /\ readWaitExpensive' = FALSE

MaybeSignalOrBroadcastNext ==
  \/ /\ queue = << >>
     /\ UNCHANGED <<waiting, numSignaledReaders>>
  \/ /\ queue # << >>
     /\ queue' = Tail(queue)
     /\ \/ /\ Head(queue) = ReadItem
           /\ GrantReaders
        \/ /\ Head(queue) # ReadItem
           /\ signaled' = signaled \cup Waiters(Head(queue))
           /\ UNCHANGED <<numSignaledReaders, readInQueue, readWaitExpensive>>

WriteUnlock(t) ==
  /\ pc[t] = "writing"
  /\ pc' = [pc EXCEPT ![t] = "idle"]
  /\ numWriters' = 0
  /\ writerExpensive' = FALSE
  /\ MaybeSignalOrBroadcastNext
  /\ UNCHANGED <<exp, numReaders, numWantWrite, numWantRead, numExpWantWrite>>

\* read_lock_is_expensive, the question a client asks before it blocks
ReadLockIsExpensive ==
  IF readInQueue THEN readWaitExpensive
                 ELSE ReadCost

Next ==
  \E t \in Threads :
    \/ \E e \in BOOLEAN : TryWriteLock(t, e) \/ WriteLockWait(t, e)
    \/ TryReadLock(t) \/ ReadLockWait(t)
    \/ WriteLockWake(t) \/ ReadLockWake(t)
    \/ ReadUnlock(t) \/ WriteUnlock(t)

Spec == Init /\ [][Next]_vars

(***************************************************************************)
(* A thread that holds the lock releases it, and a thread whose condition  *)
(* was signalled gets the external mutex: the mutex is held for a few      *)
(* instructions only.  No thread is obliged to ask for the lock.           *)
(***************************************************************************)
Fairness ==
  \A t \in Threads :
    WF_vars(WriteLockWake(t) \/ ReadLockWake(t) \/ ReadUnlock(t) \/ WriteUnlock(t))

FairSpec == Spec /\ Fairness
-----------------------------------------------------------------------------
\* Every variable has its type.
TypeOK ==
  /\ pc \in [Threads -> {"idle", "reading", "writing", "waitRead", "waitWrite"}]
  /\ exp \in [Threads -> BOOLEAN]
  /\ queue \in Seq(Threads \cup {ReadItem})
  /\ signaled \in SUBSET Threads
  /\ numReaders \in Nat /\ numWriters \in Nat /\ numWantWrite \in Nat
  /\ numWantRead \in Nat /\ numSignaledReaders \in Nat /\ numExpWantWrite \in Nat
  /\ readInQueue \in BOOLEAN
  /\ writerExpensive \in BOOLEAN /\ readWaitExpensive \in BOOLEAN

SignaledReaders == signaled \cap InState("waitRead")
SignaledWriters == signaled \cap InState("waitWrite")

ExpWaiters      == {t \in InState("waitWrite") : exp[t]}

(***************************************************************************)
(* The inductive invariant.  The counters count what they are named for,   *)
(* the queue holds exactly the waiters that have not been signalled, and a *)
(* signalled waiter keeps the lock clear for itself until it runs.         *)
(***************************************************************************)
CountsExact ==
  /\ numReaders = Cardinality(InState("reading"))
  /\ numWriters = Cardinality(InState("writing"))
  /\ numWantWrite = Cardinality(InState("waitWrite"))
  /\ numWantRead = Cardinality(InState("waitRead"))
  /\ numSignaledReaders = Cardinality(SignaledReaders)
  /\ numExpWantWrite = Cardinality(ExpWaiters)

QueueExact ==
  /\ \A i, j \in 1..Len(queue) : queue[i] = queue[j] => i = j
  /\ \A i \in 1..Len(queue) :
       queue[i] # ReadItem => queue[i] \in InState("waitWrite") \ signaled
  /\ \A t \in InState("waitWrite") \ signaled :
       \E i \in 1..Len(queue) : queue[i] = t
  /\ readInQueue <=> \E i \in 1..Len(queue) : queue[i] = ReadItem
  /\ readInQueue <=> InState("waitRead") \ signaled # {}
  /\ signaled \subseteq InState("waitRead") \cup InState("waitWrite")

WindowClear ==
  /\ InState("writing") # {} => InState("reading") = {} /\ signaled = {}
  /\ \A t, u \in InState("writing") : t = u
  /\ SignaledWriters # {} => /\ InState("reading") = {}
                             /\ InState("writing") = {}
                             /\ SignaledReaders = {}
  /\ \A t, u \in SignaledWriters : t = u
  /\ (InState("reading") # {} \/ SignaledReaders # {}) /\ queue # << >>
       => Head(queue) # ReadItem
  /\ queue # << >> => \/ InState("reading") # {} \/ InState("writing") # {}
                      \/ signaled # {}

IInv == TypeOK /\ CountsExact /\ QueueExact /\ WindowClear

\* One writer or any number of readers: what write_lock and read_lock are for.
MutualExclusion ==
  /\ \A t, u \in InState("writing") : t = u
  /\ InState("writing") # {} => InState("reading") = {}

\* A signal stays good until its receiver runs.  write_lock and read_lock look at
\* nothing after toku_cond_wait, so whatever the other threads do between the
\* signal and the wakeup, the paranoid_invariants of lines 156-159 (writer) and
\* 223-225 (reader) have to hold when the thread gets the mutex back.
WakeupStillValid ==
  /\ SignaledWriters # {} =>
       /\ numReaders = 0 /\ numWriters = 0 /\ numSignaledReaders = 0
       /\ \A t, u \in SignaledWriters : t = u
  /\ SignaledReaders # {} =>
       numWriters = 0 /\ numSignaledReaders = Cardinality(SignaledReaders)

\* maybe_signal_next_writer dequeues the head of the queue and signals it as a
\* writer (the paranoid_invariant of line 254): while readers hold the lock or are
\* on their way in, the readers' own entry is never at the head.
HeadIsWriter ==
  (numReaders > 0 \/ numSignaledReaders > 0) /\ queue # << >>
    => Head(queue) # ReadItem

\* No waiter is stranded: whenever the queue is not empty, some thread holds the
\* lock or has been signalled and will look at the queue when it unlocks.
NoStrandedWaiter ==
  queue # << >> => numReaders > 0 \/ numWriters > 0 \/ signaled # {}

\* read_lock_is_expensive tells a client whether to drop its locks before it
\* waits.  When it answers FALSE for a reader that would join the readers' entry,
\* no expensive writer holds the lock or will hold it before that entry is served.
ReadCostHonest ==
  readInQueue /\ ~ ReadLockIsExpensive =>
    /\ ~ writerExpensive
    /\ \A t \in SignaledWriters : ~ exp[t]
    /\ \A i, j \in DOMAIN queue : i < j /\ queue[j] = ReadItem => ~ exp[queue[i]]

\* Nobody overtakes: a thread that did not have to wait gets the write lock only
\* when nobody waits, and the read lock only when no writer waits.
NoOvertaking ==
  [][\A t \in Threads : pc[t] = "idle" =>
       /\ pc'[t] = "writing" => queue = << >> /\ signaled = {}
       /\ pc'[t] = "reading" => InState("waitWrite") = {}]_vars

\* Every thread that waits for the lock gets it, whatever the others do.
EveryWaiterServed ==
  \A t \in Threads : pc[t] \in {"waitRead", "waitWrite"} ~> pc[t] \in {"reading", "writing"}

\* The lock does what the abstract reader-writer lock does.
RWL == INSTANCE ReadWriteLock WITH readers <- InState("reading"),
                                   writers <- InState("writing")
RWLSpec == RWL!Spec
=============================================================================
