------------------------ MODULE ReadWriteLockProofs ------------------------
(***************************************************************************)
(* Proofs about the two reader-writer locks, for any finite set of threads.*)
(* The fair lock (FRWLock): mutual exclusion, the validity of a signal     *)
(* until its receiver runs, and refinement of the abstract lock.  The lock *)
(* of the cachetable (RWLock): its counters are exact, no wakeup is lost,  *)
(* waiting writers go before waiting readers, and it implements the        *)
(* abstract lock too.                                                      *)
(***************************************************************************)
EXTENDS FRWLock, RWLock, FiniteSetTheorems, TLAPS

-----------------------------------------------------------------------------
(* Sets of threads and their sizes *)

\* The sets that the counters of frwlock.h count are finite.
LEMMA CountedSetsFinite ==
  /\ \A s : IsFiniteSet(InState(s))
  /\ IsFiniteSet(SignaledReaders)
  /\ IsFiniteSet(ExpWaiters)
<1>1. ASSUME NEW T \in SUBSET Threads PROVE IsFiniteSet(T)
  BY FRWLockAssumption, FS_Subset
<1>2. /\ \A s : InState(s) \in SUBSET Threads
      /\ SignaledReaders \in SUBSET Threads
      /\ ExpWaiters \in SUBSET Threads
  BY DEF InState, SignaledReaders, ExpWaiters
<1>3. QED BY <1>1, <1>2

\* A counter is zero exactly when there is nobody to count.
LEMMA CountZero ==
  ASSUME NEW S, IsFiniteSet(S)
  PROVE  /\ Cardinality(S) \in Nat
         /\ Cardinality(S) = 0 <=> S = {}
         /\ Cardinality(S) > 0 <=> S # {}
<1>1. Cardinality(S) \in Nat BY FS_CardinalityType
<1>2. Cardinality(S) = 0 <=> S = {} BY FS_EmptySet
<1>3. QED BY <1>1, <1>2

\* What ++ on a counter does to the size of the set it counts.
LEMMA CountAdd ==
  ASSUME NEW S, IsFiniteSet(S), NEW x, x \notin S
  PROVE  Cardinality(S \cup {x}) = Cardinality(S) + 1
BY FS_AddElement

\* What -- on a counter does to the size of the set it counts.
LEMMA CountRemove ==
  ASSUME NEW S, IsFiniteSet(S), NEW x \in S
  PROVE  Cardinality(S \ {x}) = Cardinality(S) - 1 /\ Cardinality(S) \in Nat \ {0}
<1>1. Cardinality(S \ {x}) = Cardinality(S) - 1 BY FS_RemoveElement
<1>2. QED BY <1>1, CountZero

\* A counter is positive exactly when there is someone to count.
LEMMA CountersPositive ==
  ASSUME TypeOK, CountsExact
  PROVE  /\ numReaders > 0 <=> InState("reading") # {}
         /\ numWriters > 0 <=> InState("writing") # {}
         /\ numWantWrite > 0 <=> InState("waitWrite") # {}
         /\ numWantRead > 0 <=> InState("waitRead") # {}
         /\ numSignaledReaders > 0 <=> SignaledReaders # {}
<1>1. /\ numReaders > 0 <=> InState("reading") # {}
      /\ numWriters > 0 <=> InState("writing") # {}
  BY CountZero, CountedSetsFinite DEF CountsExact
<1>2. /\ numWantWrite > 0 <=> InState("waitWrite") # {}
      /\ numWantRead > 0 <=> InState("waitRead") # {}
      /\ numSignaledReaders > 0 <=> SignaledReaders # {}
  BY CountZero, CountedSetsFinite DEF CountsExact
<1>3. QED BY <1>1, <1>2

\* A step that moves thread t from state a to state b changes two of the sets.
LEMMA Move ==
  ASSUME TypeOK, NEW t \in Threads, NEW CONSTANT a, NEW CONSTANT b,
         pc[t] = a, a # b, pc' = [pc EXCEPT ![t] = b]
  PROVE  /\ InState(a)' = InState(a) \ {t}
         /\ t \in InState(a)
         /\ InState(b)' = InState(b) \cup {t}
         /\ t \notin InState(b)
         /\ \A s : s # a /\ s # b => InState(s)' = InState(s)
<1>1. pc' \in [Threads -> {pc[u] : u \in Threads} \cup {b}] BY DEF TypeOK
<1>2. pc'[t] = b /\ \A u \in Threads : u # t => pc'[u] = pc[u] BY DEF TypeOK
<1>3. QED BY <1>2 DEF InState

-----------------------------------------------------------------------------
(* Each action preserves the inductive invariant *)

\* try_write_lock succeeds only when nobody holds, waits for, or is on the way to
\* the lock.
LEMMA TryWriteLockInv ==
  ASSUME IInv, NEW t \in Threads, NEW e \in BOOLEAN, TryWriteLock(t, e)
  PROVE  IInv'
<1> USE DEF IInv
<1>1. /\ InState("reading") = {} /\ InState("writing") = {}
      /\ InState("waitWrite") = {} /\ SignaledReaders = {}
  BY CountersPositive DEF TryWriteLock, WriteMustWait, TypeOK
<1>2. signaled = {}
  BY <1>1 DEF QueueExact, SignaledReaders
<1>3. queue = << >>
  BY <1>1, <1>2 DEF WindowClear
<1>4. /\ InState("idle")' = InState("idle") \ {t}
      /\ InState("writing")' = {t}
      /\ InState("reading")' = {} /\ InState("waitWrite")' = {}
      /\ InState("waitRead")' = InState("waitRead")
  <2>1. pc[t] = "idle" /\ pc' = [pc EXCEPT ![t] = "writing"]
    BY DEF TryWriteLock, TakeWrite
  <2>2. /\ InState("idle")' = InState("idle") \ {t}
        /\ InState("writing")' = InState("writing") \cup {t}
        /\ \A s : s # "idle" /\ s # "writing" => InState(s)' = InState(s)
    BY <2>1, Move, ZenonT(30)
  <2>3. QED BY <1>1, <2>2
<1>5. TypeOK'
  BY DEF TypeOK, TryWriteLock, TakeWrite, waiting, wants
<1>6. CountsExact'
  <2>1. SignaledReaders' = {} /\ ExpWaiters' = {} /\ ExpWaiters = {}
    BY <1>1, <1>2, <1>4
       DEF SignaledReaders, ExpWaiters, TryWriteLock, waiting
  <2>2. numWriters' = Cardinality(InState("writing")')
    BY <1>4, FS_Singleton DEF TryWriteLock, TakeWrite
  <2>3. QED
    BY <1>1, <1>4, <2>1, <2>2 DEF CountsExact, TryWriteLock, wants
<1>7. QueueExact'
  BY <1>1, <1>2, <1>3, <1>4 DEF QueueExact, TryWriteLock, waiting
<1>8. WindowClear'
  BY <1>2, <1>3, <1>4
     DEF WindowClear, TryWriteLock, waiting, SignaledWriters, SignaledReaders
<1>9. QED BY <1>5, <1>6, <1>7, <1>8

\* write_lock that has to wait puts its own item at the tail of the queue.
LEMMA WriteLockWaitInv ==
  ASSUME IInv, NEW t \in Threads, NEW e \in BOOLEAN, WriteLockWait(t, e)
  PROVE  IInv'
<1> USE DEF IInv
<1>1. /\ t \in InState("idle") /\ t \notin InState("waitWrite")
      /\ InState("waitWrite")' = InState("waitWrite") \cup {t}
      /\ InState("reading")' = InState("reading")
      /\ InState("writing")' = InState("writing")
      /\ InState("waitRead")' = InState("waitRead")
  <2>1. pc[t] = "idle" /\ pc' = [pc EXCEPT ![t] = "waitWrite"]
    BY DEF WriteLockWait
  <2>2. /\ t \in InState("idle") /\ t \notin InState("waitWrite")
        /\ InState("waitWrite")' = InState("waitWrite") \cup {t}
        /\ \A s : s # "idle" /\ s # "waitWrite" => InState(s)' = InState(s)
    BY <2>1, Move, ZenonT(30)
  <2>3. QED BY <2>2
<1>2. /\ t \notin signaled /\ signaled' = signaled
      /\ t # ReadItem
      /\ queue' = Append(queue, t)
      /\ readInQueue' = readInQueue
  BY <1>1, FRWLockAssumption DEF QueueExact, WriteLockWait, InState
<1>3. /\ SignaledReaders' = SignaledReaders
      /\ SignaledWriters' = SignaledWriters
  BY <1>1, <1>2 DEF SignaledReaders, SignaledWriters
<1>4. TypeOK'
  BY DEF TypeOK, WriteLockWait, One
<1>5. CountsExact'
  <2>1. numWantWrite' = Cardinality(InState("waitWrite")')
    BY <1>1, CountAdd, CountedSetsFinite DEF CountsExact, WriteLockWait
  <2>2. numExpWantWrite' = Cardinality(ExpWaiters')
    <3>1. CASE e
      <4>1. ExpWaiters' = ExpWaiters \cup {t} /\ t \notin ExpWaiters
        BY <1>1, <3>1 DEF ExpWaiters, WriteLockWait, TypeOK, InState
      <4>2. QED
        BY <3>1, <4>1, CountAdd, CountedSetsFinite DEF CountsExact, WriteLockWait, One
    <3>2. CASE ~ e
      <4>1. ExpWaiters' = ExpWaiters
        BY <1>1, <3>2 DEF ExpWaiters, WriteLockWait, TypeOK, InState
      <4>2. QED BY <3>2, <4>1 DEF CountsExact, WriteLockWait, One, TypeOK
    <3>3. QED BY <3>1, <3>2
  <2>3. QED BY <1>1, <1>3, <2>1, <2>2 DEF CountsExact, WriteLockWait
<1>6. /\ Len(queue') = Len(queue) + 1
      /\ queue'[Len(queue) + 1] = t
      /\ \A i \in 1..Len(queue) : queue'[i] = queue[i]
      /\ Len(queue) \in Nat
  BY <1>2 DEF TypeOK
<1>7. QueueExact'
  <2>1. \A i \in 1..Len(queue) : queue[i] # t
    BY <1>1, <1>2 DEF QueueExact
  <2>2. \A i, j \in 1..Len(queue') : queue'[i] = queue'[j] => i = j
    BY <1>6, <2>1 DEF QueueExact
  <2>3. QED BY <1>1, <1>2, <1>6, <2>2 DEF QueueExact
<1>8. WindowClear'
  <2>1. queue # << >> => queue' # << >> /\ Head(queue') = Head(queue)
    BY <1>2, <1>6 DEF TypeOK
  <2>2. queue = << >> => Head(queue') = t
    BY <1>2 DEF TypeOK
  <2>3. InState("reading") # {} \/ InState("writing") # {} \/ signaled # {}
    <3>1. CASE numReaders > 0 \/ numWriters > 0 \/ numSignaledReaders > 0
      BY <3>1, CountersPositive DEF SignaledReaders
    <3>2. CASE numWantWrite > 0
      <4>1. PICK u \in Threads : u \in InState("waitWrite")
        BY <3>2, CountersPositive DEF InState
      <4>2. CASE u \notin signaled
        BY <4>1, <4>2 DEF QueueExact, WindowClear, TypeOK
      <4>3. QED BY <4>2
    <3>3. QED BY <3>1, <3>2 DEF WriteLockWait, WriteMustWait
  <2>4. QED
    BY <1>1, <1>2, <1>3, <2>1, <2>2, <2>3 DEF WindowClear
<1>9. QED BY <1>4, <1>5, <1>7, <1>8

\* A signalled writer finds the lock as free as it was when the signal was sent.
LEMMA WriteLockWakeInv ==
  ASSUME IInv, ~ SpuriousWakeups, NEW t \in Threads, WriteLockWake(t)
  PROVE  IInv'
<1> USE DEF IInv
<1>1. /\ t \in InState("waitWrite") /\ t \notin InState("writing")
      /\ InState("waitWrite")' = InState("waitWrite") \ {t}
      /\ InState("writing")' = InState("writing") \cup {t}
      /\ InState("reading")' = InState("reading")
      /\ InState("waitRead")' = InState("waitRead")
  <2>1. pc[t] = "waitWrite" /\ pc' = [pc EXCEPT ![t] = "writing"]
    BY DEF WriteLockWake, TakeWrite
  <2>2. /\ t \in InState("waitWrite") /\ t \notin InState("writing")
        /\ InState("waitWrite")' = InState("waitWrite") \ {t}
        /\ InState("writing")' = InState("writing") \cup {t}
        /\ \A s : s # "waitWrite" /\ s # "writing" => InState(s)' = InState(s)
    BY <2>1, Move, ZenonT(30)
  <2>3. QED BY <2>2
<1>2. t \in SignaledWriters
  BY <1>1 DEF WriteLockWake, SignaledWriters
<1>3. /\ InState("reading") = {} /\ InState("writing") = {}
      /\ SignaledReaders = {} /\ signaled = {t}
  BY <1>2 DEF WindowClear, QueueExact, SignaledWriters, SignaledReaders
<1>4. signaled' = {} /\ queue' = queue /\ readInQueue' = readInQueue
  BY <1>3 DEF WriteLockWake
<1>5. TypeOK'
  <2>1. numWantWrite > 0
    BY <1>1, CountersPositive
  <2>2. numExpWantWrite - One(exp[t]) \in Nat
    <3>1. CASE exp[t]
      <4>1. t \in ExpWaiters BY <1>1, <3>1 DEF ExpWaiters
      <4>2. numExpWantWrite > 0
        BY <4>1, CountZero, CountedSetsFinite DEF CountsExact
      <4>3. QED BY <3>1, <4>2 DEF One, TypeOK
    <3>2. CASE ~ exp[t] BY <3>2 DEF One, TypeOK
    <3>3. QED BY <3>1, <3>2
  <2>3. QED BY <1>4, <2>1, <2>2 DEF TypeOK, WriteLockWake, TakeWrite
<1>6. CountsExact'
  <2>1. numWantWrite' = Cardinality(InState("waitWrite")')
    BY <1>1, CountRemove, CountedSetsFinite DEF CountsExact, WriteLockWake
  <2>2. numWriters' = Cardinality(InState("writing")')
    <3>1. InState("writing")' = {t} BY <1>1, <1>3
    <3>2. QED BY <3>1, FS_Singleton DEF WriteLockWake, TakeWrite
  <2>3. numExpWantWrite' = Cardinality(ExpWaiters')
    <3>1. CASE exp[t]
      <4>1. ExpWaiters' = ExpWaiters \ {t} /\ t \in ExpWaiters
        BY <1>1, <3>1 DEF ExpWaiters, WriteLockWake
      <4>2. QED
        BY <3>1, <4>1, CountRemove, CountedSetsFinite
           DEF CountsExact, WriteLockWake, One
    <3>2. CASE ~ exp[t]
      <4>1. ExpWaiters' = ExpWaiters
        BY <1>1, <3>2 DEF ExpWaiters, WriteLockWake
      <4>2. QED BY <3>2, <4>1 DEF CountsExact, WriteLockWake, One, TypeOK
    <3>3. QED BY <3>1, <3>2
  <2>4. SignaledReaders' = SignaledReaders
    BY <1>3, <1>4 DEF SignaledReaders
  <2>5. QED
    BY <1>1, <2>1, <2>2, <2>3, <2>4 DEF CountsExact, WriteLockWake
<1>7. QueueExact'
  BY <1>1, <1>2, <1>3, <1>4 DEF QueueExact, SignaledReaders
<1>8. WindowClear'
  BY <1>1, <1>3, <1>4 DEF WindowClear, SignaledReaders, SignaledWriters
<1>9. QED BY <1>5, <1>6, <1>7, <1>8

\* try_read_lock succeeds only when the queue is empty.
LEMMA TryReadLockInv ==
  ASSUME IInv, NEW t \in Threads, TryReadLock(t)
  PROVE  IInv'
<1> USE DEF IInv
<1>1. /\ t \notin InState("reading")
      /\ InState("reading")' = InState("reading") \cup {t}
      /\ InState("writing")' = InState("writing")
      /\ InState("waitWrite")' = InState("waitWrite")
      /\ InState("waitRead")' = InState("waitRead")
  <2>1. pc[t] = "idle" /\ pc' = [pc EXCEPT ![t] = "reading"]
    BY DEF TryReadLock
  <2>2. /\ t \notin InState("reading")
        /\ InState("reading")' = InState("reading") \cup {t}
        /\ \A s : s # "idle" /\ s # "reading" => InState(s)' = InState(s)
    BY <2>1, Move, ZenonT(30)
  <2>3. QED BY <2>2
<1>2. InState("writing") = {} /\ InState("waitWrite") = {}
  BY CountersPositive DEF TryReadLock, ReadMustWait
<1>3. UNCHANGED <<signaled, queue, readInQueue>>
  BY DEF TryReadLock, waiting
<1>4. queue = << >>
  <2>1. SUFFICES ASSUME queue # << >> PROVE FALSE
    OBVIOUS
  <2>2. Head(queue) = queue[1] /\ 1 \in 1..Len(queue)
    BY <2>1 DEF TypeOK
  <2>3. Head(queue) = ReadItem
    BY <1>2, <2>2 DEF QueueExact
  <2>4. InState("reading") # {} \/ signaled # {}
    BY <1>2, <2>1 DEF WindowClear
  <2>5. InState("reading") # {} \/ SignaledReaders # {}
    BY <1>2, <2>4 DEF QueueExact, SignaledReaders
  <2>6. QED BY <2>1, <2>3, <2>5 DEF WindowClear
<1>5. /\ SignaledReaders' = SignaledReaders
      /\ SignaledWriters = {} /\ SignaledWriters' = {}
      /\ ExpWaiters' = ExpWaiters
  BY <1>1, <1>2, <1>3 DEF SignaledReaders, SignaledWriters, ExpWaiters, TryReadLock
<1>6. TypeOK'
  BY DEF TypeOK, TryReadLock, waiting, wants
<1>7. CountsExact'
  <2>1. numReaders' = Cardinality(InState("reading")')
    BY <1>1, CountAdd, CountedSetsFinite DEF CountsExact, TryReadLock
  <2>2. QED BY <1>1, <1>5, <2>1 DEF CountsExact, TryReadLock, wants
<1>8. QueueExact'
  BY <1>1, <1>3 DEF QueueExact
<1>9. WindowClear'
  BY <1>1, <1>2, <1>3, <1>4, <1>5 DEF WindowClear
<1>10. QED BY <1>6, <1>7, <1>8, <1>9

\* read_lock that has to wait joins the readers' entry, which it puts at the tail
\* of the queue if it is not there; a writer holds the lock or is ahead of it.
LEMMA ReadLockWaitInv ==
  ASSUME IInv, NEW t \in Threads, ReadLockWait(t)
  PROVE  IInv'
<1> USE DEF IInv
<1>1. /\ t \in InState("idle") /\ t \notin InState("waitRead")
      /\ InState("waitRead")' = InState("waitRead") \cup {t}
      /\ InState("reading")' = InState("reading")
      /\ InState("writing")' = InState("writing")
      /\ InState("waitWrite")' = InState("waitWrite")
  <2>1. pc[t] = "idle" /\ pc' = [pc EXCEPT ![t] = "waitRead"]
    BY DEF ReadLockWait
  <2>2. /\ t \in InState("idle") /\ t \notin InState("waitRead")
        /\ InState("waitRead")' = InState("waitRead") \cup {t}
        /\ \A s : s # "idle" /\ s # "waitRead" => InState(s)' = InState(s)
    BY <2>1, Move, ZenonT(30)
  <2>3. QED BY <2>2
<1>2. t \notin signaled /\ signaled' = signaled
  BY <1>1 DEF QueueExact, ReadLockWait, InState
<1>3. /\ SignaledReaders' = SignaledReaders
      /\ SignaledWriters' = SignaledWriters
      /\ ExpWaiters' = ExpWaiters
  BY <1>1, <1>2 DEF SignaledReaders, SignaledWriters, ExpWaiters, ReadLockWait
<1>4. TypeOK'
  <2>1. /\ readInQueue' \in BOOLEAN /\ readWaitExpensive' \in BOOLEAN
    BY DEF TypeOK, ReadLockWait, ReadCost
  <2>2. queue' \in Seq(Threads \cup {ReadItem})
    BY DEF TypeOK, ReadLockWait
  <2>3. QED BY <2>1, <2>2 DEF TypeOK, ReadLockWait
<1>5. CountsExact'
  <2>1. numWantRead' = Cardinality(InState("waitRead")')
    BY <1>1, CountAdd, CountedSetsFinite DEF CountsExact, ReadLockWait
  <2>2. QED BY <1>1, <1>3, <2>1 DEF CountsExact, ReadLockWait
<1>6. CASE readInQueue
  <2>1. queue' = queue /\ readInQueue' = readInQueue
    BY <1>6 DEF ReadLockWait
  <2>2. QueueExact' BY <1>1, <1>2, <1>6, <2>1 DEF QueueExact
  <2>3. WindowClear' BY <1>1, <1>2, <1>3, <2>1 DEF WindowClear
  <2>4. QED BY <1>4, <1>5, <2>2, <2>3
<1>7. CASE ~ readInQueue
  <2>1. queue' = Append(queue, ReadItem) /\ readInQueue'
    BY <1>7 DEF ReadLockWait
  <2>2. /\ Len(queue') = Len(queue) + 1
        /\ queue'[Len(queue) + 1] = ReadItem
        /\ \A i \in 1..Len(queue) : queue'[i] = queue[i]
        /\ Len(queue) \in Nat
    BY <2>1 DEF TypeOK
  <2>3. \A i \in 1..Len(queue) : queue[i] # ReadItem
    BY <1>7 DEF QueueExact
  <2>4. QueueExact'
    <3>1. \A i, j \in 1..Len(queue') : queue'[i] = queue'[j] => i = j
      BY <2>2, <2>3 DEF QueueExact
    <3>2. QED BY <1>1, <1>2, <2>1, <2>2, <3>1 DEF QueueExact
  <2>5. \/ InState("writing") # {} \/ SignaledWriters # {} \/ queue # << >>
    <3>1. CASE numWriters > 0 BY <3>1, CountersPositive
    <3>2. CASE numWantWrite > 0
      <4>1. PICK u \in Threads : u \in InState("waitWrite")
        BY <3>2, CountersPositive DEF InState
      <4>2. CASE u \in signaled BY <4>1, <4>2 DEF SignaledWriters
      <4>3. CASE u \notin signaled BY <4>1, <4>3 DEF QueueExact, TypeOK
      <4>4. QED BY <4>2, <4>3
    <3>3. QED BY <3>1, <3>2 DEF ReadLockWait, ReadMustWait
  <2>6. queue # << >> => Head(queue') = Head(queue)
    BY <2>1, <2>2 DEF TypeOK
  <2>7. /\ InState("writing") # {} => InState("reading") = {} /\ SignaledReaders = {}
        /\ SignaledWriters # {} => InState("reading") = {} /\ SignaledReaders = {}
        /\ SignaledWriters # {} => signaled # {}
    BY DEF WindowClear, SignaledReaders, SignaledWriters
  <2>8. WindowClear'
    BY <1>1, <1>2, <1>3, <2>5, <2>6, <2>7 DEF WindowClear
  <2>9. QED BY <1>4, <1>5, <2>4, <2>8
<1>8. QED BY <1>6, <1>7

\* A signalled reader finds no writer.
LEMMA ReadLockWakeInv ==
  ASSUME IInv, ~ SpuriousWakeups, NEW t \in Threads, ReadLockWake(t)
  PROVE  IInv'
<1> USE DEF IInv
<1>1. /\ t \in InState("waitRead") /\ t \notin InState("reading")
      /\ InState("waitRead")' = InState("waitRead") \ {t}
      /\ InState("reading")' = InState("reading") \cup {t}
      /\ InState("writing")' = InState("writing")
      /\ InState("waitWrite")' = InState("waitWrite")
  <2>1. pc[t] = "waitRead" /\ pc' = [pc EXCEPT ![t] = "reading"]
    BY DEF ReadLockWake
  <2>2. /\ t \in InState("waitRead") /\ t \notin InState("reading")
        /\ InState("waitRead")' = InState("waitRead") \ {t}
        /\ InState("reading")' = InState("reading") \cup {t}
        /\ \A s : s # "waitRead" /\ s # "reading" => InState(s)' = InState(s)
    BY <2>1, Move, ZenonT(30)
  <2>3. QED BY <2>2
<1>2. /\ t \in SignaledReaders
      /\ t \notin InState("waitWrite")
      /\ signaled' = signaled \ {t}
      /\ queue' = queue /\ readInQueue' = readInQueue
  BY <1>1 DEF ReadLockWake, SignaledReaders, InState
<1>3. InState("writing") = {} /\ SignaledWriters = {}
  BY <1>2 DEF WindowClear, SignaledReaders
<1>4. /\ SignaledReaders' = SignaledReaders \ {t}
      /\ SignaledWriters' = {}
      /\ ExpWaiters' = ExpWaiters
  BY <1>1, <1>2, <1>3 DEF SignaledReaders, SignaledWriters, ExpWaiters, ReadLockWake
<1>5. TypeOK'
  <2>1. numWantRead > 0 /\ numSignaledReaders > 0
    BY <1>1, <1>2, CountersPositive
  <2>2. QED BY <2>1 DEF TypeOK, ReadLockWake
<1>6. CountsExact'
  <2>1. /\ numReaders' = Cardinality(InState("reading")')
        /\ numWantRead' = Cardinality(InState("waitRead")')
    BY <1>1, CountAdd, CountRemove, CountedSetsFinite DEF CountsExact, ReadLockWake
  <2>2. numSignaledReaders' = Cardinality(SignaledReaders')
    BY <1>2, <1>4, CountRemove, CountedSetsFinite DEF CountsExact, ReadLockWake
  <2>3. QED BY <1>1, <1>4, <2>1, <2>2 DEF CountsExact, ReadLockWake
<1>7. QueueExact'
  <2>1. InState("waitRead")' \ signaled' = InState("waitRead") \ signaled
    BY <1>1, <1>2 DEF SignaledReaders
  <2>2. InState("waitWrite")' \ signaled' = InState("waitWrite") \ signaled
    BY <1>1, <1>2
  <2>3. signaled' \subseteq InState("waitRead")' \cup InState("waitWrite")'
    BY <1>1, <1>2 DEF QueueExact
  <2>4. QED BY <1>2, <2>1, <2>2, <2>3 DEF QueueExact
<1>8. WindowClear'
  BY <1>1, <1>2, <1>3, <1>4 DEF WindowClear
<1>9. QED BY <1>5, <1>6, <1>7, <1>8

\* The head of a queue without duplicates, and what is left when it is taken off.
LEMMA TakeHead ==
  ASSUME TypeOK, queue # << >>,
         \A i, j \in 1..Len(queue) : queue[i] = queue[j] => i = j
  PROVE  /\ Head(queue) \in Threads \cup {ReadItem}
         /\ Head(queue) = queue[1] /\ 1 \in 1..Len(queue)
         /\ Tail(queue) \in Seq(Threads \cup {ReadItem})
         /\ \A i, j \in 1..Len(Tail(queue)) : Tail(queue)[i] = Tail(queue)[j] => i = j
         /\ \A i \in 1..Len(Tail(queue)) : /\ Tail(queue)[i] # Head(queue)
                                         /\ i + 1 \in 1..Len(queue)
                                         /\ Tail(queue)[i] = queue[i + 1]
         /\ \A i \in 1..Len(queue) : queue[i] = Head(queue) \/
              \E k \in 1..Len(Tail(queue)) : Tail(queue)[k] = queue[i]
<1>1. /\ Len(queue) \in Nat \ {0}
      /\ Head(queue) = queue[1]
      /\ Tail(queue) \in Seq(Threads \cup {ReadItem})
      /\ Len(Tail(queue)) = Len(queue) - 1
      /\ \A i \in 1..Len(Tail(queue)) : Tail(queue)[i] = queue[i + 1]
      /\ Head(queue) \in Threads \cup {ReadItem}
  BY DEF TypeOK
<1>2. \A i \in 1..Len(Tail(queue)) : /\ i + 1 \in 1..Len(queue)
                                     /\ Tail(queue)[i] # Head(queue)
  BY <1>1
<1>3. \A i, j \in 1..Len(Tail(queue)) : Tail(queue)[i] = Tail(queue)[j] => i = j
  BY <1>1, <1>2
<1>4. ASSUME NEW i \in 1..Len(queue), queue[i] # Head(queue)
      PROVE  \E k \in 1..Len(Tail(queue)) : Tail(queue)[k] = queue[i]
  <2>1. i # 1 BY <1>1, <1>4
  <2>2. i - 1 \in 1..Len(Tail(queue)) /\ Tail(queue)[i - 1] = queue[i]
    BY <1>1, <2>1
  <2>3. QED BY <2>2
<1>5. QED BY <1>1, <1>2, <1>3, <1>4

\* The last reader to leave signals the writer at the head of the queue.
LEMMA ReadUnlockInv ==
  ASSUME IInv, NEW t \in Threads, ReadUnlock(t)
  PROVE  IInv'
<1> USE DEF IInv
<1>1. /\ t \in InState("reading")
      /\ InState("reading")' = InState("reading") \ {t}
      /\ InState("writing")' = InState("writing")
      /\ InState("waitWrite")' = InState("waitWrite")
      /\ InState("waitRead")' = InState("waitRead")
  <2>1. pc[t] = "reading" /\ pc' = [pc EXCEPT ![t] = "idle"]
    BY DEF ReadUnlock
  <2>2. /\ t \in InState("reading")
        /\ InState("reading")' = InState("reading") \ {t}
        /\ \A s : s # "reading" /\ s # "idle" => InState(s)' = InState(s)
    BY <2>1, Move, ZenonT(30)
  <2>3. QED BY <2>2
<1>2. InState("writing") = {} /\ SignaledWriters = {}
  BY <1>1 DEF WindowClear
<1>3. /\ readInQueue' = readInQueue
      /\ ExpWaiters' = ExpWaiters
  BY <1>1 DEF ReadUnlock, ExpWaiters
<1>4. /\ numReaders' = Cardinality(InState("reading")')
      /\ numReaders - 1 \in Nat
  <2>1. /\ Cardinality(InState("reading") \ {t}) = Cardinality(InState("reading")) - 1
        /\ Cardinality(InState("reading")) \in Nat \ {0}
    BY <1>1, CountRemove, CountedSetsFinite
  <2>2. QED BY <1>1, <2>1 DEF CountsExact, ReadUnlock
<1>5. ASSUME queue' = queue, signaled' = signaled
      PROVE  CountsExact' /\ QueueExact' /\ TypeOK'
  <2>1. SignaledReaders' = SignaledReaders BY <1>1, <1>5 DEF SignaledReaders
  <2>2. TypeOK' BY <1>4, <1>5 DEF TypeOK, ReadUnlock, wants
  <2>3. QED
    BY <1>1, <1>3, <1>4, <1>5, <2>1, <2>2 DEF CountsExact, QueueExact, ReadUnlock, wants
<1>6. CASE numWantWrite > 0 /\ numSignaledReaders = 0 /\ numReaders - 1 = 0
  <2>1. InState("reading")' = {} /\ SignaledReaders = {}
    <3>1. InState("reading")' = {}
      BY <1>1, <1>4, <1>6, CountZero, FS_RemoveElement, CountedSetsFinite
         DEF ReadUnlock
    <3>2. QED BY <1>6, <3>1, CountersPositive DEF TypeOK
  <2>2. signaled = {}
    BY <1>2, <2>1 DEF QueueExact, SignaledReaders, SignaledWriters
  <2>3. PICK u \in Threads : u \in InState("waitWrite")
    BY <1>6, CountersPositive DEF InState
  <2>4. queue # << >>
    BY <2>2, <2>3 DEF QueueExact, TypeOK
  <2>5. Head(queue) # ReadItem
    BY <1>1, <2>4 DEF WindowClear
  <2>6. Head(queue) \in InState("waitWrite") /\ Head(queue) \in Threads
    BY <2>4, <2>5, TakeHead DEF QueueExact
  <2>7. queue' = Tail(queue) /\ signaled' = {Head(queue)}
    <3>1. Waiters(Head(queue)) = {Head(queue)}
      BY <2>2, <2>5, <2>6 DEF Waiters
    <3>2. QED
      BY <1>6, <2>2, <3>1 DEF ReadUnlock, MaybeSignalNextWriter
  <2>8. Head(queue) \notin InState("waitRead")
    BY <2>6 DEF InState
  <2>9. SignaledReaders' = {} /\ SignaledWriters' = {Head(queue)}
    BY <1>1, <2>6, <2>7, <2>8 DEF SignaledReaders, SignaledWriters
  <2>10. TypeOK'
    BY <1>4, <2>4, <2>6, <2>7, TakeHead DEF TypeOK, ReadUnlock, wants, QueueExact
  <2>11. CountsExact'
    BY <1>1, <1>3, <1>4, <2>1, <2>9 DEF CountsExact, ReadUnlock, wants
  <2>12. QueueExact'
    <3>1. \A i \in 1..Len(queue') :
            queue'[i] # ReadItem => queue'[i] \in InState("waitWrite")' \ signaled'
      BY <1>1, <2>2, <2>4, <2>7, TakeHead DEF QueueExact
    <3>2. \A v \in InState("waitWrite")' \ signaled' :
            \E i \in 1..Len(queue') : queue'[i] = v
      BY <1>1, <2>2, <2>4, <2>7, TakeHead DEF QueueExact
    <3>3. readInQueue' <=> \E i \in 1..Len(queue') : queue'[i] = ReadItem
      BY <1>3, <2>4, <2>5, <2>7, TakeHead DEF QueueExact
    <3>4. InState("waitRead")' \ signaled' = InState("waitRead") \ signaled
      BY <1>1, <2>2, <2>7, <2>8
    <3>5. \A i, j \in 1..Len(queue') : queue'[i] = queue'[j] => i = j
      BY <2>4, <2>7, TakeHead DEF QueueExact
    <3>6. QED
      BY <1>1, <1>3, <2>6, <2>7, <3>1, <3>2, <3>3, <3>4, <3>5 DEF QueueExact
  <2>13. WindowClear'
    BY <1>1, <1>2, <2>1, <2>7, <2>9 DEF WindowClear
  <2>14. QED BY <2>10, <2>11, <2>12, <2>13
<1>7. CASE ~ (numWantWrite > 0 /\ numSignaledReaders = 0 /\ numReaders - 1 = 0)
  <2>1. queue' = queue /\ signaled' = signaled
    BY <1>7 DEF ReadUnlock, MaybeSignalNextWriter
  <2>2. /\ SignaledReaders' = SignaledReaders
        /\ SignaledWriters' = SignaledWriters
    BY <1>1, <2>1 DEF SignaledReaders, SignaledWriters
  <2>3. queue # << >> => InState("reading")' # {} \/ signaled # {}
    <3>1. SUFFICES ASSUME queue # << >>, InState("reading")' = {}, signaled = {}
                   PROVE  FALSE
      OBVIOUS
    <3>2. numReaders - 1 = 0
      BY <1>4, <3>1, FS_EmptySet DEF ReadUnlock
    <3>3. numSignaledReaders = 0
      BY <3>1, CountersPositive DEF SignaledReaders, TypeOK
    <3>4. ~ (numWantWrite > 0) BY <1>7, <3>2, <3>3
    <3>5. InState("waitWrite") = {} BY <3>4, CountersPositive
    <3>6. Head(queue) = ReadItem
      BY <3>1, <3>5, TakeHead DEF QueueExact
    <3>7. QED BY <1>1, <3>1, <3>6 DEF WindowClear
  <2>4. WindowClear'
    BY <1>1, <1>2, <2>1, <2>2, <2>3 DEF WindowClear
  <2>5. QED BY <1>5, <2>1, <2>4
<1>8. QED BY <1>6, <1>7

\* The writer that leaves hands the lock to the head of the queue: to one writer,
\* or to all the readers that wait.
LEMMA WriteUnlockInv ==
  ASSUME IInv, NEW t \in Threads, WriteUnlock(t)
  PROVE  IInv'
<1> USE DEF IInv
<1>1. /\ t \in InState("writing")
      /\ InState("writing")' = InState("writing") \ {t}
      /\ InState("reading")' = InState("reading")
      /\ InState("waitWrite")' = InState("waitWrite")
      /\ InState("waitRead")' = InState("waitRead")
  <2>1. pc[t] = "writing" /\ pc' = [pc EXCEPT ![t] = "idle"]
    BY DEF WriteUnlock
  <2>2. /\ t \in InState("writing")
        /\ InState("writing")' = InState("writing") \ {t}
        /\ \A s : s # "writing" /\ s # "idle" => InState(s)' = InState(s)
    BY <2>1, Move, ZenonT(30)
  <2>3. QED BY <2>2
<1>2. /\ InState("reading") = {} /\ signaled = {}
      /\ InState("writing") = {t} /\ InState("writing")' = {}
  BY <1>1 DEF WindowClear
<1>3. numWriters' = Cardinality(InState("writing")') /\ numWriters' \in Nat
  BY <1>2, FS_EmptySet DEF WriteUnlock
<1>4. ExpWaiters' = ExpWaiters
  BY <1>1 DEF WriteUnlock, ExpWaiters
<1>5. CASE queue = << >>
  <2>1. UNCHANGED <<queue, signaled, readInQueue, readWaitExpensive, numSignaledReaders>>
    BY <1>5 DEF WriteUnlock, MaybeSignalOrBroadcastNext, waiting
  <2>2. SignaledReaders' = SignaledReaders
    BY <1>1, <2>1 DEF SignaledReaders
  <2>3. TypeOK' BY <1>3, <2>1 DEF TypeOK, WriteUnlock
  <2>4. CountsExact'
    BY <1>1, <1>3, <1>4, <2>1, <2>2 DEF CountsExact, WriteUnlock
  <2>5. QueueExact' BY <1>1, <2>1 DEF QueueExact
  <2>6. WindowClear'
    BY <1>1, <1>2, <1>5, <2>1 DEF WindowClear, SignaledReaders, SignaledWriters
  <2>7. QED BY <2>3, <2>4, <2>5, <2>6
<1>6. CASE queue # << >> /\ Head(queue) = ReadItem
  <2>1. /\ queue' = Tail(queue)
        /\ signaled' = InState("waitRead")
        /\ numSignaledReaders' = numWantRead
        /\ readInQueue' = FALSE /\ readWaitExpensive' = FALSE
    BY <1>2, <1>6
       DEF WriteUnlock, MaybeSignalOrBroadcastNext, GrantReaders, Waiters
  <2>2. InState("waitRead") # {}
    BY <1>6, TakeHead DEF QueueExact
  <2>3. InState("waitRead") \cap InState("waitWrite") = {}
    BY DEF InState
  <2>4. SignaledReaders' = InState("waitRead") /\ SignaledWriters' = {}
    BY <1>1, <2>1, <2>3 DEF SignaledReaders, SignaledWriters
  <2>5. TypeOK'
    <3>1. InState("waitRead") \in SUBSET Threads BY DEF InState
    <3>2. QED
      BY <1>3, <1>6, <2>1, <3>1, TakeHead DEF TypeOK, WriteUnlock, QueueExact
  <2>6. CountsExact'
    BY <1>1, <1>3, <1>4, <2>1, <2>4 DEF CountsExact, WriteUnlock
  <2>7. QueueExact'
    <3>1. \A i \in 1..Len(queue') : queue'[i] # ReadItem
      BY <1>6, <2>1, TakeHead DEF QueueExact
    <3>2. \A i \in 1..Len(queue') :
            queue'[i] # ReadItem => queue'[i] \in InState("waitWrite")' \ signaled'
      BY <1>1, <1>2, <1>6, <2>1, <2>3, TakeHead DEF QueueExact
    <3>3. \A v \in InState("waitWrite")' \ signaled' :
            \E i \in 1..Len(queue') : queue'[i] = v
      <4>1. SUFFICES ASSUME NEW v \in InState("waitWrite")
                     PROVE  \E i \in 1..Len(queue') : queue'[i] = v
        BY <1>1
      <4>2. PICK i \in 1..Len(queue) : queue[i] = v
        BY <1>2 DEF QueueExact
      <4>3. v # ReadItem BY FRWLockAssumption DEF InState
      <4>4. QED BY <1>6, <2>1, <4>2, <4>3, TakeHead DEF QueueExact
    <3>4. \A i, j \in 1..Len(queue') : queue'[i] = queue'[j] => i = j
      BY <1>6, <2>1, TakeHead DEF QueueExact
    <3>5. InState("waitRead")' \ signaled' = {}
      BY <1>1, <2>1
    <3>6. QED BY <1>1, <2>1, <3>1, <3>2, <3>3, <3>4, <3>5 DEF QueueExact
  <2>8. WindowClear'
    <3>1. queue' # << >> => Head(queue') = queue'[1] /\ 1 \in 1..Len(queue')
      BY <2>5 DEF TypeOK
    <3>2. queue' # << >> => Head(queue') # ReadItem
      BY <1>6, <2>1, <3>1, TakeHead DEF QueueExact
    <3>3. QED BY <1>1, <1>2, <2>1, <2>2, <2>4, <3>2 DEF WindowClear
  <2>9. QED BY <2>5, <2>6, <2>7, <2>8
<1>7. CASE queue # << >> /\ Head(queue) # ReadItem
  <2>1. Head(queue) \in InState("waitWrite") /\ Head(queue) \in Threads
    BY <1>7, TakeHead DEF QueueExact
  <2>2. /\ queue' = Tail(queue)
        /\ signaled' = {Head(queue)}
        /\ UNCHANGED <<numSignaledReaders, readInQueue, readWaitExpensive>>
    BY <1>2, <1>7, <2>1
       DEF WriteUnlock, MaybeSignalOrBroadcastNext, Waiters
  <2>3. Head(queue) \notin InState("waitRead")
    BY <2>1 DEF InState
  <2>4. SignaledReaders' = {} /\ SignaledReaders = {} /\ SignaledWriters' = {Head(queue)}
    BY <1>1, <1>2, <2>1, <2>2, <2>3 DEF SignaledReaders, SignaledWriters
  <2>5. TypeOK'
    BY <1>3, <1>7, <2>1, <2>2, TakeHead DEF TypeOK, WriteUnlock, QueueExact
  <2>6. CountsExact'
    BY <1>1, <1>3, <1>4, <2>2, <2>4 DEF CountsExact, WriteUnlock
  <2>7. QueueExact'
    <3>1. \A i \in 1..Len(queue') :
            queue'[i] # ReadItem => queue'[i] \in InState("waitWrite")' \ signaled'
      BY <1>1, <1>2, <1>7, <2>2, TakeHead DEF QueueExact
    <3>2. \A v \in InState("waitWrite")' \ signaled' :
            \E i \in 1..Len(queue') : queue'[i] = v
      BY <1>1, <1>2, <1>7, <2>2, TakeHead DEF QueueExact
    <3>3. readInQueue' <=> \E i \in 1..Len(queue') : queue'[i] = ReadItem
      BY <1>7, <2>2, TakeHead DEF QueueExact
    <3>4. InState("waitRead")' \ signaled' = InState("waitRead") \ signaled
      BY <1>1, <1>2, <2>2, <2>3
    <3>5. \A i, j \in 1..Len(queue') : queue'[i] = queue'[j] => i = j
      BY <1>7, <2>2, TakeHead DEF QueueExact
    <3>6. QED
      BY <1>1, <2>1, <2>2, <3>1, <3>2, <3>3, <3>4, <3>5 DEF QueueExact
  <2>8. WindowClear'
    BY <1>1, <1>2, <2>2, <2>4 DEF WindowClear
  <2>9. QED BY <2>5, <2>6, <2>7, <2>8
<1>8. QED BY <1>5, <1>6, <1>7

-----------------------------------------------------------------------------
(* The theorems *)

\* IInv holds initially and every step preserves it.
THEOREM Inductive ==
  ASSUME ~ SpuriousWakeups
  PROVE  Spec => []IInv
<1>1. Init => IInv
  <2> SUFFICES ASSUME Init PROVE IInv
    OBVIOUS
  <2>1. /\ InState("reading") = {} /\ InState("writing") = {}
        /\ InState("waitRead") = {} /\ InState("waitWrite") = {}
    BY DEF Init, InState
  <2>2. SignaledReaders = {} /\ SignaledWriters = {} /\ ExpWaiters = {}
    BY <2>1 DEF SignaledReaders, SignaledWriters, ExpWaiters
  <2>3. TypeOK
    <3>1. /\ pc \in [Threads -> {"idle", "reading", "writing", "waitRead", "waitWrite"}]
          /\ exp \in [Threads -> BOOLEAN]
      BY DEF Init
    <3>2. queue \in Seq(Threads \cup {ReadItem})
      BY DEF Init
    <3>3. signaled \in SUBSET Threads
      BY DEF Init
    <3>4. readInQueue \in BOOLEAN /\ writerExpensive \in BOOLEAN
          /\ readWaitExpensive \in BOOLEAN
      BY DEF Init
    <3>5. /\ numReaders \in Nat /\ numWriters \in Nat /\ numWantWrite \in Nat
          /\ numWantRead \in Nat /\ numSignaledReaders \in Nat /\ numExpWantWrite \in Nat
      BY DEF Init
    <3>6. QED
      BY <3>1, <3>2, <3>3, <3>4, <3>5 DEF TypeOK
  <2>4. CountsExact BY <2>1, <2>2, FS_EmptySet DEF Init, CountsExact
  <2>5. QueueExact BY <2>1 DEF Init, QueueExact
  <2>6. WindowClear BY <2>1, <2>2 DEF Init, WindowClear
  <2>7. QED BY <2>3, <2>4, <2>5, <2>6 DEF IInv
<1>2. IInv /\ [Next]_vars => IInv'
  <2> SUFFICES ASSUME IInv, [Next]_vars PROVE IInv'
    OBVIOUS
  <2>1. CASE Next
    <3>1. PICK t \in Threads :
            \/ \E e \in BOOLEAN : TryWriteLock(t, e) \/ WriteLockWait(t, e)
            \/ TryReadLock(t) \/ ReadLockWait(t)
            \/ WriteLockWake(t) \/ ReadLockWake(t)
            \/ ReadUnlock(t) \/ WriteUnlock(t)
      BY <2>1 DEF Next
    <3>2. QED
      BY <3>1, TryWriteLockInv, WriteLockWaitInv, TryReadLockInv, ReadLockWaitInv,
         WriteLockWakeInv, ReadLockWakeInv, ReadUnlockInv, WriteUnlockInv
  <2>2. CASE UNCHANGED vars
    BY <2>2 DEF vars, IInv, TypeOK, CountsExact, QueueExact, WindowClear,
                SignaledReaders, SignaledWriters, ExpWaiters, InState
  <2>3. QED BY <2>1, <2>2
<1>3. QED BY <1>1, <1>2, PTL DEF Spec

\* One writer or any number of readers, for any number of threads.
THEOREM MutualExclusionHolds ==
  ASSUME ~ SpuriousWakeups
  PROVE  Spec => []MutualExclusion
<1>1. IInv => MutualExclusion
  BY DEF IInv, WindowClear, MutualExclusion
<1>2. QED BY <1>1, Inductive, PTL

\* Whatever runs between a signal and the wakeup it causes, the lock is free for
\* the thread that wakes: write_lock and read_lock need no second look.
THEOREM WakeupStillValidHolds ==
  ASSUME ~ SpuriousWakeups
  PROVE  Spec => []WakeupStillValid
<1>1. IInv => WakeupStillValid
  <2> SUFFICES ASSUME IInv PROVE WakeupStillValid
    OBVIOUS
  <2>1. TypeOK /\ CountsExact BY DEF IInv
  <2>2. SignaledWriters # {} =>
          /\ ~ (numReaders > 0) /\ ~ (numWriters > 0) /\ ~ (numSignaledReaders > 0)
    BY <2>1, CountersPositive DEF IInv, WindowClear
  <2>3. SignaledReaders # {} => ~ (numWriters > 0)
    BY <2>1, CountersPositive DEF IInv, WindowClear, SignaledReaders
  <2>4. QED
    BY <2>1, <2>2, <2>3 DEF WakeupStillValid, IInv, TypeOK, CountsExact, WindowClear
<1>2. QED BY <1>1, Inductive, PTL

\* No waiter is stranded, and the last reader always finds a writer at the head.
THEOREM QueueServed ==
  ASSUME ~ SpuriousWakeups
  PROVE  Spec => [](NoStrandedWaiter /\ HeadIsWriter)
<1>1. IInv => NoStrandedWaiter /\ HeadIsWriter
  BY CountersPositive DEF IInv, WindowClear, NoStrandedWaiter, HeadIsWriter
<1>2. QED BY <1>1, Inductive, PTL

\* Every step of the lock is a step of the abstract reader-writer lock or changes
\* nothing it can see: write_lock, read_lock and their fast paths acquire, the
\* unlocks release, and the entries into a condition wait stutter.
THEOREM ImplementsReadWriteLock ==
  ASSUME ~ SpuriousWakeups
  PROVE  Spec => RWLSpec
<1>1. Init => RWL!Init
  BY DEF Init, RWL!Init, InState
<1>2. IInv /\ [Next]_vars => [RWL!Next]_(RWL!vars)
  <2> SUFFICES ASSUME IInv, [Next]_vars PROVE [RWL!Next]_(RWL!vars)
    OBVIOUS
  <2>0. TypeOK /\ CountsExact /\ WindowClear BY DEF IInv
  <2>1. CASE UNCHANGED vars
    BY <2>1 DEF vars, InState, RWL!vars
  <2>2. ASSUME NEW t \in Threads PROVE
          /\ \A e \in BOOLEAN : TryWriteLock(t, e) => RWL!AcquireWrite(t)
          /\ WriteLockWake(t) => RWL!AcquireWrite(t)
          /\ TryReadLock(t) => RWL!AcquireRead(t)
          /\ ReadLockWake(t) => RWL!AcquireRead(t)
          /\ ReadUnlock(t) => RWL!ReleaseRead(t)
          /\ WriteUnlock(t) => RWL!ReleaseWrite(t)
          /\ \A e \in BOOLEAN : WriteLockWait(t, e) => UNCHANGED RWL!vars
          /\ ReadLockWait(t) => UNCHANGED RWL!vars
    <3>1. ASSUME NEW a, NEW b, pc[t] = a, pc' = [pc EXCEPT ![t] = b]
          PROVE  /\ a = "idle" /\ b = "writing" =>
                      /\ InState("reading")' = InState("reading")
                      /\ InState("writing")' = InState("writing") \cup {t}
                 /\ a = "waitWrite" /\ b = "writing" =>
                      /\ InState("reading")' = InState("reading")
                      /\ InState("writing")' = InState("writing") \cup {t}
                 /\ a \in {"idle", "waitRead"} /\ b = "reading" =>
                      /\ InState("reading")' = InState("reading") \cup {t}
                      /\ InState("writing")' = InState("writing")
                      /\ t \notin InState("reading")
                 /\ a = "reading" /\ b = "idle" =>
                      /\ InState("reading")' = InState("reading") \ {t}
                      /\ InState("writing")' = InState("writing")
                      /\ t \in InState("reading")
                 /\ a = "writing" /\ b = "idle" =>
                      /\ InState("reading")' = InState("reading")
                      /\ InState("writing")' = InState("writing") \ {t}
                      /\ t \in InState("writing")
                 /\ a = "idle" /\ b \in {"waitRead", "waitWrite"} =>
                      /\ InState("reading")' = InState("reading")
                      /\ InState("writing")' = InState("writing")
      BY <2>0, <3>1 DEF TypeOK, InState
    <3>2. ASSUME NEW e \in BOOLEAN, TryWriteLock(t, e) PROVE RWL!AcquireWrite(t)
      <4>1. pc[t] = "idle" /\ pc' = [pc EXCEPT ![t] = "writing"]
        BY <3>2 DEF TryWriteLock, TakeWrite
      <4>2. InState("reading") = {} /\ InState("writing") = {}
        BY <2>0, <3>2, CountersPositive DEF TryWriteLock, WriteMustWait
      <4>3. QED BY <3>1, <4>1, <4>2 DEF RWL!AcquireWrite
    <3>3. ASSUME WriteLockWake(t) PROVE RWL!AcquireWrite(t)
      <4>1. pc[t] = "waitWrite" /\ pc' = [pc EXCEPT ![t] = "writing"] /\ t \in signaled
        BY <3>3 DEF WriteLockWake, TakeWrite
      <4>2. InState("reading") = {} /\ InState("writing") = {}
        BY <2>0, <4>1 DEF WindowClear, SignaledWriters, InState
      <4>3. QED BY <3>1, <4>1, <4>2 DEF RWL!AcquireWrite
    <3>4. ASSUME TryReadLock(t) PROVE RWL!AcquireRead(t)
      <4>1. pc[t] = "idle" /\ pc' = [pc EXCEPT ![t] = "reading"]
        BY <3>4 DEF TryReadLock
      <4>2. InState("writing") = {}
        BY <2>0, <3>4, CountersPositive DEF TryReadLock, ReadMustWait
      <4>3. QED BY <3>1, <4>1, <4>2 DEF RWL!AcquireRead
    <3>5. ASSUME ReadLockWake(t) PROVE RWL!AcquireRead(t)
      <4>1. pc[t] = "waitRead" /\ pc' = [pc EXCEPT ![t] = "reading"] /\ t \in signaled
        BY <3>5 DEF ReadLockWake
      <4>2. InState("writing") = {}
        BY <2>0, <4>1 DEF WindowClear
      <4>3. QED BY <3>1, <4>1, <4>2 DEF RWL!AcquireRead
    <3>6. ASSUME ReadUnlock(t) PROVE RWL!ReleaseRead(t)
      <4>1. pc[t] = "reading" /\ pc' = [pc EXCEPT ![t] = "idle"]
        BY <3>6 DEF ReadUnlock
      <4>2. QED BY <3>1, <4>1 DEF RWL!ReleaseRead
    <3>7. ASSUME WriteUnlock(t) PROVE RWL!ReleaseWrite(t)
      <4>1. pc[t] = "writing" /\ pc' = [pc EXCEPT ![t] = "idle"]
        BY <3>7 DEF WriteUnlock
      <4>2. QED BY <3>1, <4>1 DEF RWL!ReleaseWrite
    <3>8. ASSUME NEW e \in BOOLEAN, WriteLockWait(t, e) PROVE UNCHANGED RWL!vars
      <4>1. pc[t] = "idle" /\ pc' = [pc EXCEPT ![t] = "waitWrite"]
        BY <3>8 DEF WriteLockWait
      <4>2. QED BY <3>1, <4>1 DEF RWL!vars
    <3>9. ASSUME ReadLockWait(t) PROVE UNCHANGED RWL!vars
      <4>1. pc[t] = "idle" /\ pc' = [pc EXCEPT ![t] = "waitRead"]
        BY <3>9 DEF ReadLockWait
      <4>2. QED BY <3>1, <4>1 DEF RWL!vars
    <3>10. QED BY <3>2, <3>3, <3>4, <3>5, <3>6, <3>7, <3>8, <3>9
  <2>3. CASE Next
    <3>1. PICK t \in Threads :
            \/ \E e \in BOOLEAN : TryWriteLock(t, e) \/ WriteLockWait(t, e)
            \/ TryReadLock(t) \/ ReadLockWait(t)
            \/ WriteLockWake(t) \/ ReadLockWake(t)
            \/ ReadUnlock(t) \/ WriteUnlock(t)
      BY <2>3 DEF Next
    <3>2. QED BY <2>2, <3>1 DEF RWL!Next
  <2>4. QED BY <2>1, <2>3
<1>3. QED BY <1>1, <1>2, Inductive, PTL DEF Spec, RWLSpec, RWL!Spec
-----------------------------------------------------------------------------
(* Who gets the lock at once, and what a reader is told of the wait *)

\* try_write_lock succeeds only when the queue is empty and nobody was signalled.
LEMMA FastWriterAlone ==
  ASSUME IInv, NEW t \in Threads, NEW e \in BOOLEAN, TryWriteLock(t, e)
  PROVE  queue = << >> /\ signaled = {}
<1> USE DEF IInv
<1>1. /\ InState("reading") = {} /\ InState("writing") = {}
      /\ InState("waitWrite") = {} /\ SignaledReaders = {}
  BY CountersPositive DEF TryWriteLock, WriteMustWait, TypeOK
<1>2. signaled = {}
  BY <1>1 DEF QueueExact, SignaledReaders
<1>3. QED BY <1>1, <1>2 DEF WindowClear

\* A thread that did not wait gets the write lock only when nobody waits, and the read
\* lock only when no writer waits: the queue of frwlock.cc is not overtaken.
THEOREM NoOvertakingHolds ==
  ASSUME ~ SpuriousWakeups
  PROVE  Spec => NoOvertaking
<1>1. ASSUME IInv, [Next]_vars
      PROVE  [\A t \in Threads : pc[t] = "idle" =>
                /\ pc'[t] = "writing" => queue = << >> /\ signaled = {}
                /\ pc'[t] = "reading" => InState("waitWrite") = {}]_vars
  <2>1. SUFFICES ASSUME NEW t \in Threads, pc[t] = "idle", pc'[t] \in {"writing", "reading"}
                 PROVE  /\ pc'[t] = "writing" => queue = << >> /\ signaled = {}
                        /\ pc'[t] = "reading" => InState("waitWrite") = {}
    OBVIOUS
  <2>2. PICK u \in Threads :
          \/ \E e \in BOOLEAN : TryWriteLock(u, e) \/ WriteLockWait(u, e)
          \/ TryReadLock(u) \/ ReadLockWait(u)
          \/ WriteLockWake(u) \/ ReadLockWake(u)
          \/ ReadUnlock(u) \/ WriteUnlock(u)
    BY <1>1, <2>1 DEF Next, vars
  <2>3. \/ pc'[t] = "writing" /\ u = t /\ \E e \in BOOLEAN : TryWriteLock(u, e)
        \/ pc'[t] = "reading" /\ u = t /\ TryReadLock(u)
    <3>1. pc \in [Threads -> {"idle", "reading", "writing", "waitRead", "waitWrite"}]
      BY <1>1 DEF IInv, TypeOK
    <3>2. QED
      BY <2>1, <2>2, <3>1 DEF TryWriteLock, TakeWrite, WriteLockWait, TryReadLock, ReadLockWait,
         WriteLockWake, ReadLockWake, ReadUnlock, WriteUnlock
  <2>4. CASE \E e \in BOOLEAN : TryWriteLock(u, e)
    <3>1. PICK e \in BOOLEAN : TryWriteLock(u, e)
      BY <2>4
    <3>2. queue = << >> /\ signaled = {}
      BY <1>1, <3>1, FastWriterAlone
    <3>3. InState("waitWrite") = {}
      BY <1>1, <3>1, CountersPositive DEF IInv, TryWriteLock, WriteMustWait
    <3>4. QED BY <3>2, <3>3
  <2>5. CASE TryReadLock(u) /\ pc'[t] = "reading"
    <3>1. InState("waitWrite") = {}
      BY <1>1, <2>5, CountersPositive DEF IInv, TryReadLock, ReadMustWait
    <3>2. QED BY <2>5, <3>1
  <2>6. QED BY <2>3, <2>4, <2>5
<1>2. QED BY <1>1, Inductive, PTL DEF Spec, NoOvertaking

\* What the readers' entry promises, with the bounds of the queue spelled out.
LEMMA HonestSpelledOut ==
  ASSUME TypeOK
  PROVE  ReadCostHonest <=>
           (readInQueue /\ ~ readWaitExpensive =>
              /\ ~ writerExpensive
              /\ \A t \in SignaledWriters : ~ exp[t]
              /\ \A i, j \in 1..Len(queue) : i < j /\ queue[j] = ReadItem => ~ exp[queue[i]])
BY DEF ReadCostHonest, ReadLockIsExpensive, TypeOK

\* The same of the state after a step.
LEMMA HonestAfter ==
  ASSUME TypeOK',
         readInQueue' /\ ~ readWaitExpensive' =>
              /\ ~ writerExpensive'
              /\ \A t \in SignaledWriters' : ~ exp'[t]
              /\ \A i, j \in 1..Len(queue') : i < j /\ queue'[j] = ReadItem => ~ exp'[queue'[i]]
  PROVE  ReadCostHonest'
BY DEF ReadCostHonest, ReadLockIsExpensive, TypeOK

\* A writer that joins the queue comes after the readers' entry.
LEMMA HonestWriteLockWait ==
  ASSUME IInv, IInv', ReadCostHonest, NEW t \in Threads, NEW e \in BOOLEAN, WriteLockWait(t, e)
  PROVE  ReadCostHonest'
<1> USE DEF IInv
<1>1. /\ t \notin signaled /\ signaled' = signaled /\ t # ReadItem
      /\ queue' = Append(queue, t) /\ readInQueue' = readInQueue
      /\ readWaitExpensive' = readWaitExpensive /\ writerExpensive' = writerExpensive
      /\ pc[t] = "idle" /\ pc' = [pc EXCEPT ![t] = "waitWrite"]
      /\ exp' = [exp EXCEPT ![t] = e]
  BY FRWLockAssumption DEF QueueExact, WriteLockWait, InState
<1>2. SignaledWriters' = SignaledWriters
  BY <1>1 DEF SignaledWriters, InState, TypeOK
<1>3. \A u \in Threads : u # t => exp'[u] = exp[u]
  BY <1>1 DEF TypeOK
<1>4. /\ Len(queue') = Len(queue) + 1 /\ queue'[Len(queue) + 1] = t
      /\ \A i \in 1..Len(queue) : queue'[i] = queue[i]
      /\ Len(queue) \in Nat
  BY <1>1 DEF TypeOK
<1>5. \A i \in 1..Len(queue) : queue[i] # t
  BY <1>1 DEF QueueExact, InState
<1>6. SUFFICES ASSUME readInQueue, ~ readWaitExpensive
               PROVE  /\ ~ writerExpensive
                      /\ \A u \in SignaledWriters : ~ exp'[u]
                      /\ \A i, j \in 1..Len(queue') :
                           i < j /\ queue'[j] = ReadItem => ~ exp'[queue'[i]]
  BY <1>1, <1>2, HonestSpelledOut, HonestAfter
<1>7. /\ ~ writerExpensive /\ \A u \in SignaledWriters : ~ exp[u]
      /\ \A i, j \in 1..Len(queue) : i < j /\ queue[j] = ReadItem => ~ exp[queue[i]]
  BY <1>6, HonestSpelledOut
<1>8. \A u \in SignaledWriters : ~ exp'[u]
  BY <1>1, <1>3, <1>7 DEF SignaledWriters, TypeOK
<1>9. ASSUME NEW i \in 1..Len(queue'), NEW j \in 1..Len(queue'), i < j, queue'[j] = ReadItem
      PROVE  ~ exp'[queue'[i]]
  <2>1. j \in 1..Len(queue) /\ i \in 1..Len(queue)
    <3>1. PICK n : n = Len(queue) OBVIOUS
    <3>2. n \in Nat /\ Len(queue') = n + 1 /\ queue'[n + 1] = t BY <3>1, <1>4
    <3>3. j \in 1..n + 1 /\ i \in 1..n + 1 /\ i < j /\ queue'[j] # t BY <3>2, <1>1, <1>9
    <3>4. j # n + 1 BY ONLY <3>2, <3>3
    <3>5. j \in 1..n /\ i \in 1..n BY ONLY <3>2, <3>3, <3>4
    <3>6. QED BY ONLY <3>1, <3>5
  <2>2. ~ exp[queue[i]] /\ queue[i] # ReadItem /\ queue[i] # t /\ queue[i] \in Threads
    <3>1. queue[j] = ReadItem BY <1>4, <1>9, <2>1
    <3>2. ~ exp[queue[i]] BY <3>1, <1>7, <1>9, <2>1
    <3>3. queue[i] # ReadItem BY <3>1, <1>9, <2>1 DEF QueueExact
    <3>4. queue[i] \in Threads BY <3>3, <2>1 DEF TypeOK
    <3>5. QED BY <3>2, <3>3, <3>4, <1>5, <2>1
  <2>3. QED BY <1>3, <1>4, <2>1, <2>2
<1>10. QED BY <1>7, <1>8, <1>9

\* The entry is made when the cost is known: no expensive writer holds the lock or waits.
LEMMA HonestReadLockWait ==
  ASSUME IInv, IInv', ReadCostHonest, NEW t \in Threads, ReadLockWait(t)
  PROVE  ReadCostHonest'
<1> USE DEF IInv
<1>1. /\ signaled' = signaled /\ exp' = exp /\ writerExpensive' = writerExpensive
      /\ pc[t] = "idle" /\ pc' = [pc EXCEPT ![t] = "waitRead"]
  BY DEF ReadLockWait
<1>2. SignaledWriters' = SignaledWriters
  BY <1>1 DEF SignaledWriters, InState, TypeOK
<1>3. CASE readInQueue
  <2>1. UNCHANGED <<queue, readInQueue, readWaitExpensive>>
    BY <1>3 DEF ReadLockWait
  <2>2. QED BY <1>1, <1>2, <2>1, HonestSpelledOut DEF ReadCostHonest, ReadLockIsExpensive
<1>4. CASE ~ readInQueue
  <2>1. queue' = Append(queue, ReadItem) /\ readInQueue' /\ readWaitExpensive' = ReadCost
    BY <1>4 DEF ReadLockWait
  <2>2. SUFFICES ASSUME ~ ReadCost
                 PROVE  /\ ~ writerExpensive
                        /\ \A u \in SignaledWriters : ~ exp[u]
                        /\ \A i, j \in 1..Len(queue') :
                             i < j /\ queue'[j] = ReadItem => ~ exp[queue'[i]]
    BY <1>1, <1>2, <2>1, HonestAfter
  <2>3. ~ writerExpensive /\ ExpWaiters = {}
    BY <2>2, CountZero, CountedSetsFinite DEF ReadCost, CountsExact
  <2>4. \A u \in InState("waitWrite") : ~ exp[u]
    BY <2>3 DEF ExpWaiters
  <2>5. /\ Len(queue') = Len(queue) + 1 /\ Len(queue) \in Nat
        /\ \A i \in 1..Len(queue) : queue'[i] = queue[i] /\ queue[i] # ReadItem
    BY <1>4, <2>1 DEF TypeOK, QueueExact
  <2>6. ASSUME NEW i \in 1..Len(queue'), NEW j \in 1..Len(queue'), i < j
        PROVE  ~ exp[queue'[i]]
    <3>1. i \in 1..Len(queue)
      BY <2>5, <2>6
    <3>2. QED BY <2>4, <2>5, <3>1 DEF QueueExact
  <2>7. QED BY <2>3, <2>4, <2>6 DEF SignaledWriters
<1>5. QED BY <1>3, <1>4

\* A writer that is taken off the head of the queue was before the readers' entry.
LEMMA HonestTakeHead ==
  ASSUME IInv, IInv', ReadCostHonest, queue # << >>, Head(queue) # ReadItem,
         queue' = Tail(queue), exp' = exp,
         readInQueue' = readInQueue, readWaitExpensive' = readWaitExpensive,
         SignaledWriters' \subseteq SignaledWriters \cup {Head(queue)},
         writerExpensive' => writerExpensive
  PROVE  ReadCostHonest'
<1> USE DEF IInv
<1>1. SUFFICES ASSUME readInQueue, ~ readWaitExpensive
               PROVE  /\ ~ writerExpensive'
                      /\ \A u \in SignaledWriters' : ~ exp[u]
                      /\ \A i, j \in 1..Len(queue') :
                           i < j /\ queue'[j] = ReadItem => ~ exp[queue'[i]]
  BY HonestAfter
<1>2. /\ ~ writerExpensive /\ \A u \in SignaledWriters : ~ exp[u]
      /\ \A i, j \in 1..Len(queue) : i < j /\ queue[j] = ReadItem => ~ exp[queue[i]]
  BY <1>1, HonestSpelledOut
<1>3. /\ Head(queue) = queue[1] /\ 1 \in 1..Len(queue)
      /\ \A i \in 1..Len(queue') : i + 1 \in 1..Len(queue) /\ queue'[i] = queue[i + 1]
  BY TakeHead DEF QueueExact
<1>4. PICK k \in 1..Len(queue) : queue[k] = ReadItem
  BY <1>1 DEF QueueExact
<1>5. ~ exp[Head(queue)]
  BY <1>2, <1>3, <1>4
<1>6. ASSUME NEW i \in 1..Len(queue'), NEW j \in 1..Len(queue'), i < j, queue'[j] = ReadItem
      PROVE  ~ exp[queue'[i]]
  BY <1>2, <1>3, <1>6
<1>7. QED BY <1>2, <1>5, <1>6

\* What changes neither queue nor costs, and adds no signalled writer, is harmless.
LEMMA HonestKept ==
  ASSUME IInv, IInv', ReadCostHonest,
         exp' = exp, queue' = queue,
         readInQueue' = readInQueue, readWaitExpensive' = readWaitExpensive,
         SignaledWriters' \subseteq SignaledWriters,
         writerExpensive' => writerExpensive \/ \E t \in SignaledWriters : exp[t]
  PROVE  ReadCostHonest'
<1> USE DEF IInv
<1>1. SUFFICES ASSUME readInQueue, ~ readWaitExpensive
               PROVE  /\ ~ writerExpensive'
                      /\ \A u \in SignaledWriters' : ~ exp[u]
                      /\ \A i, j \in 1..Len(queue) :
                           i < j /\ queue[j] = ReadItem => ~ exp[queue[i]]
  BY HonestAfter
<1>2. QED BY <1>1, HonestSpelledOut

\* read_lock_is_expensive never says "cheap" to a reader that an expensive writer will
\* keep waiting, however the queue moved since the readers' entry was made.
THEOREM ReadCostHonestHolds ==
  ASSUME ~ SpuriousWakeups
  PROVE  Spec => []ReadCostHonest
<1>1. Init => ReadCostHonest
  BY DEF Init, ReadCostHonest
<1>2. ASSUME IInv, IInv', ReadCostHonest, [Next]_vars
      PROVE  ReadCostHonest'
  <2> USE <1>2
  <2>1. CASE UNCHANGED vars
    BY <2>1 DEF vars, ReadCostHonest, ReadLockIsExpensive, ReadCost, SignaledWriters, InState
  <2>2. ASSUME NEW t \in Threads, NEW e \in BOOLEAN, TryWriteLock(t, e)
        PROVE  ReadCostHonest'
    <3>1. queue = << >> /\ queue' = queue /\ readInQueue' = readInQueue
      BY <2>2, FastWriterAlone DEF TryWriteLock, waiting
    <3>2. ~ readInQueue'
      BY <3>1 DEF IInv, QueueExact
    <3>3. QED BY <3>2 DEF ReadCostHonest
  <2>3. ASSUME NEW t \in Threads, WriteLockWake(t)
        PROVE  ReadCostHonest'
    <3>1. /\ t \in SignaledWriters /\ writerExpensive' = exp[t] /\ exp' = exp /\ queue' = queue
          /\ readInQueue' = readInQueue /\ readWaitExpensive' = readWaitExpensive
          /\ signaled' = signaled \ {t} /\ pc' = [pc EXCEPT ![t] = "writing"]
      BY <2>3 DEF WriteLockWake, TakeWrite, SignaledWriters, InState
    <3>2. SignaledWriters' \subseteq SignaledWriters
      BY <3>1 DEF SignaledWriters, InState, IInv, TypeOK
    <3>3. QED BY <3>1, <3>2, HonestKept
  <2>4. ASSUME NEW t \in Threads, TryReadLock(t) \/ ReadLockWake(t)
        PROVE  ReadCostHonest'
    <3>1. /\ writerExpensive' = writerExpensive /\ exp' = exp /\ queue' = queue
          /\ readInQueue' = readInQueue /\ readWaitExpensive' = readWaitExpensive
          /\ signaled' \subseteq signaled /\ pc' = [pc EXCEPT ![t] = "reading"]
      BY <2>4 DEF TryReadLock, ReadLockWake, waiting
    <3>2. SignaledWriters' \subseteq SignaledWriters
      BY <3>1 DEF SignaledWriters, InState, IInv, TypeOK
    <3>3. QED BY <3>1, <3>2, HonestKept
  <2>5. ASSUME NEW t \in Threads, ReadUnlock(t)
        PROVE  ReadCostHonest'
    <3>1. /\ writerExpensive' = writerExpensive /\ exp' = exp
          /\ readInQueue' = readInQueue /\ readWaitExpensive' = readWaitExpensive
          /\ pc[t] = "reading" /\ pc' = [pc EXCEPT ![t] = "idle"]
      BY <2>5 DEF ReadUnlock
    <3>2. InState("waitWrite")' = InState("waitWrite")
      BY <3>1 DEF InState, IInv, TypeOK
    <3>3. CASE UNCHANGED <<queue, signaled>>
      <4>1. SignaledWriters' \subseteq SignaledWriters
        BY <3>2, <3>3 DEF SignaledWriters
      <4>2. QED BY <3>1, <3>3, <4>1, HonestKept
    <3>4. CASE ~ UNCHANGED <<queue, signaled>>
      <4>1. /\ numWantWrite > 0 /\ numSignaledReaders = 0 /\ queue' = Tail(queue)
            /\ \E u \in Waiters(Head(queue)) : signaled' = signaled \cup {u}
        BY <2>5, <3>4 DEF ReadUnlock, MaybeSignalNextWriter
      <4>2. InState("reading") # {}
        BY <3>1 DEF InState
      <4>3. signaled = {}
        <5>1. SignaledReaders = {}
          BY <4>1, CountersPositive DEF IInv
        <5>2. QED BY <4>2, <5>1 DEF IInv, WindowClear, QueueExact, SignaledReaders, SignaledWriters
      <4>4. queue # << >>
        <5>1. InState("waitWrite") # {}
          BY <4>1, CountersPositive DEF IInv
        <5>2. QED BY <4>3, <5>1 DEF IInv, QueueExact
      <4>5. Head(queue) # ReadItem
        BY <4>2, <4>4 DEF IInv, WindowClear
      <4>6. SignaledWriters' \subseteq SignaledWriters \cup {Head(queue)}
        BY <3>2, <4>1, <4>5 DEF SignaledWriters, Waiters
      <4>7. QED BY <3>1, <4>1, <4>4, <4>5, <4>6, HonestTakeHead
    <3>5. QED BY <3>3, <3>4
  <2>6. ASSUME NEW t \in Threads, WriteUnlock(t)
        PROVE  ReadCostHonest'
    <3>1. /\ writerExpensive' = FALSE /\ exp' = exp
          /\ pc[t] = "writing" /\ pc' = [pc EXCEPT ![t] = "idle"]
      BY <2>6 DEF WriteUnlock
    <3>2. InState("waitWrite")' = InState("waitWrite")
      BY <3>1 DEF InState, IInv, TypeOK
    <3>3. CASE queue = << >>
      <4>1. queue' = queue /\ signaled' = signaled
            /\ readInQueue' = readInQueue /\ readWaitExpensive' = readWaitExpensive
        BY <2>6, <3>3 DEF WriteUnlock, MaybeSignalOrBroadcastNext, waiting
      <4>2. SignaledWriters' \subseteq SignaledWriters
        BY <3>2, <4>1 DEF SignaledWriters
      <4>3. QED BY <3>1, <4>1, <4>2, HonestKept
    <3>4. CASE queue # << >> /\ Head(queue) = ReadItem
      <4>1. readInQueue' = FALSE
        BY <2>6, <3>4 DEF WriteUnlock, MaybeSignalOrBroadcastNext, GrantReaders
      <4>2. QED BY <4>1 DEF ReadCostHonest
    <3>5. CASE queue # << >> /\ Head(queue) # ReadItem
      <4>1. /\ queue' = Tail(queue) /\ signaled' = signaled \cup Waiters(Head(queue))
            /\ readInQueue' = readInQueue /\ readWaitExpensive' = readWaitExpensive
        BY <2>6, <3>5 DEF WriteUnlock, MaybeSignalOrBroadcastNext
      <4>2. SignaledWriters' \subseteq SignaledWriters \cup {Head(queue)}
        BY <3>2, <3>5, <4>1 DEF SignaledWriters, Waiters
      <4>3. QED BY <3>1, <3>5, <4>1, <4>2, HonestTakeHead
    <3>6. QED BY <3>3, <3>4, <3>5
  <2>7. CASE Next
    BY <2>7, <2>2, <2>3, <2>4, <2>5, <2>6, HonestWriteLockWait, HonestReadLockWait DEF Next
  <2>8. QED BY <2>1, <2>7
<1>3. QED BY <1>1, <1>2, Inductive, PTL DEF Spec

-----------------------------------------------------------------------------
(* The reader-writer lock of the cachetable *)

\* The sets that the counters of st_rwlock count are finite.
LEMMA RwFinite == \A s : IsFiniteSet(RwIn(s))
BY RWLockAssumption, FS_Subset DEF RwIn

\* A counter is a number, and zero exactly when there is nobody to count.
LEMMA RwCounts ==
  ASSUME RwTypeOK
  PROVE  /\ reader \in Nat /\ writer \in Nat /\ wantRead \in Nat /\ wantWrite \in Nat
         /\ reader = 0 <=> RwIn("reading") = {}
         /\ writer = 0 <=> RwIn("writing") = {}
         /\ wantRead = 0 <=> RwIn("waitRead") = {}
         /\ wantWrite = 0 <=> RwIn("waitWrite") = {}
<1>1. \A s : Cardinality(RwIn(s)) \in Nat /\ (Cardinality(RwIn(s)) = 0 <=> RwIn(s) = {})
  BY RwFinite, FS_CardinalityType, FS_EmptySet
<1>2. QED BY <1>1 DEF RwTypeOK

\* A step that moves thread t from state a to state b changes two of the sets, and
\* their sizes by one.
LEMMA RwMoves ==
  ASSUME RwTypeOK, NEW t \in RwThreads, NEW CONSTANT a, NEW CONSTANT b,
         rwpc[t] = a, a # b, RwMove(t, b)
  PROVE  /\ t \in RwIn(a) /\ t \notin RwIn(b)
         /\ RwIn(a)' = RwIn(a) \ {t} /\ RwIn(b)' = RwIn(b) \cup {t}
         /\ \A s : s # a /\ s # b => RwIn(s)' = RwIn(s)
         /\ Cardinality(RwIn(a)') = Cardinality(RwIn(a)) - 1
         /\ Cardinality(RwIn(b)') = Cardinality(RwIn(b)) + 1
<1>1. rwpc'[t] = b /\ \A u \in RwThreads : u # t => rwpc'[u] = rwpc[u]
  BY DEF RwTypeOK, RwMove
<1>2. /\ t \in RwIn(a) /\ t \notin RwIn(b)
      /\ RwIn(a)' = RwIn(a) \ {t} /\ RwIn(b)' = RwIn(b) \cup {t}
      /\ \A s : s # a /\ s # b => RwIn(s)' = RwIn(s)
  BY <1>1 DEF RwIn
<1>3. Cardinality(RwIn(a) \ {t}) = Cardinality(RwIn(a)) - 1
  BY <1>2, RwFinite, FS_RemoveElement
<1>4. Cardinality(RwIn(b) \cup {t}) = Cardinality(RwIn(b)) + 1
  BY <1>2, RwFinite, FS_AddElement
<1>5. QED BY <1>2, <1>3, <1>4

\* The threads in different states are different.
LEMMA RwApart ==
  ASSUME NEW t \in RwThreads, NEW s, t \in RwIn(s)
  PROVE  rwpc[t] = s
BY DEF RwIn

-----------------------------------------------------------------------------
(* Each action preserves the invariant *)

\* A reader comes in while no writer holds the lock or waits for it.
LEMMA ReadLockInv ==
  ASSUME RwInv, NEW t \in RwThreads, rwlock_read_lock(t)
  PROVE  RwInv'
<1> USE DEF RwInv
<1>1. /\ t \notin RwIn("reading") /\ RwIn("reading")' = RwIn("reading") \cup {t}
      /\ \A s : s # "idle" /\ s # "reading" => RwIn(s)' = RwIn(s)
      /\ Cardinality(RwIn("reading")') = Cardinality(RwIn("reading")) + 1
  BY RwMoves, ZenonT(30) DEF rwlock_read_lock
<1>2. /\ RwIn("writing")' = RwIn("writing") /\ RwIn("waitRead")' = RwIn("waitRead")
      /\ RwIn("waitWrite")' = RwIn("waitWrite") /\ RwIn("draining")' = RwIn("draining")
  BY <1>1
<1>3. RwTypeOK'
  BY <1>1, <1>2 DEF RwTypeOK, rwlock_read_lock, RwMove
<1>4. RwIn("writing") = {} /\ RwIn("waitWrite") = {}
  BY RwCounts DEF rwlock_read_lock, rwlock_read_will_block
<1>5. RwExclusive'
  BY <1>2, <1>4 DEF RwExclusive
<1>6. DrainExact'
  BY DEF DrainExact, rwlock_read_lock, RwMove, RwTypeOK, NotDraining
<1>7. NoLostWakeup'
  BY <1>1, <1>2, RwCounts DEF NoLostWakeup, rwlock_read_lock, NotDraining
<1>8. QED BY <1>3, <1>5, <1>6, <1>7

\* A reader goes to sleep only while a writer holds the lock or waits for it.
LEMMA RwReadLockWaitInv ==
  ASSUME RwInv, NEW t \in RwThreads, rwlock_read_lock_wait(t)
  PROVE  RwInv'
<1> USE DEF RwInv
<1>1. /\ RwIn("waitRead")' = RwIn("waitRead") \cup {t}
      /\ \A s : s # "idle" /\ s # "waitRead" => RwIn(s)' = RwIn(s)
      /\ Cardinality(RwIn("waitRead")') = Cardinality(RwIn("waitRead")) + 1
  BY RwMoves, ZenonT(30) DEF rwlock_read_lock_wait
<1>2. /\ RwIn("writing")' = RwIn("writing") /\ RwIn("reading")' = RwIn("reading")
      /\ RwIn("waitWrite")' = RwIn("waitWrite") /\ RwIn("draining")' = RwIn("draining")
  BY <1>1
<1>3. RwTypeOK'
  BY <1>1, <1>2 DEF RwTypeOK, rwlock_read_lock_wait, RwMove
<1>4. RwExclusive'
  BY <1>2 DEF RwExclusive
<1>5. DrainExact'
  BY DEF DrainExact, rwlock_read_lock_wait, RwMove, RwTypeOK, NotDraining
<1>6. NoLostWakeup'
  BY <1>1, <1>2, RwCounts
     DEF NoLostWakeup, rwlock_read_lock_wait, NotDraining, rwlock_read_will_block
<1>7. QED BY <1>3, <1>4, <1>5, <1>6

\* A reader that was woken takes the lock, or sleeps again behind a writer.
LEMMA RwReadLockWakeInv ==
  ASSUME RwInv, NEW t \in RwThreads, rwlock_read_lock_wake(t)
  PROVE  RwInv'
<1> USE DEF RwInv
<1>1. t \in RwIn("waitRead") /\ awake' = awake \ {t} /\ t # usersCond
      /\ t \notin RwIn("waitWrite") /\ usersCond' = usersCond
      /\ writer' = writer /\ wantWrite' = wantWrite
  BY DEF rwlock_read_lock_wake, RwIn, DrainExact
<1>2. CASE rwlock_read_will_block
  <2>1. UNCHANGED <<rwpc, reader, wantRead>>
    BY <1>2 DEF rwlock_read_lock_wake
  <2>2. \A s : RwIn(s)' = RwIn(s)
    BY <2>1 DEF RwIn
  <2>3. RwTypeOK' /\ RwExclusive' /\ DrainExact'
    BY <1>1, <2>1, <2>2 DEF RwTypeOK, RwExclusive, DrainExact
  <2>4. NoLostWakeup'
    BY <1>1, <1>2, <2>1, <2>2, RwCounts DEF NoLostWakeup, rwlock_read_will_block, rwlock_users
  <2>5. QED BY <2>3, <2>4
<1>3. CASE ~ rwlock_read_will_block
  <2>1. /\ RwMove(t, "reading") /\ reader' = reader + 1 /\ wantRead' = wantRead - 1
    BY <1>3 DEF rwlock_read_lock_wake
  <2>2. /\ RwIn("waitRead")' = RwIn("waitRead") \ {t}
        /\ RwIn("reading")' = RwIn("reading") \cup {t}
        /\ \A s : s # "waitRead" /\ s # "reading" => RwIn(s)' = RwIn(s)
        /\ Cardinality(RwIn("waitRead")') = Cardinality(RwIn("waitRead")) - 1
        /\ Cardinality(RwIn("reading")') = Cardinality(RwIn("reading")) + 1
    BY <2>1, RwMoves, ZenonT(30) DEF rwlock_read_lock_wake
  <2>3. /\ RwIn("writing")' = RwIn("writing")
        /\ RwIn("waitWrite")' = RwIn("waitWrite") /\ RwIn("draining")' = RwIn("draining")
    BY <2>2
  <2>4. RwTypeOK'
    BY <1>1, <2>1, <2>2, <2>3 DEF RwTypeOK, RwMove
  <2>5. RwIn("writing") = {} /\ wantRead > 0
    BY <1>1, <1>3, RwCounts DEF rwlock_read_will_block
  <2>6. RwExclusive'
    BY <2>3, <2>5 DEF RwExclusive
  <2>7. DrainExact'
    BY <1>1, <2>1 DEF DrainExact, rwlock_read_lock_wake, RwMove, RwTypeOK
  <2>8. rwlock_users' = rwlock_users
    BY <1>1, <2>1, RwCounts DEF rwlock_users
  <2>9. NoLostWakeup'
    BY <1>1, <2>1, <2>2, <2>3, <2>8, RwCounts DEF NoLostWakeup
  <2>10. QED BY <2>4, <2>6, <2>7, <2>9
<1>4. QED BY <1>2, <1>3

\* The last reader wakes a writer if there is one, and the drainer if there is nobody.
LEMMA RwReadUnlockInv ==
  ASSUME RwInv, NEW t \in RwThreads, rwlock_read_unlock(t)
  PROVE  RwInv'
<1> USE DEF RwInv
<1>1. /\ t \in RwIn("reading") /\ RwIn("reading")' = RwIn("reading") \ {t}
      /\ \A s : s # "idle" /\ s # "reading" => RwIn(s)' = RwIn(s)
      /\ Cardinality(RwIn("reading")') = Cardinality(RwIn("reading")) - 1
  BY RwMoves, ZenonT(30) DEF rwlock_read_unlock
<1>2. /\ RwIn("writing")' = RwIn("writing") /\ RwIn("waitRead")' = RwIn("waitRead")
      /\ RwIn("waitWrite")' = RwIn("waitWrite") /\ RwIn("draining")' = RwIn("draining")
  BY <1>1
<1>3. PICK woken \in WakeAfterRead : awake' = awake \cup woken \cup WakeUsers(rwlock_users - 1)
  BY DEF rwlock_read_unlock
<1>4. woken \subseteq RwIn("waitWrite")
  BY DEF WakeAfterRead, SignalOne, Asleep
<1>5. WakeUsers(rwlock_users - 1) \subseteq RwIn("draining")
  BY DEF WakeUsers, DrainExact, RwIn, RwTypeOK
<1>6. RwTypeOK'
  BY <1>1, <1>2, <1>3, <1>4, <1>5 DEF RwTypeOK, rwlock_read_unlock, RwMove
<1>7. RwExclusive'
  BY <1>1, <1>2 DEF RwExclusive
<1>8. DrainExact'
  BY DEF DrainExact, rwlock_read_unlock, RwMove, RwTypeOK
<1>9. rwlock_users' = rwlock_users - 1 /\ rwlock_users \in Nat \ {0}
  BY <1>1, RwCounts DEF rwlock_read_unlock, rwlock_users
<1>10. usersCond' # NoCond => (rwlock_users' = 0 <=> usersCond' \in awake')
  <2>1. usersCond # NoCond => usersCond \notin woken
    BY <1>4 DEF RwTypeOK, DrainExact, RwIn
  <2>2. QED BY <1>3, <1>9, <2>1 DEF NoLostWakeup, WakeUsers, rwlock_read_unlock
<1>11. reader' = 0 /\ writer' = 0 /\ RwIn("waitWrite")' # {} => RwIn("waitWrite")' \cap awake' # {}
  <2>1. SUFFICES ASSUME reader = 1, RwIn("waitWrite") # {}
                 PROVE  RwIn("waitWrite") \cap (awake \cup woken) # {}
    BY <1>2, <1>3, RwCounts DEF rwlock_read_unlock
  <2>2. woken \in SignalOne("waitWrite")
    BY <2>1, RwCounts DEF WakeAfterRead
  <2>3. QED BY <2>1, <2>2 DEF SignalOne, Asleep
<1>12. writer' = 0 /\ RwIn("waitWrite")' = {} => RwIn("waitRead")' \subseteq awake'
  BY <1>2, <1>3 DEF NoLostWakeup, rwlock_read_unlock
<1>13. QED BY <1>6, <1>7, <1>8, <1>10, <1>11, <1>12 DEF NoLostWakeup

\* A writer comes in when nobody holds the lock.
LEMMA WriteLockInv ==
  ASSUME RwInv, NEW t \in RwThreads, rwlock_write_lock(t)
  PROVE  RwInv'
<1> USE DEF RwInv
<1>1. /\ RwIn("writing")' = RwIn("writing") \cup {t}
      /\ \A s : s # "idle" /\ s # "writing" => RwIn(s)' = RwIn(s)
      /\ Cardinality(RwIn("writing")') = Cardinality(RwIn("writing")) + 1
  BY RwMoves, ZenonT(30) DEF rwlock_write_lock
<1>2. /\ RwIn("reading")' = RwIn("reading") /\ RwIn("waitRead")' = RwIn("waitRead")
      /\ RwIn("waitWrite")' = RwIn("waitWrite") /\ RwIn("draining")' = RwIn("draining")
  BY <1>1
<1>3. RwTypeOK'
  BY <1>1, <1>2 DEF RwTypeOK, rwlock_write_lock, RwMove
<1>4. RwIn("writing") = {} /\ RwIn("reading") = {}
  BY RwCounts DEF rwlock_write_lock, rwlock_write_will_block
<1>5. RwExclusive'
  BY <1>1, <1>2, <1>4 DEF RwExclusive
<1>6. DrainExact'
  BY DEF DrainExact, rwlock_write_lock, RwMove, RwTypeOK, NotDraining
<1>7. NoLostWakeup'
  BY <1>1, <1>2, RwCounts DEF NoLostWakeup, rwlock_write_lock, NotDraining
<1>8. QED BY <1>3, <1>5, <1>6, <1>7

\* A writer goes to sleep only while somebody holds the lock.
LEMMA RwWriteLockWaitInv ==
  ASSUME RwInv, NEW t \in RwThreads, rwlock_write_lock_wait(t)
  PROVE  RwInv'
<1> USE DEF RwInv
<1>1. /\ RwIn("waitWrite")' = RwIn("waitWrite") \cup {t}
      /\ \A s : s # "idle" /\ s # "waitWrite" => RwIn(s)' = RwIn(s)
      /\ Cardinality(RwIn("waitWrite")') = Cardinality(RwIn("waitWrite")) + 1
  BY RwMoves, ZenonT(30) DEF rwlock_write_lock_wait
<1>2. /\ RwIn("writing")' = RwIn("writing") /\ RwIn("reading")' = RwIn("reading")
      /\ RwIn("waitRead")' = RwIn("waitRead") /\ RwIn("draining")' = RwIn("draining")
  BY <1>1
<1>3. RwTypeOK'
  BY <1>1, <1>2 DEF RwTypeOK, rwlock_write_lock_wait, RwMove
<1>4. RwExclusive'
  BY <1>2 DEF RwExclusive
<1>5. DrainExact'
  BY DEF DrainExact, rwlock_write_lock_wait, RwMove, RwTypeOK, NotDraining
<1>6. NoLostWakeup'
  BY <1>1, <1>2, RwCounts
     DEF NoLostWakeup, rwlock_write_lock_wait, NotDraining, rwlock_write_will_block
<1>7. QED BY <1>3, <1>4, <1>5, <1>6

\* A writer that was woken takes the lock, or sleeps again because somebody was faster.
LEMMA RwWriteLockWakeInv ==
  ASSUME RwInv, NEW t \in RwThreads, rwlock_write_lock_wake(t)
  PROVE  RwInv'
<1> USE DEF RwInv
<1>1. t \in RwIn("waitWrite") /\ awake' = awake \ {t} /\ t # usersCond
      /\ t \notin RwIn("waitRead") /\ usersCond' = usersCond
      /\ reader' = reader /\ wantRead' = wantRead
  BY DEF rwlock_write_lock_wake, RwIn, DrainExact
<1>2. CASE rwlock_write_will_block
  <2>1. UNCHANGED <<rwpc, writer, wantWrite>>
    BY <1>2 DEF rwlock_write_lock_wake
  <2>2. \A s : RwIn(s)' = RwIn(s)
    BY <2>1 DEF RwIn
  <2>3. RwTypeOK' /\ RwExclusive' /\ DrainExact'
    BY <1>1, <2>1, <2>2 DEF RwTypeOK, RwExclusive, DrainExact
  <2>4. NoLostWakeup'
    BY <1>1, <1>2, <2>1, <2>2, RwCounts DEF NoLostWakeup, rwlock_write_will_block, rwlock_users
  <2>5. QED BY <2>3, <2>4
<1>3. CASE ~ rwlock_write_will_block
  <2>1. /\ RwMove(t, "writing") /\ writer' = writer + 1 /\ wantWrite' = wantWrite - 1
    BY <1>3 DEF rwlock_write_lock_wake
  <2>2. /\ RwIn("waitWrite")' = RwIn("waitWrite") \ {t}
        /\ RwIn("writing")' = RwIn("writing") \cup {t}
        /\ \A s : s # "waitWrite" /\ s # "writing" => RwIn(s)' = RwIn(s)
        /\ Cardinality(RwIn("waitWrite")') = Cardinality(RwIn("waitWrite")) - 1
        /\ Cardinality(RwIn("writing")') = Cardinality(RwIn("writing")) + 1
    BY <2>1, RwMoves, ZenonT(30) DEF rwlock_write_lock_wake
  <2>3. /\ RwIn("reading")' = RwIn("reading")
        /\ RwIn("waitRead")' = RwIn("waitRead") /\ RwIn("draining")' = RwIn("draining")
    BY <2>2
  <2>4. RwTypeOK'
    BY <1>1, <2>1, <2>2, <2>3 DEF RwTypeOK, RwMove
  <2>5. RwIn("writing") = {} /\ RwIn("reading") = {} /\ wantWrite > 0
    BY <1>1, <1>3, RwCounts DEF rwlock_write_will_block
  <2>6. RwExclusive'
    BY <2>2, <2>3, <2>5 DEF RwExclusive
  <2>7. DrainExact'
    BY <1>1, <2>1 DEF DrainExact, rwlock_write_lock_wake, RwMove, RwTypeOK
  <2>8. rwlock_users' = rwlock_users
    BY <1>1, <2>1, RwCounts DEF rwlock_users
  <2>9. NoLostWakeup'
    BY <1>1, <2>1, <2>8, RwCounts DEF NoLostWakeup
  <2>10. QED BY <2>4, <2>6, <2>7, <2>9
<1>4. QED BY <1>2, <1>3

\* The writer wakes a writer, or all the readers if no writer waits, or the drainer.
LEMMA RwWriteUnlockInv ==
  ASSUME RwInv, NEW t \in RwThreads, rwlock_write_unlock(t)
  PROVE  RwInv'
<1> USE DEF RwInv
<1>1. /\ t \in RwIn("writing") /\ RwIn("writing")' = RwIn("writing") \ {t}
      /\ \A s : s # "idle" /\ s # "writing" => RwIn(s)' = RwIn(s)
      /\ Cardinality(RwIn("writing")') = Cardinality(RwIn("writing")) - 1
  BY RwMoves, ZenonT(30) DEF rwlock_write_unlock
<1>2. /\ RwIn("reading")' = RwIn("reading") /\ RwIn("waitRead")' = RwIn("waitRead")
      /\ RwIn("waitWrite")' = RwIn("waitWrite") /\ RwIn("draining")' = RwIn("draining")
  BY <1>1
<1>3. PICK woken \in WakeAfterWrite : awake' = awake \cup woken \cup WakeUsers(rwlock_users - 1)
  BY DEF rwlock_write_unlock
<1>4. woken \subseteq RwIn("waitWrite") \cup RwIn("waitRead")
  BY DEF WakeAfterWrite, SignalOne, Asleep
<1>5. WakeUsers(rwlock_users - 1) \subseteq RwIn("draining")
  BY DEF WakeUsers, DrainExact, RwIn, RwTypeOK
<1>6. RwTypeOK'
  BY <1>1, <1>2, <1>3, <1>4, <1>5 DEF RwTypeOK, rwlock_write_unlock, RwMove
<1>7. RwExclusive'
  BY <1>1, <1>2 DEF RwExclusive
<1>8. DrainExact'
  BY DEF DrainExact, rwlock_write_unlock, RwMove, RwTypeOK
<1>9. rwlock_users' = rwlock_users - 1 /\ rwlock_users \in Nat \ {0}
  BY <1>1, RwCounts DEF rwlock_write_unlock, rwlock_users
<1>10. usersCond' # NoCond => (rwlock_users' = 0 <=> usersCond' \in awake')
  <2>1. usersCond # NoCond => usersCond \notin woken
    BY <1>4 DEF RwTypeOK, DrainExact, RwIn
  <2>2. QED BY <1>3, <1>9, <2>1 DEF NoLostWakeup, WakeUsers, rwlock_write_unlock
<1>11. RwIn("waitWrite")' # {} => RwIn("waitWrite")' \cap awake' # {}
  <2>1. SUFFICES ASSUME RwIn("waitWrite") # {}
                 PROVE  RwIn("waitWrite") \cap (awake \cup woken) # {}
    BY <1>2, <1>3
  <2>2. woken \in SignalOne("waitWrite")
    BY <2>1, RwCounts DEF WakeAfterWrite
  <2>3. QED BY <2>1, <2>2 DEF SignalOne, Asleep
<1>12. RwIn("waitWrite")' = {} => RwIn("waitRead")' \subseteq awake'
  <2>1. SUFFICES ASSUME RwIn("waitWrite") = {}, RwIn("waitRead") # {}
                 PROVE  RwIn("waitRead") \subseteq awake \cup woken
    BY <1>2, <1>3
  <2>2. woken = Asleep("waitRead")
    BY <2>1, RwCounts DEF WakeAfterWrite
  <2>3. QED BY <2>2 DEF Asleep
<1>13. QED BY <1>6, <1>7, <1>8, <1>10, <1>11, <1>12 DEF NoLostWakeup

\* A drainer begins to wait only while there are users, and no second one begins.
LEMMA WaitForUsersInv ==
  ASSUME RwInv, NEW t \in RwThreads, rwlock_wait_for_users(t)
  PROVE  RwInv'
<1> USE DEF RwInv
<1>1. /\ t \in RwIn("idle") /\ RwIn("draining")' = RwIn("draining") \cup {t}
      /\ \A s : s # "idle" /\ s # "draining" => RwIn(s)' = RwIn(s)
  BY RwMoves, ZenonT(30) DEF rwlock_wait_for_users
<1>2. /\ RwIn("reading")' = RwIn("reading") /\ RwIn("waitRead")' = RwIn("waitRead")
      /\ RwIn("waitWrite")' = RwIn("waitWrite") /\ RwIn("writing")' = RwIn("writing")
  BY <1>1
<1>3. RwTypeOK'
  BY <1>1, <1>2 DEF RwTypeOK, rwlock_wait_for_users, RwMove
<1>4. RwExclusive'
  BY <1>2 DEF RwExclusive
<1>5. DrainExact'
  BY RWLockAssumption DEF DrainExact, rwlock_wait_for_users, RwMove, RwTypeOK, NotDraining
<1>6. t \notin awake
  BY <1>1 DEF RwTypeOK, RwIn
<1>7. rwlock_users' = rwlock_users /\ rwlock_users > 0 /\ rwlock_users \in Nat
  BY RwCounts DEF rwlock_users, rwlock_wait_for_users
<1>8. NoLostWakeup'
  BY <1>2, <1>6, <1>7 DEF NoLostWakeup, rwlock_wait_for_users
<1>9. QED BY <1>3, <1>4, <1>5, <1>8

\* The drainer goes when the users are gone.
LEMMA WaitForUsersWakeInv ==
  ASSUME RwInv, NEW t \in RwThreads, rwlock_wait_for_users_wake(t)
  PROVE  RwInv'
<1> USE DEF RwInv
<1>1. /\ t \in RwIn("draining") /\ RwIn("draining")' = RwIn("draining") \ {t}
      /\ \A s : s # "idle" /\ s # "draining" => RwIn(s)' = RwIn(s)
  BY RwMoves, ZenonT(30) DEF rwlock_wait_for_users_wake
<1>2. /\ RwIn("reading")' = RwIn("reading") /\ RwIn("waitRead")' = RwIn("waitRead")
      /\ RwIn("waitWrite")' = RwIn("waitWrite") /\ RwIn("writing")' = RwIn("writing")
  BY <1>1
<1>3. RwTypeOK'
  BY <1>1, <1>2 DEF RwTypeOK, rwlock_wait_for_users_wake, RwMove
<1>4. RwExclusive'
  BY <1>2 DEF RwExclusive
<1>5. DrainExact'
  BY RWLockAssumption DEF DrainExact, rwlock_wait_for_users_wake, RwMove, RwTypeOK
<1>6. t \notin RwIn("waitRead") /\ t \notin RwIn("waitWrite")
  BY <1>1 DEF RwIn
<1>7. NoLostWakeup'
  BY <1>2, <1>6 DEF NoLostWakeup, rwlock_wait_for_users_wake
<1>8. QED BY <1>3, <1>4, <1>5, <1>7

-----------------------------------------------------------------------------
\* The counters are exact, exclusion holds and no wakeup is lost, in every state that
\* the operations of rwlock.h reach.
THEOREM RwInvariantHolds == RwSpec => []RwInv
<1>1. rwlock_init => RwInv
  <2>1. SUFFICES ASSUME rwlock_init PROVE RwInv
    OBVIOUS
  <2>2. /\ RwIn("reading") = {} /\ RwIn("writing") = {} /\ RwIn("waitRead") = {}
        /\ RwIn("waitWrite") = {} /\ RwIn("draining") = {}
    BY <2>1 DEF rwlock_init, RwIn
  <2>3. RwTypeOK
    BY <2>1, <2>2, FS_EmptySet DEF rwlock_init, RwTypeOK
  <2>4. RwExclusive /\ DrainExact /\ NoLostWakeup
    BY <2>1, <2>2, RWLockAssumption DEF rwlock_init, RwExclusive, DrainExact, NoLostWakeup
  <2>5. QED BY <2>3, <2>4 DEF RwInv
<1>2. RwInv /\ [rwlock_next]_rwvars => RwInv'
  <2>1. ASSUME RwInv, NEW t \in RwThreads,
               \/ rwlock_read_lock(t) \/ rwlock_read_lock_wait(t)
               \/ rwlock_read_lock_wake(t) \/ rwlock_read_unlock(t)
               \/ rwlock_write_lock(t) \/ rwlock_write_lock_wait(t)
               \/ rwlock_write_lock_wake(t) \/ rwlock_write_unlock(t)
               \/ rwlock_wait_for_users(t) \/ rwlock_wait_for_users_wake(t)
        PROVE  RwInv'
    BY <2>1, ReadLockInv, RwReadLockWaitInv, RwReadLockWakeInv, RwReadUnlockInv, WriteLockInv,
       RwWriteLockWaitInv, RwWriteLockWakeInv, RwWriteUnlockInv, WaitForUsersInv, WaitForUsersWakeInv
  <2>2. RwInv /\ UNCHANGED rwvars => RwInv'
    BY DEF RwInv, rwvars, RwTypeOK, RwExclusive, DrainExact, NoLostWakeup, RwIn, rwlock_users
  <2>3. QED BY <2>1, <2>2 DEF rwlock_next
<1>3. QED BY <1>1, <1>2, PTL DEF RwSpec

\* Nobody sleeps on a lock that is his to take: the unlocks of rwlock.h signal whoever
\* has to be signalled, also when new users come in between signal and wakeup.
THEOREM NoLostWakeupHolds == RwSpec => []NoLostWakeup
<1>1. RwInv => NoLostWakeup BY DEF RwInv
<1>2. QED BY <1>1, RwInvariantHolds, PTL

\* A reader that waited never takes the lock while a writer waits for it.
THEOREM PendingWritersFirstHolds == RwSpec => PendingWritersFirst
<1>1. ASSUME RwInv, [rwlock_next]_rwvars
      PROVE  [\A t \in RwThreads :
                rwpc[t] = "waitRead" /\ rwpc'[t] = "reading" => RwIn("waitWrite") = {}]_rwvars
  <2>1. SUFFICES ASSUME NEW t \in RwThreads, rwpc[t] = "waitRead", rwpc'[t] = "reading"
                 PROVE  RwIn("waitWrite") = {}
    OBVIOUS
  <2>2. rwpc' # rwpc
    BY <2>1
  <2>3. PICK u \in RwThreads :
               \/ rwlock_read_lock(u) \/ rwlock_read_lock_wait(u)
               \/ rwlock_read_lock_wake(u) \/ rwlock_read_unlock(u)
               \/ rwlock_write_lock(u) \/ rwlock_write_lock_wait(u)
               \/ rwlock_write_lock_wake(u) \/ rwlock_write_unlock(u)
               \/ rwlock_wait_for_users(u) \/ rwlock_wait_for_users_wake(u)
    BY <1>1, <2>2 DEF rwlock_next, rwvars
  <2>4. rwlock_read_lock_wake(u) /\ u = t
    BY <1>1, <2>1, <2>3 DEF RwInv, RwTypeOK, RwMove, rwlock_read_lock, rwlock_read_lock_wait,
       rwlock_read_lock_wake, rwlock_read_unlock, rwlock_write_lock, rwlock_write_lock_wait,
       rwlock_write_lock_wake, rwlock_write_unlock, rwlock_wait_for_users,
       rwlock_wait_for_users_wake
  <2>5. ~ rwlock_read_will_block
    BY <2>1, <2>2, <2>4 DEF rwlock_read_lock_wake
  <2>6. QED BY <1>1, <2>5, RwCounts DEF RwInv, rwlock_read_will_block
<1>2. QED BY <1>1, RwInvariantHolds, PTL DEF RwSpec, PendingWritersFirst

\* Every step of rwlock.h is a step of the abstract reader-writer lock or changes
\* nothing that it shows.
THEOREM RwImplementsReadWriteLock == RwSpec => RwImplements
<1>1. rwlock_init => RwAbstract!Init
  BY DEF rwlock_init, RwAbstract!Init, RwIn
<1>2. ASSUME RwInv, [rwlock_next]_rwvars
      PROVE  [RwAbstract!Next]_RwAbstract!vars
  <2> USE DEF RwInv
  <2>1. RwTypeOK BY <1>2
  <2>2. ASSUME NEW t \in RwThreads, \/ rwlock_read_lock(t)
                                    \/ rwlock_read_lock_wake(t) /\ ~ rwlock_read_will_block
        PROVE  RwAbstract!AcquireRead(t)
    <3>1. RwIn("writing") = {}
      BY <1>2, <2>2, RwCounts DEF rwlock_read_lock, rwlock_read_will_block
    <3>2. /\ t \notin RwIn("reading") /\ RwIn("reading")' = RwIn("reading") \cup {t}
          /\ RwIn("writing")' = RwIn("writing")
      <4>1. CASE rwpc[t] = "idle"
        <5>1. RwMove(t, "reading")
          BY <2>2 DEF rwlock_read_lock, rwlock_read_lock_wake
        <5>2. QED BY <4>1, <5>1, <2>1 DEF RwIn, RwMove, RwTypeOK
      <4>2. CASE rwpc[t] = "waitRead"
        <5>1. RwMove(t, "reading")
          BY <2>2 DEF rwlock_read_lock, rwlock_read_lock_wake
        <5>2. QED BY <4>2, <5>1, <2>1 DEF RwIn, RwMove, RwTypeOK
      <4>3. QED BY <2>2, <4>1, <4>2 DEF rwlock_read_lock, rwlock_read_lock_wake
    <3>3. QED BY <3>1, <3>2 DEF RwAbstract!AcquireRead
  <2>3. ASSUME NEW t \in RwThreads, \/ rwlock_write_lock(t)
                                    \/ rwlock_write_lock_wake(t) /\ ~ rwlock_write_will_block
        PROVE  RwAbstract!AcquireWrite(t)
    <3>1. RwIn("writing") = {} /\ RwIn("reading") = {}
      BY <1>2, <2>3, RwCounts DEF rwlock_write_lock, rwlock_write_will_block
    <3>2. /\ RwIn("writing")' = RwIn("writing") \cup {t}
          /\ RwIn("reading")' = RwIn("reading")
      <4>1. CASE rwpc[t] = "idle"
        <5>1. RwMove(t, "writing")
          BY <2>3 DEF rwlock_write_lock, rwlock_write_lock_wake
        <5>2. QED BY <4>1, <5>1, <2>1 DEF RwIn, RwMove, RwTypeOK
      <4>2. CASE rwpc[t] = "waitWrite"
        <5>1. RwMove(t, "writing")
          BY <2>3 DEF rwlock_write_lock, rwlock_write_lock_wake
        <5>2. QED BY <4>2, <5>1, <2>1 DEF RwIn, RwMove, RwTypeOK
      <4>3. QED BY <2>3, <4>1, <4>2 DEF rwlock_write_lock, rwlock_write_lock_wake
    <3>3. QED BY <3>1, <3>2 DEF RwAbstract!AcquireWrite
  <2>4. ASSUME NEW t \in RwThreads, rwlock_read_unlock(t)
        PROVE  RwAbstract!ReleaseRead(t)
    <3>1. /\ t \in RwIn("reading") /\ RwIn("reading")' = RwIn("reading") \ {t}
          /\ RwIn("writing")' = RwIn("writing")
      <4>1. rwpc[t] = "reading" /\ RwMove(t, "idle")
        BY <2>4 DEF rwlock_read_unlock
      <4>2. QED BY <4>1, <2>1 DEF RwIn, RwMove, RwTypeOK
    <3>2. QED BY <3>1 DEF RwAbstract!ReleaseRead
  <2>5. ASSUME NEW t \in RwThreads, rwlock_write_unlock(t)
        PROVE  RwAbstract!ReleaseWrite(t)
    <3>1. /\ t \in RwIn("writing") /\ RwIn("writing")' = RwIn("writing") \ {t}
          /\ RwIn("reading")' = RwIn("reading")
      <4>1. rwpc[t] = "writing" /\ RwMove(t, "idle")
        BY <2>5 DEF rwlock_write_unlock
      <4>2. QED BY <4>1, <2>1 DEF RwIn, RwMove, RwTypeOK
    <3>2. QED BY <3>1 DEF RwAbstract!ReleaseWrite
  <2>6. ASSUME NEW t \in RwThreads,
               \/ rwlock_read_lock_wait(t) \/ rwlock_write_lock_wait(t)
               \/ rwlock_wait_for_users(t) \/ rwlock_wait_for_users_wake(t)
               \/ rwlock_read_lock_wake(t) /\ rwlock_read_will_block
               \/ rwlock_write_lock_wake(t) /\ rwlock_write_will_block
        PROVE  UNCHANGED RwAbstract!vars
    <3>1. \/ rwpc' = rwpc
          \/ rwpc[t] \in {"idle", "draining"} /\ \E b \in {"idle", "waitRead", "waitWrite", "draining"} : RwMove(t, b)
      BY <2>6 DEF rwlock_read_lock_wait, rwlock_write_lock_wait, rwlock_wait_for_users,
         rwlock_wait_for_users_wake, rwlock_read_lock_wake, rwlock_write_lock_wake
    <3>2. RwIn("reading")' = RwIn("reading") /\ RwIn("writing")' = RwIn("writing")
      BY <1>2, <3>1 DEF RwIn, RwMove, RwTypeOK
    <3>3. QED BY <3>2 DEF RwAbstract!vars
  <2>7. CASE UNCHANGED rwvars
    BY <2>7 DEF rwvars, RwAbstract!vars, RwIn
  <2>8. ASSUME NEW t \in RwThreads,
               \/ rwlock_read_lock(t) \/ rwlock_read_lock_wait(t)
               \/ rwlock_read_lock_wake(t) \/ rwlock_read_unlock(t)
               \/ rwlock_write_lock(t) \/ rwlock_write_lock_wait(t)
               \/ rwlock_write_lock_wake(t) \/ rwlock_write_unlock(t)
               \/ rwlock_wait_for_users(t) \/ rwlock_wait_for_users_wake(t)
        PROVE  [RwAbstract!Next]_RwAbstract!vars
    BY <2>8, <2>2, <2>3, <2>4, <2>5, <2>6 DEF RwAbstract!Next
  <2>9. QED BY <1>2, <2>7, <2>8 DEF rwlock_next
<1>3. QED BY <1>1, <1>2, RwInvariantHolds, PTL DEF RwSpec, RwImplements, RwAbstract!Spec
=============================================================================
