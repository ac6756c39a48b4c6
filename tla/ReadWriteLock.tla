--------------------------- MODULE ReadWriteLock ---------------------------
(***************************************************************************)
(* What a reader-writer lock of util/ promises to the cachetable, the      *)
(* checkpointer and the client threads: many readers or one writer.        *)
(* FRWLock (util/frwlock.cc) and RWLock (util/rwlock.h) are both shown to  *)
(* implement this specification.                                           *)
(***************************************************************************)
CONSTANT Threads

VARIABLES readers,   \* the threads that hold the lock for reading
          writers    \* the threads that hold it for writing

vars == <<readers, writers>>

Init == readers = {} /\ writers = {}

AcquireRead(t) ==
  /\ t \notin readers
  /\ writers = {}
  /\ readers' = readers \cup {t}
  /\ UNCHANGED writers

AcquireWrite(t) ==
  /\ readers = {} /\ writers = {}
  /\ writers' = {t}
  /\ UNCHANGED readers

ReleaseRead(t) ==
  /\ t \in readers
  /\ readers' = readers \ {t}
  /\ UNCHANGED writers

ReleaseWrite(t) ==
  /\ t \in writers
  /\ writers' = writers \ {t}
  /\ UNCHANGED readers

Next == \E t \in Threads : \/ AcquireRead(t) \/ AcquireWrite(t)
                           \/ ReleaseRead(t) \/ ReleaseWrite(t)

Spec == Init /\ [][Next]_vars
=============================================================================
