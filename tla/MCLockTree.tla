----------------------------- MODULE MCLockTree -----------------------------
(***************************************************************************)
(* LockTree for TLC, and the loops of locktree.cc that LockTree states in  *)
(* closed form: the migration of the STO buffer, which acquires one range  *)
(* after the other, and the extraction and merging of row locks in batches *)
(* by escalate.  And the manager of the locktrees: a behaviour consists of *)
(* the steps of a locktree or of the manager, which picks the one; the     *)
(* other stays as it begins.                                               *)
(***************************************************************************)
EXTENDS LockTree, LockTreeManager, SequencesExt

VARIABLE which

MCInit == which \in {"locktree", "manager"} /\ Init /\ ManagerInit
LocktreeStep == which = "locktree" /\ Next /\ UNCHANGED <<which, managervars>>
ManagerTurn  == which = "manager" /\ ManagerNext /\ UNCHANGED <<which, vars>>
MCNext == LocktreeStep \/ ManagerTurn

MCSpec == MCInit /\ [][MCNext]_<<which, vars, managervars>> /\ Fairness

\* Faulty variants: an existing lock is replaced, not merged; the run of a
\* transaction's locks ends with its first lock.
ConsolidateMut(T, r) ==
  (T \ {a \in T : a.l <= r.r /\ r.l <= a.r}) \cup {r}
NextTxnIndexMut(q, i) == i + 1

\* acquire_lock_consolidated for the only transaction of a tree
Consolidate(T, r) ==
  LET O == Overlapping(T, r) IN
  (T \ O) \cup {[l |-> Min({r.l} \cup {a.l : a \in O}), r |-> Max({r.r} \cup {a.r : a \in O})]}

\* the first loop of sto_migrate_buffer_ranges_to_tree over the buffer q
RECURSIVE MigrateLoop(_, _)
MigrateLoop(q, T) ==
  IF q = << >> THEN T ELSE MigrateLoop(Tail(q), Consolidate(T, Head(q)))

\* extract_first_n_row_locks
FirstN(T) ==
  LET q == SetToSortSeq(T, LAMBDA a, b : a.l < b.l)
  IN  SubSeq(q, 1, Min({Batch, Len(q)}))

\* the index of the next row lock with a different txnid
NextTxnIndex(q, i) ==
  Min({j \in i + 1 .. Len(q) + 1 : j = Len(q) + 1 \/ q[j].txn # q[i].txn})

\* the inner loop of escalate over one batch
RECURSIVE MergeBatch(_, _)
MergeBatch(q, i) ==
  IF i > Len(q) THEN {}
  ELSE LET j == NextTxnIndex(q, i)
       IN  {[l |-> q[i].l, r |-> q[j - 1].r, txn |-> q[i].txn]} \cup MergeBatch(q, j)

\* the outer loop of escalate
RECURSIVE EscalateLoop(_)
EscalateLoop(T) ==
  IF T = {} THEN {}
  ELSE LET q == FirstN(T) IN MergeBatch(q, 1) \cup EscalateLoop(T \ ToSet(q))

\* Whatever the order of its records, the STO buffer migrates to the runs of
\* overlapping ranges, which is what LockTree's Merged says.
MigrationAgrees ==
  \A q \in SetToSeqs(stoBuffer) : MigrateLoop(q, {}) = Merged(stoBuffer)

\* The batches of escalate merge what LockTree's Escalated says they merge.
EscalationAgrees == EscalateLoop(tree) = Escalated(tree)

\* What the loops compute one element at a time is what the model says in closed form,
\* and the memory tracker, which the code keeps by differences, is exact.
ClosedFormsExact == MigrationAgrees /\ EscalationAgrees /\ MemoryExact
\* Escalations and releases come to their end.
LocktreeServes == EscalationEnds /\ ReleaseEnds
=============================================================================
