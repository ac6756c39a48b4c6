------------------------------- MODULE Mvcc -------------------------------
(***************************************************************************)
(* Multi-version reads of one row.  The messages of transactions reach the *)
(* row's leaf entry through the buffer of the node above the leaf, where   *)
(* the abort of a transaction may wait long after the transaction is gone; *)
(* the leaf promotes, collects garbage and is read in the meantime.        *)
(*                                                                         *)
(* The transaction manager is EXTENDed; this module adds the row's lock,   *)
(* the rollback entries, the buffer, the leaf and the work on the leaf.    *)
(***************************************************************************)
EXTENDS TxnManager

CONSTANTS Workloads,   \* what roots may do: for some of them the snapshot type, whether
                       \* it is read only, a bound on its children and its writes
          MaxJobs,     \* bound: queries, flushes, writes and evictions of the leaf
          ForceGc      \* ULE_MIN_STACK_SIZE_TO_FORCE_GC

\* what a root may do
UserOps == {"insert", "insert_no_overwrite", "delete", "update", "update_broadcast"}
Clients == [type : SnapshotType, ro : BOOLEAN, kids : Nat, writes : Seq(UserOps)]

ASSUME MvccAssumption == \A w \in Workloads : w \in [DOMAIN w -> Clients] /\ DOMAIN w \subseteq Txn

VARIABLES
  lock,        \* the root that holds the row's write lock, or None
  roll,        \* for each root the rollback entries of its open transactions
  above,       \* messages in the buffer above the leaf, oldest first
  above_known, \* oldest_referenced_xid_known of the node above
  leaf,        \* [le, known, dirty, applied]; applied: messages of above it has
  disk,        \* the leaf as written last
  job,         \* the flush or garbage collection under way on the locked leaf
  work,        \* the workload, with the writes each root has left, in order
  jobs,        \* how many jobs were done on the leaf
  view,        \* history: what each open transaction wrote last, or None
  committed,   \* history: the value committed last
  expect       \* history: the value committed when each open snapshot was taken

vars == <<managerVars, txn, lock, roll, above, above_known, leaf, disk, job,
          work, jobs, view, committed, expect>>
treeVars == <<above, above_known, leaf, disk, job, jobs>>
clientVars == <<lock, roll, work>>
historyVars == <<view, committed, expect>>

None == <<"none">>
Idle == [kind |-> "idle"]
EmptyLeaf == [le |-> [type |-> "none"], known |-> 0, dirty |-> FALSE, applied |-> 0]

MvccInit ==
  /\ Init
  /\ lock = None /\ roll = [t \in Txn |-> <<>>]
  /\ work \in Workloads /\ jobs = 0
  /\ above = <<>> /\ above_known = 0 /\ job = Idle
  /\ leaf = EmptyLeaf /\ disk = EmptyLeaf
  /\ view = [t \in Txn |-> <<>>] /\ committed = DEL /\ expect = [t \in Txn |-> <<>>]

\* ------------------------------------------------------------ transactions

toku_txn_begin(t) ==
  /\ toku_txn_manager_start_txn(t, work[t].type, work[t].ro)
  /\ roll' = [roll EXCEPT ![t] = << <<>> >>]
  /\ view' = [view EXCEPT ![t] = <<None>>]
  /\ expect' = [expect EXCEPT ![t] = <<committed>>]
  /\ UNCHANGED <<lock, work, committed, treeVars>>

toku_txn_begin_child(t) ==
  /\ ~txn[t].ro /\ txn[t].last_kid < work[t].kids
  /\ toku_txn_manager_start_child_txn(t)
  /\ roll' = [roll EXCEPT ![t] = Append(@, <<>>)]
  /\ view' = [view EXCEPT ![t] = Append(@, None)]
  /\ expect' = [expect EXCEPT ![t] = Append(@, committed)]
  /\ UNCHANGED <<lock, work, committed, treeVars>>

\* toku_txn_commit_with_lsn and toku_txn_abort_with_lsn up to the rollback log.
NoteEnd(t, state) ==
  /\ txn[t].state = "live"
  /\ txn' = [txn EXCEPT ![t].state = state]
  /\ UNCHANGED <<managerVars, clientVars, treeVars, historyVars>>

\* The rollback entries of the innermost transaction.
Entries(t) == roll[t][Depth(t) + 1]

\* The child's entries become its parent's when it commits.
CompleteChild(t) ==
  LET d == Depth(t)
      commits == txn[t].state = "committing"
  IN /\ txn[t].state \in {"committing", "aborting"} /\ d > 0
     /\ commits \/ Entries(t) = <<>>
     /\ toku_txn_manager_finish_child_txn(t)
     /\ roll' = [roll EXCEPT ![t] = IF commits
                   THEN [Front(@) EXCEPT ![d] = @ \o Entries(t)] ELSE Front(@)]
     /\ view' = [view EXCEPT ![t] = IF commits /\ Last(@) # None
                   THEN [Front(@) EXCEPT ![d] = Last(view[t])] ELSE Front(@)]
     /\ expect' = [expect EXCEPT ![t] = Front(@)]
     /\ UNCHANGED <<lock, work, committed, treeVars>>

\* The root leaves the live list, then its locks are released.
CompleteRoot(t) ==
  /\ txn[t].state \in {"committing", "aborting"} /\ Depth(t) = 0
  /\ Entries(t) = <<>>
  /\ toku_txn_manager_finish_txn(t)
  /\ lock' = IF lock = t THEN None ELSE lock
  /\ committed' = IF txn[t].state = "committing" /\ view[t][1] # None THEN view[t][1]
                  ELSE committed
  /\ UNCHANGED <<roll, work, view, expect, treeVars>>

\* --------------------------------------------------------------- the tree

Newer(a, b) == IF a > b THEN a ELSE b

GcInfo(simple, promote, initialized, state) ==
  [simple |-> simple, promote |-> promote, initialized |-> initialized, state |-> state]

ApplyAll(le, msgs, gc) ==
  FoldLeft(LAMBDA e, m : toku_ft_bn_apply_msg(e, m, gc, ForceGc), le, msgs)

\* What t wrote last once the message is in the tree.
NoteWrite(t, m) ==
  LET own == {i \in DOMAIN view[t] : view[t][i] # None}
      latest == IF own = {} THEN committed ELSE view[t][Max(own)]
  IN view' = IF \/ m.type \notin UserOps
                \/ m.type = "insert_no_overwrite" /\ latest # DEL
                \/ m.type = "update_broadcast" /\ latest = DEL THEN view
             ELSE [view EXCEPT ![t][Depth(t) + 1] =
                     CASE m.type = "delete" -> DEL
                       [] m.type \in {"update", "update_broadcast"} -> update_fun(latest, m.v)
                       [] OTHER -> m.v]

\* inject_message_in_locked_node, on the node above the leaf ...
InjectAbove(m) ==
  /\ above' = Append(above, m)
  /\ above_known' = Newer(above_known, oldest_referenced_xid)
  /\ UNCHANGED leaf

\* ... or on the leaf, when no message waits above it.
InjectLeaf(m) ==
  LET known == Newer(leaf.known, oldest_referenced_xid)
      gc == GcInfo(oldest_referenced_xid, known, FALSE, toku_txn_manager_clone_state_for_gc)
  IN /\ above = <<>> /\ job = Idle
     /\ leaf' = [leaf EXCEPT !.le = toku_ft_bn_apply_msg(@, m, gc, ForceGc),
                             !.known = known, !.dirty = TRUE]
     /\ UNCHANGED <<above, above_known>>

\* toku_ft_root_put_msg of a client.  The id it goes by is read before the node
\* is locked; it only grows, so an older one promotes and collects less.
Put(t, m) ==
  /\ InjectAbove(m) \/ InjectLeaf(m)
  /\ NoteWrite(t, m)
  /\ UNCHANGED <<managerVars, disk, job, jobs, committed, expect>>

\* toku_ft_insert, toku_ft_delete: with the row's lock the rollback entry is saved
\* and the begin is logged; then the message goes to the tree.
Write(t) ==
  /\ txn[t].state = "live" /\ ~txn[t].ro
  /\ lock \in {None, t} /\ work[t].writes # <<>>
  /\ lock' = t
  /\ work' = [work EXCEPT ![t].writes = Tail(@)]
  /\ txn' = [txn EXCEPT ![t].logged = TRUE]
  /\ roll' = [roll EXCEPT ![t][Depth(t) + 1] = Append(@, Head(work[t].writes))]
  /\ Put(t, ft_msg(Head(work[t].writes), toku_txn_get_xids(t), <<t, Len(work[t].writes)>>))

AbortMsgMut(op) == IF op = "update_broadcast" THEN "abort_broadcast_txn" ELSE "commit"

\* The messages that undo and finish an operation: the commit of an insert or of
\* an update needs none.
AbortMsg(op) == IF op = "update_broadcast" THEN "abort_broadcast_txn" ELSE "abort"

CommitMsg(op) ==
  CASE op = "delete" -> <<"commit">>
    [] op = "update_broadcast" -> <<"commit_broadcast_txn">>
    [] OTHER -> <<>>

\* apply_txn: the newest rollback entry of the innermost transaction is undone
\* or, when a root commits, done.
toku_abort_rollback_item(t) ==
  /\ txn[t].state = "aborting" /\ Entries(t) # <<>>
  /\ roll' = [roll EXCEPT ![t][Depth(t) + 1] = Front(@)]
  /\ Put(t, ft_msg(AbortMsg(Last(Entries(t))), toku_txn_get_xids(t), DEL))
  /\ UNCHANGED <<txn, lock, work>>

toku_commit_rollback_item(t) ==
  LET msg == CommitMsg(Last(Entries(t)))
  IN /\ txn[t].state = "committing" /\ Depth(t) = 0 /\ Entries(t) # <<>>
     /\ roll' = [roll EXCEPT ![t][1] = Front(@)]
     /\ IF msg # <<>> THEN Put(t, ft_msg(msg[1], toku_txn_get_xids(t), DEL))
        ELSE UNCHANGED <<managerVars, treeVars, historyVars>>
     /\ UNCHANGED <<txn, lock, work>>

Job == jobs < MaxJobs /\ jobs' = jobs + 1

\* toku_ft_optimize: everything older than the oldest living root is committed.
\* Its message goes to every leaf and is never promoted.
toku_ft_optimize ==
  LET oldest == IF live_root_ids = {} THEN <<>> ELSE <<Min(live_root_ids)>>
  IN /\ above # <<>> /\ Last(above).type # "optimize"
     /\ above' = Append(above, ft_msg("optimize", oldest, DEL))
     /\ above_known' = Newer(above_known, oldest_referenced_xid)
     /\ Job
     /\ UNCHANGED <<managerVars, txn, clientVars, leaf, disk, job, historyVars>>

\* toku_apply_ancestors_messages_to_node: a query brings the leaf up to date
\* with the buffer above, which keeps its messages.
Query ==
  LET gc == GcInfo(oldest_referenced_xid, leaf.known, FALSE,
                   toku_txn_manager_clone_state_for_gc)
  IN /\ job = Idle /\ leaf.applied < Len(above)
     /\ leaf' = [leaf EXCEPT !.le = ApplyAll(@, SubSeq(above, leaf.applied + 1, Len(above)), gc),
                             !.applied = Len(above)]
     /\ Job
     /\ UNCHANGED <<managerVars, txn, clientVars, above, above_known, disk, job, historyVars>>

\* toku_ft_flush_some_child: the buffer is detached and the node above unlocked;
\* the id the node knows was read first.
FlushDetach ==
  /\ job = Idle /\ above # <<>>
  /\ job' = [kind |-> "detached", msgs |-> SubSeq(above, leaf.applied + 1, Len(above)),
             known |-> above_known]
  /\ above' = <<>>
  /\ leaf' = [leaf EXCEPT !.applied = 0, !.dirty = TRUE]
  /\ Job
  /\ UNCHANGED <<managerVars, txn, clientVars, above_known, disk, historyVars>>

\* toku_bnc_flush_to_child: the state of the transactions is cloned ...
FlushClone ==
  /\ job.kind = "detached"
  /\ job' = [kind |-> "flush", msgs |-> job.msgs, known |-> job.known,
             gc |-> GcInfo(oldest_referenced_xid, leaf.known, TRUE,
                           toku_txn_manager_clone_state_for_gc)]
  /\ UNCHANGED <<managerVars, txn, clientVars, above, above_known, leaf, disk, jobs, historyVars>>

\* ... and every message applied with what the leaf knew before; then it knows
\* what the node above knew.
FlushApply ==
  /\ job.kind = "flush"
  /\ leaf' = [leaf EXCEPT !.le = ApplyAll(@, job.msgs, job.gc), !.known = job.known]
  /\ job' = Idle
  /\ UNCHANGED <<managerVars, txn, clientVars, above, above_known, disk, jobs, historyVars>>

\* toku_ftnode_leaf_run_gc when a dirty leaf is written.
GcClone ==
  /\ job = Idle /\ leaf.dirty
  /\ job' = [kind |-> "gc", gc |-> GcInfo(oldest_referenced_xid, leaf.known, TRUE,
                                          toku_txn_manager_clone_state_for_gc)]
  /\ Job
  /\ UNCHANGED <<managerVars, txn, clientVars, above, above_known, leaf, disk, historyVars>>

WriteLeaf ==
  LET le == IF toku_le_worth_running_garbage_collection(leaf.le, job.gc)
            THEN toku_le_garbage_collect(leaf.le, job.gc) ELSE leaf.le
  IN /\ job.kind = "gc"
     /\ leaf' = [leaf EXCEPT !.le = le, !.dirty = FALSE]
     /\ disk' = leaf'
     /\ job' = Idle
     /\ UNCHANGED <<managerVars, txn, clientVars, above, above_known, jobs, historyVars>>

\* A clean leaf is evicted and read again: what queries applied to it is gone.
EvictLeaf ==
  /\ job = Idle /\ ~leaf.dirty /\ leaf # disk
  /\ leaf' = disk
  /\ Job
  /\ UNCHANGED <<managerVars, txn, clientVars, above, above_known, disk, job, historyVars>>

Next ==
  \/ \E t \in DOMAIN work :
       \/ toku_txn_begin(t) \/ toku_txn_begin_child(t)
       \/ Write(t)
       \/ \E state \in {"committing", "aborting"} : NoteEnd(t, state)
       \/ toku_abort_rollback_item(t) \/ toku_commit_rollback_item(t)
       \/ CompleteChild(t) \/ CompleteRoot(t)
  \/ toku_ft_optimize \/ Query \/ FlushDetach \/ FlushClone \/ FlushApply
  \/ GcClone \/ WriteLeaf \/ EvictLeaf

Spec == MvccInit /\ [][Next]_vars

\* -------------------------------------------------------------- properties

\* The leaf entry a reader finds: the one in the leaf with every message above
\* it applied.
Entry ==
  ApplyAll(leaf.le, SubSeq(above, leaf.applied + 1, Len(above)),
           GcInfo(oldest_referenced_xid, leaf.known, FALSE,
                  toku_txn_manager_clone_state_for_gc))

Readers == {t \in Txn : /\ txn[t].state = "live"
                        /\ txn[t].type # "none"}

Own(t) == {i \in DOMAIN view[t] : view[t][i] # None}

\* Whatever was promoted, collected, flushed, evicted or is still on its way,
\* a transaction with a snapshot reads what it or an enclosing transaction
\* wrote last, else what was committed when its snapshot was taken
\* (toku_txn_reads_txnid over what ule_garbage_collect left).
SnapshotReads ==
  job = Idle => LET le == Entry IN
    \A t \in Readers :
      ReadSnapshot(le, SnapshotOf(t)) =
        IF Own(t) # {} THEN view[t][Max(Own(t))]
        ELSE expect[t][IF txn[t].type = "child" THEN Depth(t) + 1 ELSE 1]

\* When the row is not locked its latest value is the one committed last: no
\* value of an aborted transaction is ever promoted, whatever lies above the leaf
\* (oldest_referenced_xid_known), and no committed value is lost.
LatestIsCommitted ==
  job = Idle /\ lock = None => ReadAny(Entry) = committed

\* Who reads as of a snapshot and who reads the latest value read what they should.
ReadsExact == SnapshotReads /\ LatestIsCommitted

\* verify_snapshot_system: every finished writer in a snapshot's live list has
\* its tuple, which counts exactly the snapshots that have it and whose
\* youngest snapshot is the youngest of those.
SnapshotSystem ==
  /\ \A r \in referenced_xids :
       LET with == {s \in Range(snapshots) : r.begin_id \in s.list}
       IN /\ r.references = Cardinality(with) /\ with # {}
          /\ r.begin_id \notin live_root_ids
          /\ toku_get_youngest_live_list_txnid_for(r.begin_id, snapshot_xids, referenced_xids)
               = Max({s.id : s \in with})
  /\ \A t \in Txn : txn[t].state = "done" /\ txn[t].logged =>
       ((\E r \in referenced_xids : r.begin_id = txn[t].xid)
          <=> \E s \in Range(snapshots) : txn[t].xid \in s.list)

\* The ids that nodes, and the job on the leaf, know as the oldest referenced one.
KnownIds ==
  {above_known, leaf.known, disk.known}
    \cup (IF job.kind \in {"detached", "flush"} THEN {job.known} ELSE {})
    \cup (IF job.kind \in {"flush", "gc"} THEN {job.gc.simple, job.gc.promote} ELSE {})

\* A writer below an id that some node knows, however long ago it learned it, has ended,
\* and no snapshot saw it live: implicit promotion (ule_try_promote_provisional_outermost)
\* and simple garbage collection (ule_simple_garbage_collection) go by nothing else.
PromotionSafe ==
  \A id \in KnownIds \cup {oldest_referenced_xid} : \A t \in Txn :
    txn[t].logged /\ txn[t].xid < id =>
      txn[t].state = "done" /\ \A s \in Range(snapshots) : txn[t].xid \notin s.list

\* What promotion and garbage collection go by is true.
CollectionSafe == SnapshotSystem /\ PromotionSafe

\* Which lets a writer read it before it locks the node (toku_ft_root_put_msg).
OldestGrows == [][oldest_referenced_xid <= oldest_referenced_xid']_vars

(***************************************************************************)
(* Why the snapshot system is exact.  Ids and snapshots are given out in   *)
(* order, so a snapshot has in its live list the writers of smaller ids    *)
(* that had not ended; a tuple remembers when its writer ended, and its    *)
(* references are the snapshots in between.                                *)
(***************************************************************************)
Snaps == Range(snapshots)
With(xid) == {s \in Snaps : xid \in s.list}
Begun(t) == txn[t].state # "unborn"
Open(t) == txn[t].state \notin {"unborn", "done"}

\* The list in the order of the ids.
Increasing(snaps) == \A i, j \in DOMAIN snaps : i < j => snaps[i].id < snaps[j].id

Snapshot == [txn : Txn, depth : Nat, root : Nat, id : Nat, list : SUBSET Nat]
Tuple == [begin_id : Nat, end_id : Nat, references : Nat]
TxnRecord == [state : {"unborn", "live", "committing", "aborting", "done"}, xid : Nat,
              type : SnapshotType, ro : BOOLEAN, kids : Seq(Nat), last_kid : Nat, logged : BOOLEAN]

ManagerTypeOK ==
  /\ last_xid \in Nat /\ oldest_referenced_xid \in Nat /\ live_root_ids \in SUBSET Nat
  /\ snapshots \in Seq(Snapshot) /\ referenced_xids \in SUBSET Tuple
  /\ txn \in [Txn -> TxnRecord]
  /\ work \in [DOMAIN work -> Clients] /\ DOMAIN work \subseteq Txn

IdsSound ==
  /\ \A t \in Txn : Begun(t) => txn[t].xid \in 1 .. last_xid
  /\ \A t, u \in Txn : Begun(t) /\ Begun(u) /\ txn[t].xid = txn[u].xid => t = u
  /\ live_root_ids = {txn[t].xid : t \in {u \in Txn : Open(u) /\ ~txn[u].ro}}
  /\ Increasing(snapshots)
  /\ \A s \in Snaps : s.id <= last_xid

\* A transaction that records a snapshot has one while it is open, and nobody else has.
SnapshotsSound ==
  /\ \A s \in Snaps : /\ Open(s.txn) /\ s.depth <= Depth(s.txn)
                       /\ txn_records_snapshot(txn[s.txn].type, s.depth)
  /\ \A s1, s2 \in Snaps : s1.txn = s2.txn /\ s1.depth = s2.depth => s1 = s2
  /\ \A t \in Txn : Open(t) => \A d \in 0 .. Depth(t) :
       txn_records_snapshot(txn[t].type, d) => \E s \in Snaps : s.txn = t /\ s.depth = d

ListsSound ==
  \A s \in Snaps :
    /\ \A x \in s.list : \E t \in Txn : Begun(t) /\ ~txn[t].ro /\ txn[t].xid = x
    /\ \A t \in Txn : Open(t) /\ ~txn[t].ro => (txn[t].xid \in s.list <=> txn[t].xid < s.id)

ReferencesSound ==
  /\ \A r \in referenced_xids :
       /\ r.end_id <= last_xid /\ r.references > 0 /\ r.references = Cardinality(With(r.begin_id))
       /\ \E t \in Txn : txn[t].state = "done" /\ txn[t].xid = r.begin_id
       /\ \A s \in Snaps : r.begin_id \in s.list <=> r.begin_id < s.id /\ s.id < r.end_id
  /\ \A r, q \in referenced_xids : r.begin_id = q.begin_id => r = q
  /\ \A t \in Txn : txn[t].state = "done" /\ txn[t].logged /\ With(txn[t].xid) # {} =>
       \E r \in referenced_xids : r.begin_id = txn[t].xid

SnapshotInv ==
  ManagerTypeOK /\ IdsSound /\ SnapshotsSound /\ ListsSound /\ ReferencesSound

\* Nothing that lives, has a snapshot or has a tuple is older than the oldest.
OldestSound ==
  /\ oldest_referenced_xid <= last_xid
  /\ \A x \in live_root_ids : oldest_referenced_xid <= x
  /\ \A r \in referenced_xids : oldest_referenced_xid <= r.begin_id
  /\ \A s \in Snaps : oldest_referenced_xid <= s.id
  /\ \A t \in Txn : txn[t].logged => Begun(t) /\ ~txn[t].ro

\* What a node learned is not younger.
KnownSound ==
  /\ \A l \in {leaf, disk} :
       l = [le |-> l.le, known |-> l.known, dirty |-> l.dirty, applied |-> l.applied]
  /\ \A id \in KnownIds : id \in Nat /\ id <= oldest_referenced_xid

PromotionInv == OldestSound /\ KnownSound
=============================================================================
