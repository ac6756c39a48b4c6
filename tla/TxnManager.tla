---------------------------- MODULE TxnManager ----------------------------
(***************************************************************************)
(* The transaction manager (ft/txn/txn_manager.cc, txn.cc and              *)
(* txn_child_manager.cc): the ids of transactions and snapshots, the live  *)
(* root transactions, the snapshots with the live list each of them has,   *)
(* and the finished transactions some snapshot still refers to.            *)
(*                                                                         *)
(* A member of Txn is a root transaction with the children open in it;     *)
(* every operation below holds the manager's mutex.                        *)
(***************************************************************************)
EXTENDS LeafEntry, FiniteSetsExt

CONSTANTS Txn,       \* root transactions, each begun at most once
          MaxDepth   \* bound: open transactions of one root, itself included

VARIABLES
  last_xid,         \* the last id handed out
  live_root_ids,    \* ids of the live roots that may write
  snapshots,        \* the list of snapshots, in the order they were taken
  referenced_xids,  \* finished writers that snapshots have in their live list
  oldest_referenced_xid,  \* last_calculated_oldest_referenced_xid
  txn               \* struct tokutxn of each root and its open children

managerVars == <<last_xid, live_root_ids, snapshots, referenced_xids, oldest_referenced_xid>>

SnapshotType == {"none", "root", "child"}

\* kids: the ids of the open children, the innermost last; last_kid: the id the
\* child manager gave out last; state: of the innermost open transaction.
NewTxn == [state |-> "unborn", xid |-> TXNID_NONE, type |-> "none", ro |-> FALSE,
           kids |-> <<>>, last_kid |-> 0, logged |-> FALSE]

Depth(t) == Len(txn[t].kids)

\* The stack of ids a message of t carries.
toku_txn_get_xids(t) == <<txn[t].xid>> \o txn[t].kids

txn_records_snapshot(type, depth) == type = "child" \/ (type = "root" /\ depth = 0)

snapshot_xids == {snapshots[i].id : i \in DOMAIN snapshots}

\* Where the transaction of t at depth stands in the list of snapshots.
SnapshotIndex(t, depth) ==
  CHOOSE i \in DOMAIN snapshots : snapshots[i].txn = t /\ snapshots[i].depth = depth

\* The snapshot the innermost transaction of t reads with.
SnapshotOf(t) == snapshots[SnapshotIndex(t, IF txn[t].type = "child" THEN Depth(t) ELSE 0)]

\* A clone of what garbage collection needs to know.
toku_txn_manager_clone_state_for_gc ==
  [snapshot_xids |-> snapshot_xids, referenced_xids |-> referenced_xids,
   live_root_txns |-> live_root_ids]

Init ==
  /\ last_xid = 0 /\ live_root_ids = {} /\ snapshots = <<>> /\ referenced_xids = {}
  /\ oldest_referenced_xid = 0
  /\ txn = [t \in Txn |-> NewTxn]

\* txn_manager_create_snapshot_unlocked and setup_live_root_txn_list.
NewSnapshot(t, depth, root, id, live) ==
  Append(snapshots, [txn |-> t, depth |-> depth, root |-> root, id |-> id, list |-> live])

set_oldest_referenced_xid(xid, live) ==
  Min(live \cup {r.begin_id : r \in referenced_xids}
           \cup (IF snapshots = <<>> THEN {} ELSE {snapshots[1].id}) \cup {xid})

\* The id is computed before this transaction's own snapshot exists.
toku_txn_manager_start_txn(t, type, ro) ==
  LET xid == last_xid + 1
      live == IF ro THEN live_root_ids ELSE live_root_ids \cup {xid}
      records == txn_records_snapshot(type, 0)
  IN /\ txn[t].state = "unborn"
     /\ txn' = [txn EXCEPT ![t] = [NewTxn EXCEPT !.state = "live", !.xid = xid,
                                                 !.type = type, !.ro = ro]]
     /\ live_root_ids' = live
     /\ oldest_referenced_xid' = set_oldest_referenced_xid(xid, live)
     /\ last_xid' = IF records THEN xid + 1 ELSE xid
     /\ snapshots' = IF records THEN NewSnapshot(t, 0, xid, xid + 1, live) ELSE snapshots
     /\ UNCHANGED referenced_xids

\* start_child_txn: the id of a child is never that of its root.
NextKid(t) == IF txn[t].last_kid + 1 = txn[t].xid THEN txn[t].last_kid + 2
              ELSE txn[t].last_kid + 1

toku_txn_manager_start_child_txn(t) ==
  LET records == txn_records_snapshot(txn[t].type, Depth(t) + 1)
  IN /\ txn[t].state = "live"
     /\ Depth(t) + 1 < MaxDepth
     /\ txn' = [txn EXCEPT ![t].kids = Append(@, NextKid(t)), ![t].last_kid = NextKid(t)]
     /\ last_xid' = IF records THEN last_xid + 1 ELSE last_xid
     /\ snapshots' = IF records
          THEN NewSnapshot(t, Depth(t) + 1, txn[t].xid, last_xid + 1, live_root_ids)
          ELSE snapshots
     /\ UNCHANGED <<live_root_ids, referenced_xids, oldest_referenced_xid>>

\* The list of snapshots without that of t at depth, and the tuples with one
\* reference less for everything its live list names.
txn_manager_remove_snapshot_unlocked(t, depth) == RemoveAt(snapshots, SnapshotIndex(t, depth))

note_snapshot_txn_end(list) ==
  {IF r.begin_id \in list THEN [r EXCEPT !.references = @ - 1] ELSE r :
     r \in {q \in referenced_xids : ~(q.begin_id \in list /\ q.references = 1)}}

ListOf(t, depth) == snapshots[SnapshotIndex(t, depth)].list

\* toku_txn_complete_txn of a child: its snapshot goes, its parent goes on.
toku_txn_manager_finish_child_txn(t) ==
  /\ Depth(t) > 0
  /\ IF txn_records_snapshot(txn[t].type, Depth(t))
     THEN /\ snapshots' = txn_manager_remove_snapshot_unlocked(t, Depth(t))
          /\ referenced_xids' = note_snapshot_txn_end(ListOf(t, Depth(t)))
     ELSE UNCHANGED <<snapshots, referenced_xids>>
  /\ txn' = [txn EXCEPT ![t].kids = Front(@), ![t].state = "live"]
  /\ UNCHANGED <<last_xid, live_root_ids, oldest_referenced_xid>>

NumReferencesMut(snaps, xid) ==
  IF snaps # <<>> /\ Last(snaps).id > xid THEN 1 ELSE 0

\* How many snapshots, from the tail of the list, were taken after xid began:
\* the walk stops at the first that was not.
NumReferences(snaps, xid) ==
  LET older == {i \in DOMAIN snaps : snaps[i].id <= xid}
  IN Len(snaps) - (IF older = {} THEN 0 ELSE Max(older))

\* toku_txn_manager_finish_txn: a writer that snapshots saw live is remembered
\* for as long as one of them is.
toku_txn_manager_finish_txn(t) ==
  LET records == txn_records_snapshot(txn[t].type, 0)
      snaps == IF records THEN txn_manager_remove_snapshot_unlocked(t, 0) ELSE snapshots
      refs == IF records THEN note_snapshot_txn_end(ListOf(t, 0)) ELSE referenced_xids
      n == IF txn[t].ro \/ ~txn[t].logged THEN 0 ELSE NumReferences(snaps, txn[t].xid)
  IN /\ Depth(t) = 0
     /\ snapshots' = snaps
     /\ live_root_ids' = live_root_ids \ {txn[t].xid}
     /\ last_xid' = IF n > 0 THEN last_xid + 1 ELSE last_xid
     /\ referenced_xids' = IF n = 0 THEN refs
          ELSE refs \cup {[begin_id |-> txn[t].xid, end_id |-> last_xid + 1, references |-> n]}
     /\ txn' = [txn EXCEPT ![t].state = "done"]
     /\ UNCHANGED oldest_referenced_xid
=============================================================================
