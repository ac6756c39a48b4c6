----------------------------- MODULE LeafEntry -----------------------------
(***************************************************************************)
(* Leaf entries of the fractal tree (ft/ule.cc): the stack of transaction  *)
(* records of one row, what a message does to it, implicit promotion, both *)
(* garbage collectors, the packed form and how a snapshot reads it.        *)
(*                                                                         *)
(* An unpacked entry is [c, p]: the committed records, oldest first, and   *)
(* the provisional ones, outermost first, each [xid, v].  A value is       *)
(* DEL, HOLDER (a placeholder) or anything else, which is an insert.       *)
(***************************************************************************)
EXTENDS Integers, Sequences, FiniteSets, SequencesExt

TXNID_NONE == 0

DEL == <<"delete">>
HOLDER == <<"placeholder">>

uxr_is_insert(r) == r.v \notin {DEL, HOLDER}

Record(xid, v) == [xid |-> xid, v |-> v]

ule_init_empty_ule == [c |-> <<Record(TXNID_NONE, DEL)>>, p |-> <<>>]

Uxrs(u) == u.c \o u.p

ule_get_innermost_uxr(u) == Last(Uxrs(u))

\* ---------------------------------------------------------------- packed

Values(s) == [i \in DOMAIN s |-> s[i].v]
Xids(s) == [i \in DOMAIN s |-> s[i].xid]

\* The ids and the values a reader may want come first, innermost first: the
\* id of the outermost provisional record goes with the value of the innermost.
le_pack(u) ==
  IF \A i \in DOMAIN Uxrs(u) : ~uxr_is_insert(Uxrs(u)[i]) THEN [type |-> "none"]
  ELSE IF Len(u.c) = 1 /\ u.p = <<>> THEN [type |-> "clean", val |-> u.c[1].v]
  ELSE [type |-> "mvcc", nc |-> Len(u.c), np |-> Len(u.p),
        xids |-> (IF u.p = <<>> THEN <<>> ELSE <<u.p[1].xid>>)
                   \o Reverse(Xids(Tail(u.c))),
        vals |-> (IF u.p = <<>> THEN <<>> ELSE <<Last(u.p).v>>)
                   \o Reverse(Values(u.c)),
        outer |-> IF Len(u.p) > 1 THEN Values(Front(u.p)) ELSE <<>>,
        inner |-> IF Len(u.p) > 1 THEN Xids(Tail(u.p)) ELSE <<>>]

le_unpack(le) ==
  CASE le.type = "none"  -> ule_init_empty_ule
    [] le.type = "clean" -> [c |-> <<Record(TXNID_NONE, le.val)>>, p |-> <<>>]
    [] le.type = "mvcc"  ->
       LET has_p == IF le.np = 0 THEN 0 ELSE 1
           at(i) == le.nc + has_p - i + 1
           v(i) == IF i = le.np THEN le.vals[1] ELSE le.outer[i]
           x(i) == IF i = 1 THEN le.xids[1] ELSE le.inner[i - 1]
       IN [c |-> [i \in 1..le.nc |->
                    Record(IF i = 1 THEN TXNID_NONE ELSE le.xids[at(i)], le.vals[at(i)])],
           p |-> [i \in 1..le.np |-> Record(x(i), v(i))]]

le_outermost_uncommitted_xid(le) ==
  IF le.type = "mvcc" /\ le.np > 0 THEN le.xids[1] ELSE TXNID_NONE

\* ------------------------------------------------------------- promotion

ule_promote_provisional_innermost_to_committed(u) ==
  [c |-> Append(u.c, Record(u.p[1].xid, Last(u.p).v)), p |-> <<>>]

ule_promote_provisional_innermost_to_index(u, i) ==
  [u EXCEPT !.p = Append(SubSeq(u.p, 1, i - 1), Record(u.p[i].xid, Last(u.p).v))]

ule_try_promote_provisional_outermost(u, oldest_possible_live_xid) ==
  IF u.p # <<>> /\ u.p[1].xid < oldest_possible_live_xid
  THEN ule_promote_provisional_innermost_to_committed(u) ELSE u

\* The innermost common ancestor: how many ids the two stacks share.
InnermostCommonAncestor(p, xids) ==
  LET n == IF Len(p) < Len(xids) THEN Len(p) ELSE Len(xids)
      differ == {i \in 1..n : p[i].xid # xids[i]}
  IN IF differ = {} THEN n ELSE (CHOOSE i \in differ : \A j \in differ : i <= j) - 1

ule_do_implicit_promotions(u, xids) ==
  LET ica == InnermostCommonAncestor(u.p, xids)
  IN IF u.p = <<>> \/ ica = Len(u.p) THEN u
     ELSE IF ica = 0 THEN ule_promote_provisional_innermost_to_committed(u)
     ELSE ule_promote_provisional_innermost_to_index(u, ica)

le_is_clean(le) == le.type = "clean"

le_has_xids(le, xids) == le_outermost_uncommitted_xid(le) = xids[1]

le_latest_is_del(le) == le.type = "mvcc" /\ le.vals[1] = DEL

le_latest_val(le) == IF le.type = "clean" THEN le.val ELSE le.vals[1]

\* ------------------------------------------------------ applying a message

\* A message: its type, the stack of transaction ids and the value.
ft_msg(type, xids, v) == [type |-> type, xids |-> xids, v |-> v]

ule_remove_innermost_placeholders(p) ==
  LET real == {i \in DOMAIN p : p[i].v # HOLDER}
  IN SubSeq(p, 1, IF real = {} THEN 0 ELSE CHOOSE i \in real : \A j \in real : j <= i)

ule_add_placeholders(p, xids) ==
  p \o [i \in 1..(Len(xids) - 1 - Len(p)) |-> Record(xids[Len(p) + i], HOLDER)]

\* The stack without what this transaction did before, with a placeholder
\* for every transaction around it, and the new record on top.  A message of
\* no transaction replaces the committed record it finds.
ule_prepare_for_new_uxr(u, xids, v) ==
  IF xids = <<>>
  THEN [u EXCEPT !.c = Append(IF Last(@).xid = TXNID_NONE THEN Front(@) ELSE @,
                              Record(TXNID_NONE, v))]
  ELSE [u EXCEPT !.p = Append(IF u.p # <<>> /\ Last(u.p).xid = Last(xids)
                              THEN Front(u.p) ELSE ule_add_placeholders(u.p, xids),
                              Record(Last(xids), v))]

ule_apply_insert_no_overwrite(u, xids, v) ==
  IF uxr_is_insert(ule_get_innermost_uxr(u)) THEN u
  ELSE ule_prepare_for_new_uxr(u, xids, v)

ule_apply_insert(u, xids, v) == ule_prepare_for_new_uxr(u, xids, v)

ule_apply_delete(u, xids) == ule_prepare_for_new_uxr(u, xids, DEL)

ule_apply_abort(u, xids) ==
  IF u.p # <<>> /\ Last(u.p).xid = Last(xids)
  THEN [u EXCEPT !.p = ule_remove_innermost_placeholders(Front(u.p))] ELSE u

ule_apply_commit(u, xids) ==
  IF u.p = <<>> \/ Last(u.p).xid # Last(xids) THEN u
  ELSE IF Len(u.p) = 1 THEN ule_promote_provisional_innermost_to_committed(u)
  ELSE ule_promote_provisional_innermost_to_index(u, Len(u.p) - 1)

ule_optimize(u, xids) ==
  IF u.p # <<>> /\ (xids = <<>> \/ u.p[1].xid < xids[1])
  THEN ule_promote_provisional_innermost_to_committed(u) ELSE u

msg_modify_ule(u, msg) ==
  LET w == IF msg.type = "optimize" THEN u
           ELSE ule_do_implicit_promotions(u, msg.xids)
  IN CASE msg.type = "insert_no_overwrite" ->
            ule_apply_insert_no_overwrite(w, msg.xids, msg.v)
       [] msg.type = "insert"   -> ule_apply_insert(w, msg.xids, msg.v)
       [] msg.type = "delete"   -> ule_apply_delete(w, msg.xids)
       [] msg.type \in {"abort", "abort_broadcast_txn"} -> ule_apply_abort(w, msg.xids)
       [] msg.type \in {"commit", "commit_broadcast_txn"} -> ule_apply_commit(w, msg.xids)
       [] msg.type = "optimize" -> ule_optimize(w, msg.xids)

\* ----------------------------------------------------- garbage collection

\* The greatest element of S below x, TXNID_NONE when there is none.
get_next_older_txnid(x, S) ==
  LET older == {y \in S : y < x}
  IN IF older = {} THEN TXNID_NONE ELSE CHOOSE y \in older : \A z \in older : z <= y

\* The youngest snapshot that has the finished transaction xc in its live list:
\* xc ended at its tuple's end_id and every snapshot in between saw it live.
toku_get_youngest_live_list_txnid_for(xc, snapshot_xids, referenced_xids) ==
  LET tuples == {r \in referenced_xids : r.begin_id = xc}
      live == get_next_older_txnid((CHOOSE r \in tuples : TRUE).end_id, snapshot_xids)
  IN IF tuples = {} THEN TXNID_NONE ELSE IF live > xc THEN live ELSE TXNID_NONE

xid_reads_committed_xid(tl1, xc, snapshot_xids, referenced_xids) ==
  /\ tl1 >= xc
  /\ LET x == toku_get_youngest_live_list_txnid_for(xc, snapshot_xids, referenced_xids)
     IN x = TXNID_NONE \/ tl1 > x

\* Committed records from index i up; the new bottom of the stack loses its id.
KeepFrom(u, keep) ==
  LET idx == SetToSortSeq(keep, <)
      c == [k \in DOMAIN idx |-> u.c[idx[k]]]
  IN [u EXCEPT !.c = [c EXCEPT ![1].xid = TXNID_NONE]]

ule_simple_garbage_collection(u, gc) ==
  LET n == Len(u.c)
      old == {i \in 1..n : u.c[i].xid < gc.simple}
      curr == IF old = {} THEN 1 ELSE CHOOSE i \in old : \A j \in old : j <= i
  IN IF n = 1 THEN u ELSE KeepFrom(u, curr..n)

NextNecessaryMut(c, i, st) ==
  LET xc == c[i].xid
      y == toku_get_youngest_live_list_txnid_for(xc, st.snapshot_xids, st.referenced_xids)
      tl1 == IF y # TXNID_NONE THEN y ELSE get_next_older_txnid(xc, st.snapshot_xids)
      read == {j \in 2..(i - 1) :
                 xid_reads_committed_xid(tl1, c[j].xid, st.snapshot_xids, st.referenced_xids)}
  IN IF i = 1 THEN 0
     ELSE IF tl1 = TXNID_NONE THEN 0
     ELSE IF read = {} THEN 1 ELSE CHOOSE j \in read : \A k \in read : k <= j

\* The next record below record i that some reader needs, 0 when none is: just
\* below a transaction still committing, or what the youngest reader that does
\* not read record i would read instead.
NextNecessary(c, i, st) ==
  LET xc == c[i].xid
      y == toku_get_youngest_live_list_txnid_for(xc, st.snapshot_xids, st.referenced_xids)
      tl1 == IF y # TXNID_NONE THEN y ELSE get_next_older_txnid(xc, st.snapshot_xids)
      read == {j \in 2..(i - 1) :
                 xid_reads_committed_xid(tl1, c[j].xid, st.snapshot_xids, st.referenced_xids)}
  IN IF i = 1 THEN 0
     ELSE IF xc \in st.live_root_txns THEN i - 1
     ELSE IF tl1 = TXNID_NONE THEN 0
     ELSE IF read = {} THEN 1 ELSE CHOOSE j \in read : \A k \in read : k <= j

ule_garbage_collect(u, st) ==
  LET necessary[i \in 0..Len(u.c)] ==
        IF i = 0 THEN {} ELSE {i} \cup necessary[NextNecessary(u.c, i, st)]
  IN IF Len(u.c) = 1 THEN u ELSE KeepFrom(u, necessary[Len(u.c)])

\* ------------------------------------------------------------ entry points

\* gc: the two ids below which things may be promoted and collected, the state
\* of the transaction system, cloned before or NoState, and the state to clone
\* when the stack is large enough to be worth it.
toku_le_apply_msg(le, msg, gc, force) ==
  LET u == ule_simple_garbage_collection(
             ule_try_promote_provisional_outermost(msg_modify_ule(le_unpack(le), msg),
                                                   gc.promote), gc)
  IN le_pack(IF Len(u.c) > 1 /\ (gc.initialized \/ Len(u.c) >= force)
             THEN ule_garbage_collect(u, gc.state) ELSE u)

\* The callback of the application, called with the value the row has or none:
\* here one that inserts into a missing row and deletes a row that is there.
update_fun(old, extra) == IF old = DEL THEN extra ELSE DEL

\* setval_fun: the callback's answer is applied as an insert or a delete.
do_update(le, msg, gc, force) ==
  LET old == IF le.type = "none" \/ le_latest_is_del(le) THEN DEL ELSE le_latest_val(le)
      new == update_fun(old, msg.v)
  IN toku_le_apply_msg(le, ft_msg(IF new = DEL THEN "delete" ELSE "insert", msg.xids, new),
                       gc, force)

\* What a message for one key does to the basement node, seen at this row: an
\* insert goes ahead without the row, a delete, an abort and a commit do not.
ApplyToRow(le, msg, gc, force) ==
  IF le.type = "none" /\ msg.type \in {"delete", "abort", "commit"} THEN le
  ELSE toku_le_apply_msg(le, msg, gc, force)

\* A message for all rows: nothing to do for one that is clean, or that the
\* transaction the message ends did not touch.
BroadcastConcerns(le, msg) ==
  /\ le.type # "none"
  /\ IF msg.type = "optimize" THEN ~le_is_clean(le) ELSE le_has_xids(le, msg.xids)

ApplyToAll(le, msg, gc, force) ==
  IF BroadcastConcerns(le, msg) THEN toku_le_apply_msg(le, msg, gc, force) ELSE le

\* An update of one key is for a missing row too, a broadcast one is not.
ApplyUpdate(le, msg, gc, force) ==
  IF le.type = "none" /\ msg.type = "update_broadcast" THEN le
  ELSE do_update(le, msg, gc, force)

toku_ft_bn_apply_msg(le, msg, gc, force) ==
  CASE msg.type \in {"update", "update_broadcast"} -> ApplyUpdate(le, msg, gc, force)
    [] msg.type \in {"optimize", "abort_broadcast_txn", "commit_broadcast_txn"} ->
         ApplyToAll(le, msg, gc, force)
    [] OTHER -> ApplyToRow(le, msg, gc, force)

toku_le_worth_running_garbage_collection(le, gc) ==
  /\ le.type = "mvcc"
  /\ \/ le.nc > 1
     \/ le.np > 0 /\ le_outermost_uncommitted_xid(le) < gc.promote

toku_le_garbage_collect(le, gc) ==
  LET u == ule_try_promote_provisional_outermost(le_unpack(le), gc.promote)
  IN le_pack(IF Len(u.c) > 1 THEN ule_garbage_collect(u, gc.state) ELSE u)

\* ----------------------------------------------------------------- reading

\* A snapshot is [root, id, list]: the transaction's root id, the id of the
\* snapshot and the root transactions that were live when it was taken.
toku_txn_reads_txnid(xid, s) ==
  LET oldest == IF s.list = {} THEN TXNID_NONE
                ELSE CHOOSE x \in s.list : \A y \in s.list : x <= y
  IN \/ oldest = TXNID_NONE /\ xid < s.id
     \/ xid < oldest \/ xid = s.root
     \/ ~(xid > s.id \/ xid \in s.list)

le_iterate_get_accepted_index(xids, s) ==
  LET ok == {i \in DOMAIN xids : toku_txn_reads_txnid(xids[i], s)}
  IN IF ok = {} THEN Len(xids) + 1 ELSE CHOOSE i \in ok : \A j \in ok : i <= j

le_iterate_val(le, s) ==
  IF le.type = "clean" THEN le.val
  ELSE le.vals[le_iterate_get_accepted_index(le.xids, s)]

le_iterate_is_del(le, s) ==
  /\ le.type = "mvcc"
  /\ le.vals[le_iterate_get_accepted_index(le.xids, s)] = DEL

\* What a cursor with snapshot s finds (C_READ_SNAPSHOT): an entry whose value is
\* a delete is passed over, any other one has its value extracted.
ReadSnapshot(le, s) ==
  IF le.type = "none" \/ le_iterate_is_del(le, s) THEN DEL ELSE le_iterate_val(le, s)

\* ... and without one (C_READ_ANY).
ReadAny(le) ==
  IF le.type = "none" \/ le_latest_is_del(le) THEN DEL ELSE le_latest_val(le)
=============================================================================
