------------------------------- MODULE Index -------------------------------
(***************************************************************************)
(* A dictionary and its secondary dictionaries: the operations on several  *)
(* dictionaries of src/ydb_write.cc, run by clients inside transactions,   *)
(* and the hot indexer (src/indexer.cc, src/indexer-undo-do.cc) that fills *)
(* a new secondary from the end of the source to its beginning meanwhile.  *)
(*                                                                         *)
(* Dictionary 0 is the source.  A key is <<x, k>>: <<0, k>> in the source, *)
(* <<x, k>> in a secondary, one row for each x of Elems[v].  `d' is what   *)
(* the dictionaries and the rollback logs hold, `rec' what a replay of the *)
(* recovery log would give.                                                *)
(***************************************************************************)
EXTENDS LeafEntry

CONSTANTS Keys,      \* keys of the source, 1 .. n
          Elems,     \* value |-> the first parts of its secondary keys
          NHot,      \* how many secondary dictionaries
          Workloads  \* [rows, progs, index, clustering]

VARIABLES w, d, rec, txn, pins, locks, cl, ix, bad
vars == <<w, d, rec, txn, pins, locks, cl, ix, bad>>

Clients == DOMAIN w.progs
Root(c) == 2 * c
Child(c) == 2 * c + 1
RootOf(x) == 2 * (x \div 2)
AllXids == UNION {{Root(c), Child(c)} : c \in 1 .. 2}
Hots == 1 .. NHot
Xs == UNION {Elems[v] : v \in DOMAIN Elems}
PosInf == Cardinality(Keys) + 1
IsLive(s) == s \in {"live", "preparing"}

SrcKey(k) == <<0, k>>
DbKeys(db) == IF db = 0 THEN {SrcKey(k) : k \in Keys} ELSE Xs \X Keys

\* generate_row_for_put / _for_del: the rows of dictionary db for one row of the source.
HotVal(v) == IF w.clustering THEN v ELSE <<"">>
Rows(db, k, v) ==
  IF db = 0 THEN {<<SrcKey(k), v>>} ELSE {<< <<x, k>>, HotVal(v)>> : x \in Elems[v]}
KeysOf(rows) == {r[1] : r \in rows}
Deletes(keys) == {<<key, DEL>> : key \in keys}

\* ------------------------------------------------------ messages into a tree

\* An entry that holds no insert is not kept in the leaf.
Kept(u) == IF \E i \in DOMAIN Uxrs(u) : uxr_is_insert(Uxrs(u)[i]) THEN u
           ELSE ule_init_empty_ule
Apply(u, type, xids, v) == Kept(msg_modify_ule(u, ft_msg(type, xids, v)))

\* Rows (or deletes) of one dictionary, as messages with these xids.
SendRows(t, rows, xids) ==
  [key \in DOMAIN t |->
     IF \E r \in rows : r[1] = key
     THEN LET v == (CHOOSE r \in rows : r[1] = key)[2]
          IN Apply(t[key], IF v = DEL THEN "delete" ELSE "insert", xids, v)
     ELSE t[key]]
SendAll(t, keys, type, xids) ==
  [key \in DOMAIN t |-> IF key \in keys THEN Apply(t[key], type, xids, DEL) ELSE t[key]]

\* toku_ft_maybe_insert / _delete for a transaction: a rollback entry, then the message.
ft_write(dd, db, rows, xids) ==
  [t |-> [dd.t EXCEPT ![db] = SendRows(@, rows, xids)],
   rolls |-> [dd.rolls EXCEPT ![Last(xids)] = @ \cup {<<db, key>> : key \in KeysOf(rows)}]]

\* -------------------------------------------------------------- transactions

XidsOf(x) == IF x % 2 = 0 THEN <<x>> ELSE <<x - 1, x>>
Innermost(c) == IF txn[Child(c)] = "live" THEN Child(c) ELSE Root(c)

Op(c) == cl[c].prog[1]
OpIs(c, ops) == cl[c].stage = "idle" /\ cl[c].prog # <<>> /\ Op(c).op \in ops
\* After an error the client gives up its transaction.
GiveUp(c) == [prog |-> (IF txn[Child(c)] = "live" THEN <<[op |-> "abort_child"]>> ELSE <<>>)
                          \o <<[op |-> "abort"]>>,
              todo |-> <<>>, stage |-> "idle", sc |-> FALSE]
Done(c) == [prog |-> Tail(cl[c].prog), todo |-> <<>>, stage |-> "idle", sc |-> FALSE]

begin_child(c) ==
  /\ OpIs(c, {"begin_child"})
  /\ txn' = [txn EXCEPT ![Child(c)] = "live"]
  /\ cl' = [cl EXCEPT ![c] = Done(c)]
  /\ UNCHANGED <<w, d, rec, pins, locks, ix, bad>>

toku_txn_prepare_txn(c) ==
  /\ OpIs(c, {"prepare"})
  /\ txn' = [txn EXCEPT ![Root(c)] = "preparing"]
  /\ cl' = [cl EXCEPT ![c] = Done(c)]
  /\ UNCHANGED <<w, d, rec, pins, locks, ix, bad>>

Ended(c) == IF Op(c).op \in {"commit_child", "abort_child"} THEN Child(c) ELSE Root(c)
Commits(c) == Op(c).op \in {"commit", "commit_child"}

\* The messages of one rollback entry; a child's commit gives its entries to its parent.
rollback_apply(dd, x, commits, e) ==
  [t |-> [dd.t EXCEPT ![e[1]] = SendAll(@, {e[2]}, IF commits THEN "commit" ELSE "abort", XidsOf(x))],
   rolls |-> [dd.rolls EXCEPT ![x] = @ \ {e}]]
note_parent(dd, x) ==
  [dd EXCEPT !.rolls[RootOf(x)] = @ \cup dd.rolls[x], !.rolls[x] = {}]

\* Replaying the end of a transaction does all of it.
ReplayEnd(dd, x, commits) ==
  IF commits /\ x # RootOf(x) THEN note_parent(dd, x)
  ELSE [t |-> [db \in DOMAIN dd.t |->
                 SendAll(dd.t[db], {e[2] : e \in {f \in dd.rolls[x] : f[1] = db}},
                         IF commits THEN "commit" ELSE "abort", XidsOf(x))],
        rolls |-> [dd.rolls EXCEPT ![x] = {}]]

\* txn_note_commit / txn_note_abort: not while the indexer has the transaction pinned.
PinIgnored(x) == TRUE
NotPinned(x) == pins[x] = 0
txn_note_end(c) ==
  /\ OpIs(c, {"commit", "abort", "commit_child", "abort_child"})
  /\ NotPinned(Ended(c))
  /\ txn' = [txn EXCEPT ![Ended(c)] = IF Commits(c) THEN "committing" ELSE "aborting"]
  /\ rec' = ReplayEnd(rec, Ended(c), Commits(c))
  /\ cl' = [cl EXCEPT ![c].stage = "ending"]
  /\ UNCHANGED <<w, d, pins, locks, ix, bad>>

rollback_step(c) ==
  /\ cl[c].stage = "ending"
  /\ ~(Commits(c) /\ Ended(c) = Child(c))
  /\ \E e \in d.rolls[Ended(c)] : d' = rollback_apply(d, Ended(c), Commits(c), e)
  /\ UNCHANGED <<w, rec, txn, pins, locks, cl, ix, bad>>

txn_retire(c) ==
  LET x == Ended(c) IN
  /\ cl[c].stage = "ending"
  /\ IF Commits(c) /\ x = Child(c) THEN d' = note_parent(d, x)
     ELSE d.rolls[x] = {} /\ UNCHANGED d
  /\ txn' = [txn EXCEPT ![x] = "retired"]
  /\ locks' = IF x = Root(c) THEN {l \in locks : l[3] # x} ELSE locks
  /\ cl' = [cl EXCEPT ![c] = Done(c)]
  /\ UNCHANGED <<w, rec, pins, ix, bad>>

\* ----------------------------------------- operations on several dictionaries

Indexing == ix.st \in {"loop", "committed", "provisional", "built", "failed"}
db_array == <<0>> \o (IF w.index = "exists" \/ Indexing \/ ix.st = "closed"
                      THEN [i \in 1 .. NHot |-> i] ELSE <<>>)

Current(k) == ule_get_innermost_uxr(d.t[0][SrcKey(k)]).v
Present(k) == Current(k) # DEL

Put(db, rows, k, u, log) == [a |-> "put", db |-> db, rows |-> rows, k |-> k, unique |-> u, log |-> log]
Del(db, rows, k, log) == [a |-> "del", db |-> db, rows |-> rows, k |-> k, unique |-> FALSE, log |-> log]
LogPut(dbs, k, v) == [a |-> "log_put", dbs |-> dbs, k |-> k, v |-> v]
LogDel(dbs, k, v, keys) == [a |-> "log_del", dbs |-> dbs, k |-> k, v |-> v, keys |-> keys]

\* The call takes its row locks, then has these steps to do.
Locked(c, dbkeys) ==
  /\ \A l \in locks : <<l[1], l[2]>> \in dbkeys => l[3] = Root(c)
  /\ locks' = locks \cup {<<e[1], e[2], Root(c)>> : e \in dbkeys}
Starts(c, todo) ==
  cl' = [cl EXCEPT ![c] = [@ EXCEPT !.todo = todo, !.stage = "check"]]

EachDb(S(_)) == [i \in DOMAIN db_array |-> S(db_array[i])]

env_put_multiple(c) ==
  /\ OpIs(c, {"put"})
  /\ LET k == Op(c).k  v == Op(c).v
         puts(db) == Put(db, Rows(db, k, v), k, Op(c).unique /\ db = 0, FALSE)
     IN /\ Locked(c, UNION {{db} \X KeysOf(Rows(db, k, v)) : db \in ToSet(db_array)})
        /\ Starts(c, EachDb(puts) \o <<LogPut(ToSet(db_array), k, v)>>)
  /\ UNCHANGED <<w, d, rec, txn, pins, ix, bad>>

env_del_multiple(c) ==
  /\ OpIs(c, {"del"})
  /\ LET k == Op(c).k  v == Current(k)
         keys(db) == KeysOf(Rows(db, k, v))
         dels(db) == Del(db, Deletes(keys(db)), k, FALSE)
     IN IF Present(k)
        THEN /\ Locked(c, UNION {{db} \X keys(db) : db \in ToSet(db_array)})
             /\ Starts(c, <<LogDel(ToSet(db_array), k, v,
                                   UNION {{db} \X keys(db) : db \in ToSet(db_array)})>>
                            \o EachDb(dels))
        ELSE \* DB_NOTFOUND
             /\ Locked(c, {<<0, SrcKey(k)>>})
             /\ cl' = [cl EXCEPT ![c] = Done(c)]
  /\ UNCHANGED <<w, d, rec, txn, pins, ix, bad>>

\* What one dictionary needs when a row becomes another: the keys to delete,
\* the rows to put and the ones that stay as they are.
Gone(db, k, v, k2, v2) == KeysOf(Rows(db, k, v)) \ KeysOf(Rows(db, k2, v2))
Skipped(db, k, v, k2, v2) ==
  IF db # 0 /\ ~w.clustering THEN KeysOf(Rows(db, k, v)) \cap KeysOf(Rows(db, k2, v2)) ELSE {}
Written(db, k, v, k2, v2) == {r \in Rows(db, k2, v2) : r[1] \notin Skipped(db, k, v, k2, v2)}

\* A dictionary that loses some keys and keeps others has its kept rows
\* logged too: a replay deletes all of the old ones.
PutsToLogWritten(db, k, v, k2, v2) == Written(db, k, v, k2, v2) # {}
PutsToLog(db, k, v, k2, v2) ==
  \/ Written(db, k, v, k2, v2) # {}
  \/ Gone(db, k, v, k2, v2) # {} /\ Skipped(db, k, v, k2, v2) # {}

env_update_multiple(c) ==
  /\ OpIs(c, {"update"})
  /\ LET k == Op(c).k  v == Current(k)  k2 == Op(c).k2  v2 == Op(c).v
         gone(db) == Gone(db, k, v, k2, v2)
         written(db) == Written(db, k, v, k2, v2)
         dels == SelectSeq(db_array, LAMBDA db : gone(db) # {})
         puts == SelectSeq(db_array, LAMBDA db : PutsToLog(db, k, v, k2, v2))
         del(db) == Del(db, Deletes(gone(db)), k, FALSE)
         put(db) == Put(db, written(db), k2, FALSE, FALSE)
         steps(dbs, log, S(_)) == IF dbs = <<>> THEN <<>>
                                  ELSE <<log>> \o [i \in DOMAIN dbs |-> S(dbs[i])]
     IN IF Present(k)
        THEN /\ Locked(c, UNION {{db} \X (gone(db) \cup KeysOf(written(db))) : db \in ToSet(db_array)})
             /\ IF k2 # k /\ Op(c).unique /\ Present(k2)
                THEN cl' = [cl EXCEPT ![c] = GiveUp(c)]    \* DB_KEYEXIST
                ELSE Starts(c, steps(dels, LogDel(ToSet(dels), k, v,
                                                  UNION {{db} \X gone(db) : db \in ToSet(dels)}), del)
                               \o steps(puts, LogPut(ToSet(puts), k2, v2), put))
        ELSE /\ Locked(c, {<<0, SrcKey(k)>>})
             /\ cl' = [cl EXCEPT ![c] = Done(c)]
  /\ UNCHANGED <<w, d, rec, txn, pins, ix, bad>>

\* The operations on one dictionary log as they write.
toku_db_put(c) ==
  /\ OpIs(c, {"put_one"})
  /\ Locked(c, {<<0, SrcKey(Op(c).k)>>})
  /\ Starts(c, <<Put(0, Rows(0, Op(c).k, Op(c).v), Op(c).k, Op(c).unique, TRUE)>>)
  /\ UNCHANGED <<w, d, rec, txn, pins, ix, bad>>

toku_db_del(c) ==
  /\ OpIs(c, {"del_one"})
  /\ Locked(c, {<<0, SrcKey(Op(c).k)>>})
  /\ IF Present(Op(c).k)
     THEN Starts(c, <<Del(0, Deletes({SrcKey(Op(c).k)}), Op(c).k, TRUE)>>)
     ELSE cl' = [cl EXCEPT ![c] = Done(c)]
  /\ UNCHANGED <<w, d, rec, txn, pins, ix, bad>>

\* A lock request that conflicts waits, and may time out.
WritesRow(c) == OpIs(c, {"put", "del", "update", "put_one", "del_one"})
lock_timeout(c) ==
  /\ WritesRow(c)
  /\ \E l \in locks : l[1] = 0 /\ l[3] # Root(c)
        /\ l[2] \in {SrcKey(Op(c).k)} \cup (IF Op(c).op = "update" THEN {SrcKey(Op(c).k2)} ELSE {})
  /\ cl' = [cl EXCEPT ![c] = GiveUp(c)]
  /\ UNCHANGED <<w, d, rec, txn, pins, locks, ix, bad>>

\* ------------------------------------------- what the indexer tells a writer

\* A stale position is good enough when the key is beyond it: the indexer moves down.
toku_indexer_may_insert(k) == ix.est < k

IsKeyGreater(k) == ix.pos = 0 \/ (ix.pos # PosInf /\ ix.pos < k)
toku_le_cursor_is_key_greater_or_equal(k) == ix.pos = 0 \/ (ix.pos # PosInf /\ ix.pos <= k)
toku_indexer_should_insert_key(k) == toku_le_cursor_is_key_greater_or_equal(k)

toku_le_cursor_update_estimate(est, pos) == IF pos \in {0, PosInf} THEN est ELSE pos

\* Every source key the call is about; an update has two.
SourceKeys(c) == {Op(c).k} \cup (IF Op(c).op = "update" THEN {Op(c).k2} ELSE {})

check_indexer(c) ==
  /\ cl[c].stage = "check"
  /\ IF ~Indexing THEN UNCHANGED ix /\ cl' = [cl EXCEPT ![c].stage = "apply"]
     ELSE IF \A k \in SourceKeys(c) : toku_indexer_may_insert(k)
     THEN UNCHANGED ix /\ cl' = [cl EXCEPT ![c] = [@ EXCEPT !.stage = "apply", !.sc = TRUE]]
     ELSE /\ ix.owner = 0
          /\ ix' = [ix EXCEPT !.owner = c]
          /\ cl' = [cl EXCEPT ![c].stage = "apply"]
  /\ UNCHANGED <<w, d, rec, txn, pins, locks, bad>>

Released(x, c) == IF x.owner = c THEN [x EXCEPT !.owner = 0] ELSE x

\* One step of the call: the indexer's lock goes with the last one.
StepIs(c, a) == cl[c].stage = "apply" /\ cl[c].todo[1].a = a
StepDone(c, x) ==
  IF Len(cl[c].todo) = 1 THEN cl' = [cl EXCEPT ![c] = Done(c)] /\ ix' = Released(x, c)
  ELSE cl' = [cl EXCEPT ![c].todo = Tail(@)] /\ ix' = x

\* Without the shortcut the indexer's cursor decides whether its dictionary
\* gets the rows, and its position is noted for the next caller.
AsksIndexer(c) == cl[c].todo[1].db # 0 /\ Indexing /\ ~cl[c].sc
ShouldWrite(c) == AsksIndexer(c) => toku_indexer_should_insert_key(cl[c].todo[1].k)
toku_indexer_update_estimate(c) ==
  IF AsksIndexer(c) THEN [ix EXCEPT !.est = toku_le_cursor_update_estimate(@, ix.pos)] ELSE ix

WriteRows(c, s) ==
  /\ d' = IF ShouldWrite(c) THEN ft_write(d, s.db, s.rows, XidsOf(Innermost(c))) ELSE d
  /\ rec' = IF s.log THEN ft_write(rec, s.db, s.rows, XidsOf(Innermost(c))) ELSE rec

do_del_multiple(c) ==
  /\ StepIs(c, "del")
  /\ WriteRows(c, cl[c].todo[1])
  /\ StepDone(c, toku_indexer_update_estimate(c))
  /\ UNCHANGED <<w, txn, pins, locks, bad>>

\* db_put: a unique put of a row that exists ends the call.
KeyExists(s) == s.unique /\ \E r \in s.rows : ule_get_innermost_uxr(d.t[s.db][r[1]]).v # DEL
do_put_multiple(c) ==
  /\ StepIs(c, "put")
  /\ LET s == cl[c].todo[1]
         asked == IF s.rows = {} THEN ix ELSE toku_indexer_update_estimate(c)
     IN IF ShouldWrite(c) /\ KeyExists(s)
        THEN /\ cl' = [cl EXCEPT ![c] = GiveUp(c)]
             /\ ix' = Released(asked, c)
             /\ UNCHANGED <<d, rec>>
        ELSE WriteRows(c, s) /\ StepDone(c, asked)
  /\ UNCHANGED <<w, txn, pins, locks, bad>>

\* What the replay of a log entry writes: in each dictionary all the rows of
\* the source row, or the deletes that were logged one by one.
Replay(dd, rows, xids) ==
  LET dbs == DOMAIN rows IN
  [t |-> [db \in DOMAIN dd.t |-> IF db \in dbs THEN SendRows(dd.t[db], rows[db], xids) ELSE dd.t[db]],
   rolls |-> [dd.rolls EXCEPT ![Last(xids)] = @ \cup UNION {{db} \X KeysOf(rows[db]) : db \in dbs}]]

log_put_multiple(c) ==
  /\ StepIs(c, "log_put")
  /\ LET s == cl[c].todo[1]
         rows == [db \in s.dbs |-> Rows(db, s.k, s.v)]
     IN rec' = Replay(rec, rows, XidsOf(Innermost(c)))
  /\ StepDone(c, ix)
  /\ UNCHANGED <<w, d, txn, pins, locks, bad>>

\* The deletes are logged one by one where that is shorter.
log_del_multiple(c) ==
  /\ StepIs(c, "log_del")
  /\ LET s == cl[c].todo[1]
         all == [db \in s.dbs |-> Deletes(KeysOf(Rows(db, s.k, s.v)))]
         logged == [db \in s.dbs |-> Deletes({e[2] : e \in {f \in s.keys : f[1] = db}})]
     IN \/ rec' = Replay(rec, all, XidsOf(Innermost(c)))
        \/ rec' = Replay(rec, logged, XidsOf(Innermost(c)))
  /\ StepDone(c, ix)
  /\ UNCHANGED <<w, d, txn, pins, locks, bad>>

\* --------------------------------------------------------------- the indexer

IndexerLock == 9
NoProv == [u |-> ule_init_empty_ule, st |-> <<>>]
BetweenCalls == \A c \in Clients : cl[c].stage \in {"idle", "ending"}

toku_indexer_create_indexer ==
  /\ w.index = "build" /\ ix.st = "none" /\ BetweenCalls
  /\ ix' = [ix EXCEPT !.st = "loop"]
  /\ UNCHANGED <<w, d, rec, txn, pins, locks, cl, bad>>

\* The states of the transactions in the entry; one whose root the
\* transaction manager does not know is over.
indexer_fill_prov_info(u) ==
  [i \in DOMAIN u.p |-> IF txn[u.p[1].xid] = "retired" THEN "retired" ELSE txn[u.p[i].xid]]
Pinned(u, st) == {u.p[i].xid : i \in {j \in DOMAIN st : IsLive(st[j])}}

LeafKeys == {k \in Keys : d.t[0][SrcKey(k)] # ule_init_empty_ule}

\* One turn of build_index: the lock, the next entry below the cursor and
\* the transactions in it pinned.
get_next_ule_with_prov_info ==
  LET below == {k \in LeafKeys : k < ix.pos} IN
  /\ ix.st = "loop" /\ ix.owner = 0
  /\ IF below = {}
     THEN ix' = [ix EXCEPT !.pos = 0, !.st = "built"] /\ UNCHANGED pins
     ELSE \E k \in below : \E u \in {d.t[0][SrcKey(k)]} : \E st \in {indexer_fill_prov_info(u)} :
            /\ \A j \in below : j <= k
            /\ ix' = [ix EXCEPT !.pos = k, !.st = "committed", !.owner = IndexerLock,
                                !.db = 1, !.prov = [u |-> u, st |-> st]]
            /\ pins' = [x \in DOMAIN pins |-> pins[x] + IF x \in Pinned(u, st) THEN 1 ELSE 0]
  /\ UNCHANGED <<w, d, rec, txn, locks, cl, bad>>

RootXids(x) == IF x = TXNID_NONE THEN <<>> ELSE <<x>>
HotRows(r) == IF uxr_is_insert(r) THEN Rows(ix.db, ix.pos, r.v) ELSE {}
HotKeys(r) == KeysOf(HotRows(r))
indexer_ft_commit(t, keys, xids) == IF xids = <<>> THEN t ELSE SendAll(t, keys, "commit", xids)

\* Each committed record of the row: the version before it goes, it comes, both commit.
undo_do_record(t, c, i) ==
  LET xids == RootXids(c[i].xid)
      undo == IF i > 1 THEN HotKeys(c[i - 1]) ELSE {}
      rows == HotRows(c[i])
  IN indexer_ft_commit(SendRows(SendRows(t, Deletes(undo), xids), rows, xids),
                       undo \cup KeysOf(rows), xids)
indexer_undo_do_committed ==
  /\ ix.st = "committed"
  /\ LET c == ix.prov.u.c
         step(t, i) == undo_do_record(t, c, i)
     IN d' = [d EXCEPT !.t[ix.db] = FoldLeft(step, @, [i \in DOMAIN c |-> i])]
  /\ ix' = [ix EXCEPT !.st = "provisional"]
  /\ UNCHANGED <<w, rec, txn, pins, locks, cl, bad>>

\* The record before record i of the stack that is not a placeholder.
indexer_find_prev_xr(u, i) ==
  LET s == Uxrs(u)
      prev == {j \in 1 .. (Len(u.c) + i - 1) : s[j].v # HOLDER}
  IN s[CHOOSE j \in prev : \A m \in prev : m <= j]

LocksOfPuts(undo, rows) == KeysOf(rows)
LocksToTake(undo, rows) == KeysOf(undo) \cup KeysOf(rows)

\* One provisional record, outermost first.  a: what is done so far; the xids
\* and the transaction the messages are sent for; the keys to commit at the end.
undo_do_provisional_record(a, u, st, i) ==
  LET r == u.p[i]
      xids == IF i = 1 THEN <<r.xid>> ELSE IF st[i] = "live" THEN Append(a.xids, r.xid) ELSE a.xids
      cur == IF i = 1 \/ st[i] = "live" THEN r.xid ELSE a.cur
      undo == Deletes(HotKeys(indexer_find_prev_xr(u, i)))
      rows == HotRows(r)
      both(dd) == ft_write(ft_write(dd, ix.db, undo, XidsOf(cur)), ix.db, rows, XidsOf(cur))
      moved == [a EXCEPT !.xids = xids, !.cur = cur]
  IN IF a.stop THEN a
     ELSE IF st[i] = "aborting" THEN [a EXCEPT !.stop = TRUE]
     ELSE IF (i > 1 /\ st[i] = "preparing") \/ (i > 1 /\ st[1] # "live" /\ st[i] # "retired")
     THEN [a EXCEPT !.bad = TRUE, !.stop = TRUE]
     ELSE IF r.v = HOLDER THEN moved
     ELSE IF IsLive(st[1])
     THEN [moved EXCEPT !.d = both(@), !.lock = @ \cup LocksToTake(undo, rows)]
     ELSE [moved EXCEPT !.d.t[ix.db] = SendRows(SendRows(@, undo, xids), rows, xids),
                        !.commit = @ \cup KeysOf(undo)]

\* The locks of the rows must be granted; the transactions are let go at the
\* end, for every dictionary.
indexer_undo_do_provisional ==
  /\ ix.st = "provisional"
  /\ LET u == ix.prov.u  st == ix.prov.st
         step(a, i) == undo_do_provisional_record(a, u, st, i)
         start == [d |-> d, xids |-> <<>>, cur |-> 0, commit |-> {}, lock |-> {},
                   stop |-> FALSE, bad |-> FALSE]
     IN \E a \in {FoldLeft(step, start, [i \in DOMAIN u.p |-> i])} :
          LET root == RootOf(a.cur)
              taken == \E l \in locks : l[1] = ix.db /\ l[2] \in a.lock /\ l[3] # root
              free == Pinned(u, st)
          IN /\ d' = [a.d EXCEPT !.t[ix.db] = indexer_ft_commit(@, a.commit, a.xids)]
             /\ locks' = locks \cup {<<ix.db, key, root>> : key \in a.lock}
             /\ bad' = (bad \/ a.bad \/ taken
                        \/ \E x \in free : pins[x] = 0 \/ ~IsLive(txn[x]))
             /\ pins' = [x \in DOMAIN pins |-> IF x \in free /\ pins[x] > 0 THEN pins[x] - 1 ELSE pins[x]]
  /\ IF ix.db < NHot THEN ix' = [ix EXCEPT !.db = @ + 1, !.st = "committed"]
     ELSE \* the poll function may end the build
          \E st \in {"loop", "failed"} :
            ix' = [ix EXCEPT !.st = st, !.owner = 0, !.prov = NoProv]
  /\ UNCHANGED <<w, rec, txn, cl>>

close_indexer ==
  /\ ix.st = "built" /\ BetweenCalls
  /\ ix' = [ix EXCEPT !.st = "closed"]
  /\ UNCHANGED <<w, d, rec, txn, pins, locks, cl, bad>>

\* The dictionary is redirected to an empty file: what transactions still
\* have to do in the old one is no matter.
abort_indexer ==
  /\ ix.st = "failed" /\ BetweenCalls
  /\ ix' = [ix EXCEPT !.st = "aborted"]
  /\ d' = [t |-> [db \in DOMAIN d.t |-> IF db = 0 THEN d.t[0]
                                       ELSE [key \in DbKeys(db) |-> ule_init_empty_ule]],
           rolls |-> [x \in DOMAIN d.rolls |-> {e \in d.rolls[x] : e[1] = 0}]]
  /\ UNCHANGED <<w, rec, txn, pins, locks, cl, bad>>

\* ------------------------------------------------------------------- the spec

Filled(W, db) ==
  LET row(key) == IF db = 0 THEN IF key[2] \in DOMAIN W.rows THEN <<W.rows[key[2]]>> ELSE <<>>
                  ELSE IF W.index = "exists" /\ key[2] \in DOMAIN W.rows
                          /\ key[1] \in Elems[W.rows[key[2]]]
                       THEN <<IF W.clustering THEN W.rows[key[2]] ELSE <<"">> >> ELSE <<>>
  IN [key \in DbKeys(db) |-> IF row(key) = <<>> THEN ule_init_empty_ule
                             ELSE [c |-> <<Record(TXNID_NONE, row(key)[1])>>, p |-> <<>>]]

Init ==
  /\ w \in Workloads
  /\ d = [t |-> [db \in {0} \cup Hots |-> Filled(w, db)], rolls |-> [x \in AllXids |-> {}]]
  /\ rec = d
  /\ txn = [x \in AllXids |-> IF x % 2 = 0 THEN "live" ELSE "retired"]
  /\ pins = [x \in AllXids |-> 0]
  /\ locks = {} /\ bad = FALSE
  /\ cl = [c \in Clients |-> [prog |-> w.progs[c], todo |-> <<>>, stage |-> "idle", sc |-> FALSE]]
  /\ ix = [st |-> "none", pos |-> PosInf, est |-> PosInf, owner |-> 0, db |-> 1, prov |-> NoProv]

Client(c) ==
  \/ begin_child(c) \/ toku_txn_prepare_txn(c) \/ txn_note_end(c) \/ rollback_step(c) \/ txn_retire(c)
  \/ env_put_multiple(c) \/ env_del_multiple(c) \/ env_update_multiple(c)
  \/ toku_db_put(c) \/ toku_db_del(c) \/ lock_timeout(c)
  \/ check_indexer(c) \/ do_del_multiple(c) \/ do_put_multiple(c)
  \/ log_put_multiple(c) \/ log_del_multiple(c)
build_index ==
  \/ get_next_ule_with_prov_info \/ indexer_undo_do_committed \/ indexer_undo_do_provisional
Next ==
  \/ \E c \in Clients : Client(c)
  \/ toku_indexer_create_indexer \/ build_index \/ close_indexer \/ abort_indexer
Spec == Init /\ [][Next]_vars

\* ----------------------------------------------------------------- properties

\* The versions of a row, oldest first, and what a reader that sees the
\* transactions of V reads in it.
Versions(u) == u.c \o (IF u.p = <<>> THEN <<>> ELSE <<Record(u.p[1].xid, Last(u.p).v)>>)
Seen(u, V) == {i \in DOMAIN Versions(u) : Versions(u)[i].xid \in V \cup {TXNID_NONE}}
ReadBy(u, V) == Versions(u)[CHOOSE i \in Seen(u, V) : \A j \in Seen(u, V) : j <= i].v
\* Who sees a version sees the ones it replaced.
NoGap(u, V) == Seen(u, V) = 1 .. Cardinality(Seen(u, V))
\* A reader sees ended transactions and at most one live one, its own.
Readers == {V \in SUBSET {Root(c) : c \in Clients} : Cardinality({x \in V : IsLive(txn[x])}) <= 1}
Quiet == (\A c \in Clients : cl[c].stage = "idle") /\ ix.owner = 0
HasRows(db, k, V) == {r \in {<<key, ReadBy(d.t[db][key], V)>> : key \in Xs \X {k}} : r[2] # DEL}

\* Between the calls, every reader - of any set of ended transactions and of
\* its own - finds in a secondary dictionary exactly the rows generated from
\* what it finds in the source: always when the index exists or is built, and
\* for the keys the indexer has passed while it runs.
IndexExact ==
  Quiet => \A k \in Keys, db \in Hots, V \in Readers :
    (/\ w.index = "exists" \/ ix.st \in {"built", "closed"} \/ (ix.st = "loop" /\ k >= ix.pos)
     /\ NoGap(d.t[0][SrcKey(k)], V))
      => HasRows(db, k, V) = LET v == ReadBy(d.t[0][SrcKey(k)], V)
                             IN IF v = DEL THEN {} ELSE Rows(db, k, v)

\* A row that a live transaction wrote, or that the indexer wrote for it, is
\* locked by that transaction.
RowsLocked ==
  \A db \in {0} \cup (IF ix.st = "aborted" THEN {} ELSE Hots) : \A key \in DbKeys(db) :
    LET p == d.t[db][key].p
    IN p # <<>> /\ IsLive(txn[p[1].xid]) => <<db, key, p[1].xid>> \in locks

\* The recovery log, which names source rows and the dictionaries they go to,
\* replays to what the calls did - though a call leaves rows out that did not change.
LogReplays ==
  (w.index # "build" /\ Quiet) =>
    \A db \in {0} \cup Hots : \A key \in DbKeys(db), V \in Readers :
      ReadBy(rec.t[db][key], V) = ReadBy(d.t[db][key], V)

\* The indexer's locks are granted, the states it meets are the ones it
\* expects, and no transaction is unpinned twice or ends while pinned.
NoAssertFails == ~bad
=============================================================================
