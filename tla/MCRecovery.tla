----------------------------- MODULE MCRecovery -----------------------------
(***************************************************************************)
(* Recovery from a crash on small programs of two transactions, and the    *)
(* operations on several dictionaries with the hot indexer, which log what *)
(* recovery replays.  which picks the one whose steps a behaviour consists *)
(* of; the other stays as it begins.                                       *)
(***************************************************************************)
EXTENDS Recovery

VARIABLES which, w, d, rec, txn, pins, locks, cl, ix, bad
indexvars == <<w, d, rec, txn, pins, locks, cl, ix, bad>>

Plan(p, q) == (1 :> p) @@ (2 :> q)
End == <<"end">>
MCPrograms == {
  [init |-> {"a"}, plan |-> Plan(
     << <<"update", "a">>, <<"update", "a">>, End >>,
     << <<"delete", "a">>, End >>)],
  [init |-> {"a"}, plan |-> Plan(
     << <<"update", "a">>, <<"prepare">>, End >>,
     << <<"update", "a">>, End >>)],
  [init |-> {}, plan |-> Plan(
     << <<"create", "b">>, <<"update", "b">>, End >>,
     << <<"update", "b">>, <<"drop", "b">>, End >>)],
  [init |-> {"a"}, plan |-> Plan(
     << <<"drop", "a">>, <<"prepare">>, End >>,
     << <<"create", "b">>, <<"insert", "b">>, End >>)],
  [init |-> {"a"}, plan |-> Plan(
     << <<"update", "a">>, End >>,
     << <<"rename", "a", "b">>, End >>)]
  }

\* A value B has a second row in the secondary dictionary.
A == <<"A">>
B == <<"B">>
ElemsOf == (A :> {1}) @@ (B :> {1, 2})
Call(op, k, v, k2, u) == [op |-> op, k |-> k, v |-> v, k2 |-> k2, unique |-> u]
put(k, v) == Call("put", k, v, k, TRUE)
del(k) == Call("del", k, A, k, FALSE)
upd(k, k2, v) == Call("update", k, v, k2, TRUE)
One(op, k, v) == Call(op, k, v, k, TRUE)
Does(op) == [op |-> op]
Cm == Does("commit")
Ab == Does("abort")
Bc == Does("begin_child")
Cc == Does("commit_child")
Ac == Does("abort_child")
W(rows, p, q, index, clustering) ==
  [rows |-> rows, progs |-> <<p, q>>, index |-> index, clustering |-> clustering]
IndexWorkloads ==
  {W(1 :> A @@ 2 :> B, <<upd(1, 1, B), Cm>>, <<upd(2, 2, A), del(2), put(2, A), upd(3, 3, A), Ab>>, "exists", FALSE),
   W(1 :> B @@ 2 :> B, <<upd(1, 3, A), upd(2, 2, A), Cm>>, <<put(3, B), Cm>>, "exists", TRUE),
   W(1 :> A @@ 2 :> A, <<One("put_one", 2, B), Cm>>, <<One("del_one", 2, A), One("del_one", 3, A), One("put_one", 3, A), Ab>>, "none", FALSE),
   W(1 :> A @@ 3 :> B, <<upd(1, 2, B), Cm>>, <<upd(3, 3, A), del(2), Ab>>, "build", FALSE),
   W(1 :> A @@ 2 :> B, <<Bc, upd(1, 1, B), Cc, Cm>>, <<del(2), Bc, put(2, A), Ac, Cm>>, "build", TRUE),
   W(1 :> A @@ 2 :> B, <<Bc, upd(1, 1, B), Does("abort_child"), put(3, A), Does("prepare"), Cm>>, <<upd(2, 1, A), Cm>>, "build", FALSE)}

I == INSTANCE Index WITH Keys <- {1, 2, 3}, Elems <- ElemsOf, NHot <- 1,
                         Workloads <- IndexWorkloads

MCInit ==
  /\ which \in {"recovery", "index"}
  /\ Init /\ (which = "index" => s.prog.init = {})
  /\ IF which = "index" THEN I!Init
     ELSE /\ w = 0 /\ d = 0 /\ rec = 0 /\ txn = 0 /\ pins = 0 /\ locks = {} /\ cl = 0 /\ ix = 0
          /\ bad = FALSE
RecoveryStep == which = "recovery" /\ Next /\ UNCHANGED <<which, indexvars>>
IndexStep == which = "index" /\ I!Next /\ UNCHANGED <<which, vars>>
MCNext == RecoveryStep \/ IndexStep
MCSpec == MCInit /\ [][MCNext]_<<which, vars, indexvars>>

\* A recovery leaves the contents that the log's committed transactions made, no file of
\* any other, and just the transactions that were prepared.
RecoveryExact == which = "recovery" => Recovered /\ NoStrayFile /\ TxnsRecovered
\* A secondary dictionary has, for every reader, just the rows of the source, while the
\* indexer builds it and after; who wrote a row, or had it written, holds its lock; and
\* the log replays to what the operations on several dictionaries did.
IndexExact == which = "index" => I!IndexExact /\ I!RowsLocked /\ I!LogReplays
\* No assertion fails: in the replay, the rollback items or the close of a file, and in
\* the indexer, whose locks must be granted and whose transactions must stay pinned.
AssertsHold == NoAssertFails /\ I!NoAssertFails
=============================================================================
