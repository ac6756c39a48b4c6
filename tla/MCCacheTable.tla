---------------------------- MODULE MCCacheTable ----------------------------
EXTENDS CacheTable, TLC

CONSTANTS n1, n2, n3, t1, t2

MCLeaves == {n2, n3}
MCClients == {t1, t2}

Work(kids, ops1, ops2) == [kids |-> kids, ops |-> (t1 :> ops1) @@ (t2 :> ops2)]

\* With one leaf a flush may split it, with two it may merge them.
MCWorks ==
  {Work({n2}, <<"inject", "flush">>, <<>>), Work({n2}, <<"inject">>, <<"flush">>),
   Work({n2}, <<"inject">>, <<"clean">>), Work({n2, n3}, <<"inject">>, <<"flush">>),
   Work({n2, n3}, <<"flush">>, <<"query">>)}
=============================================================================
