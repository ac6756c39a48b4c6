------------------------------ MODULE MCMvcc ------------------------------
EXTENDS Mvcc

CONSTANTS t1, t2, t3

Client(type, ro, kids, writes) == [type |-> type, ro |-> ro, kids |-> kids, writes |-> writes]

Writer(writes) == Client("none", FALSE, 0, writes)
Reader == Client("root", TRUE, 0, <<>>)

MCTxn == {t1, t2, t3}

\* A writer, a writer that deletes and a reader; a writer with a child, each
\* with its own snapshot, and a writer that updates the row; a writer and one that
\* updates every row.
MCWorkloads ==
  {(t1 :> Writer(<<"insert">>)) @@ (t2 :> Writer(<<"delete">>)) @@ (t3 :> Reader),
   (t1 :> Client("child", FALSE, 1, <<"insert_no_overwrite", "delete">>))
     @@ (t2 :> Client("root", FALSE, 0, <<"update">>)),
   (t1 :> Writer(<<"insert">>)) @@ (t2 :> Writer(<<"update_broadcast">>))}
=============================================================================
