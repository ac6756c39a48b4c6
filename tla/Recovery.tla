------------------------------ MODULE Recovery ------------------------------
(***************************************************************************)
(* Transactions on files, the checkpoint of files, rollback log and open   *)
(* transactions, a crash at any point, and the recovery that replays the   *)
(* log (ft/logger/recover.cc, ft/txn/roll.cc, ft/txn/txn.cc, ft/ft.cc).    *)
(* The same operations on files and transactions serve the running system *)
(* and the replay, as they do in the code; they are functions of the state *)
(* `s'.  A file holds one row.  A log sequence number is the place of an   *)
(* entry in the log, which is never trimmed here (Logger has the trimming).*)
(***************************************************************************)
EXTENDS Integers, Sequences, FiniteSets, SequencesExt, FiniteSetsExt

CONSTANTS
  Programs,       \* what the clients do: [init |-> names, plan |-> xid -> ops]
  MaxCrashes,     \* bound on the crashes of a behaviour
  MaxCheckpoints  \* bound on the checkpoints, those of recovery not counted

ASSUME BoundsAssumption == MaxCrashes \in Nat /\ MaxCheckpoints \in Nat

VARIABLES
  s,        \* the system: log, disk and what is in memory
  ck,       \* the checkpoint in progress: <<>> or a tuple of its record
  todo,     \* the operations each transaction has still to do
  rc,       \* recovery: phase, next entry, end of the checkpoint, last lsn
  crashes, checkpoints

vars == <<s, ck, todo, rc, crashes, checkpoints>>

Empty == [x \in {} |-> 0]
Without(f, S) == [x \in (DOMAIN f) \ S |-> f[x]]
With(f, x, v) == [y \in (DOMAIN f) \union {x} |-> IF y = x THEN v ELSE f[y]]
Least(S) == CHOOSE x \in S : \A y \in S : x <= y
Ordered(S) == [i \in 1 .. Cardinality(S) |->
                 CHOOSE x \in S : Cardinality({y \in S : y < x}) = i - 1]
NoFile == 0
Check(S, cond) == IF cond THEN S ELSE [S EXCEPT !.failed = TRUE]

-----------------------------------------------------------------------------
(* The row of a file: a committed value and at most one transaction's own. *)

Blank == [com |-> 0, x |-> 0, v |-> 0]
Outcome(row) == IF row.x = 0 THEN row.com ELSE row.v
NewValue(op, old) == CASE op = "insert" -> 1
                       [] op = "delete" -> 0
                       [] op = "update" -> old + 1

\* A write by x; what a finished transaction left is promoted on the way.
RowPut(row, x, op) ==
  [com |-> IF row.x = x THEN row.com ELSE Outcome(row), x |-> x,
   v |-> NewValue(op, Outcome(row))]
RowAbort(row, x) == IF row.x = x THEN [Blank EXCEPT !.com = row.com] ELSE row
RowCommit(row, x) == IF row.x = x THEN [Blank EXCEPT !.com = row.v] ELSE row

-----------------------------------------------------------------------------
(* The log.  While the log is replayed nothing is written to it.           *)

Write(S, e) == IF S.replaying THEN S ELSE [S EXCEPT !.log = Append(@, e)]
fsync_if_lsn_not_fsynced(S, lsn) ==
  IF S.replaying \/ S.synced >= lsn THEN S ELSE [S EXCEPT !.synced = Len(S.log)]
LastLsn(S) == Len(S.log)
\* The transactions with an entry of kind t in the log.
Ended(log, t) == {log[i].x : i \in {j \in DOMAIN log : log[j].t = t}}

-----------------------------------------------------------------------------
(* Files: names in a directory, a header per file, and the open ones.      *)

Holders(S, fn) == {x \in DOMAIN S.txns : fn \in S.txns[x].fts}
needed(S, fn) ==
  S.files[fn].handle \/ S.files[fn].pinned \/ Holders(S, fn) # {}
OpenOn(S, ino) == {fn \in DOMAIN S.files : S.files[fn].ino = ino}
NamedCf(S, name) == {fn \in DOMAIN S.files : S.files[fn].name = name}
NewIno(S) ==
  Least((1 .. 1 + Cardinality(DOMAIN S.ino)) \ DOMAIN S.ino)
reserve_filenum(S) ==
  Least({fn \in S.nextfn .. S.nextfn + Cardinality(DOMAIN S.files) :
           fn \notin DOMAIN S.files})

\* A file in memory: the header read from disk, or a new one.
Opened(name, ino, h, isNew) ==
  [name |-> name, iname |-> name, ino |-> ino, row |-> h.row, lsn |-> h.lsn,
   dirty |-> isNew, unlink |-> FALSE, skip |-> FALSE, handle |-> TRUE,
   pinned |-> FALSE]

toku_serialize_ft_to(S, ino, lsn, row) ==
  [S EXCEPT !.ino[ino] = [valid |-> TRUE, lsn |-> lsn, row |-> row]]

Unlinked(S, name) ==
  [S EXCEPT !.dir = Without(@, {name}),
            !.ino = IF OpenOn(S, S.dir[name]) = {}
                    THEN Without(@, {S.dir[name]}) ELSE @]

\* Mutant: the close of a file that has nothing to write is not logged.
ft_close_loggedMut(S, fn, valid) ==
  LET f == S.files[fn] IN
  IF valid \/ f.skip \/ ~f.dirty THEN S
  ELSE LET T == Write(S, [t |-> "fclose", fn |-> fn, n |-> f.name])
       IN  fsync_if_lsn_not_fsynced(T, LastLsn(T))
\* ft_close and then toku_cachefile_close: the last reference is gone.
ft_close_logged(S, fn, valid) ==
  LET f == S.files[fn] IN
  IF valid \/ f.skip THEN S
  ELSE LET T == Write(S, [t |-> "fclose", fn |-> fn, n |-> f.name])
       IN  IF f.dirty THEN fsync_if_lsn_not_fsynced(T, LastLsn(T)) ELSE T
close_lsn(S, fn, valid, oplsn) ==
  LET f == S.files[fn] IN
  CASE valid -> IF oplsn < f.lsn THEN f.lsn ELSE oplsn
    [] ~valid /\ f.skip -> 0
    [] ~valid /\ ~f.skip -> LastLsn(S)
ft_close(S, fn, lsn) ==
  IF S.files[fn].dirty
  THEN toku_serialize_ft_to(fsync_if_lsn_not_fsynced(S, lsn), S.files[fn].ino,
                            lsn, S.files[fn].row)
  ELSE S
cachefile_close(S, fn) ==
  LET f == S.files[fn]
      T == [S EXCEPT !.files = Without(@, {fn})]
  IN  CASE ~f.unlink -> T
        [] f.unlink /\ f.name \in DOMAIN T.dir -> Unlinked(T, f.name)
        [] f.unlink /\ f.name \notin DOMAIN T.dir -> Check(T, FALSE)
evict_from_memory(S, fn, valid, oplsn) ==
  LET T == ft_close_logged(S, fn, valid)
  IN  cachefile_close(ft_close(T, fn, close_lsn(T, fn, valid, oplsn)), fn)

\* One reference of fn has been dropped in S.
remove_reference(S, fn) ==
  IF needed(S, fn) THEN S ELSE evict_from_memory(S, fn, FALSE, 0)
handle_close_recovery(S, fn, oplsn) ==
  LET T == [S EXCEPT !.files[fn].handle = FALSE]
  IN  IF needed(T, fn) THEN T ELSE evict_from_memory(T, fn, TRUE, oplsn)

\* ft_handle_open of a client.
handle_open(S, name) ==
  LET ino == S.dir[name]
      fn  == reserve_filenum(S)
  IN  IF OpenOn(S, ino) # {}
      THEN [S EXCEPT !.files[CHOOSE f \in OpenOn(S, ino) : TRUE].handle = TRUE,
                     !.nextfn = fn + 1]
      ELSE [Write(S, [t |-> "fopen", fn |-> fn, n |-> name])
              EXCEPT !.files = With(@, fn, Opened(name, ino, S.ino[ino], FALSE)),
                     !.nextfn = fn + 1]
FnOf(S, name) == CHOOSE fn \in OpenOn(S, S.dir[name]) : TRUE

-----------------------------------------------------------------------------
(* Transactions.                                                           *)

maybe_log_begin_txn_for_write_operation(S, x) ==
  IF x \in DOMAIN S.txns THEN S
  ELSE [Write(S, [t |-> "xbegin", x |-> x])
          EXCEPT !.txns = With(@, x, [prepared |-> FALSE, rb |-> <<>>,
                                      fts |-> {}, for_recovery |-> S.replaying])]
save_rollback(S, x, item) == [S EXCEPT !.txns[x].rb = Append(@, item)]
maybe_note_ft(S, x, fn) == [S EXCEPT !.txns[x].fts = @ \union {fn}]

\* Mutant: an entry is applied although the tree already has it.
ft_maybe_putMut(S, x, fn, op, lsn) ==
  [Write(maybe_note_ft(save_rollback(S, x,
           [k |-> "row", fn |-> fn, del |-> op = "delete"]), x, fn),
         [t |-> op, x |-> x, fn |-> fn, n |-> S.files[fn].name])
     EXCEPT !.files[fn].row = RowPut(@, x, op), !.files[fn].dirty = TRUE]
\* toku_ft_maybe_insert, _delete and _update; lsn is 0 for a client.
ft_maybe_put(S, x, fn, op, lsn) ==
  LET T == Write(maybe_note_ft(save_rollback(S, x,
                   [k |-> "row", fn |-> fn, del |-> op = "delete"]), x, fn),
                 [t |-> op, x |-> x, fn |-> fn, n |-> S.files[fn].name])
  IN  IF lsn # 0 /\ lsn <= T.files[fn].lsn THEN T
      ELSE [T EXCEPT !.files[fn].row = RowPut(@, x, op), !.files[fn].dirty = TRUE]

ft_create(S, x, fn, name) ==
  LET T == Write(save_rollback(S, x, [k |-> "fcreate", fn |-> fn]),
                 [t |-> "fcreate", x |-> x, fn |-> fn, n |-> name])
      i == NewIno(S)
  IN  maybe_note_ft(
        [T EXCEPT !.dir = With(@, name, i),
                  !.ino = With(@, i, [valid |-> FALSE, lsn |-> 0, row |-> Blank]),
                  !.files = With(@, fn, Opened(name, i, [lsn |-> 0, row |-> Blank],
                                               TRUE)),
                  !.nextfn = IF S.replaying THEN @ ELSE fn + 1], x, fn)

unlink_on_commit(S, x, fn) ==
  Write(save_rollback(maybe_note_ft(S, x, fn), x, [k |-> "fdelete", fn |-> fn]),
        [t |-> "fdelete", x |-> x, fn |-> fn, n |-> S.files[fn].name])

Renamed(S, old, new) == [S EXCEPT !.dir = With(Without(@, {old}), new, @[old])]
rename_iname(S, x, old, new) ==
  LET cfs == NamedCf(S, old)
      T   == [S EXCEPT !.files = [fn \in DOMAIN @ |->
                IF fn \in cfs THEN [@[fn] EXCEPT !.name = new] ELSE @[fn]]]
      U   == Write(save_rollback(T, x, [k |-> "frename", n |-> old, m |-> new]),
                   [t |-> "frename", x |-> x, n |-> old, m |-> new,
                    fn |-> IF cfs = {} THEN NoFile ELSE CHOOSE f \in cfs : TRUE])
  IN  Renamed(U, old, new)

\* do_insertion: the message that ends x's write in the row of fn.
do_insertion(S, x, fn, row, lsn) ==
  IF fn \notin S.txns[x].fts THEN Check(S, S.txns[x].for_recovery)
  ELSE IF lsn # 0 /\ lsn <= S.files[fn].lsn THEN S
  ELSE [S EXCEPT !.files[fn].row = row, !.files[fn].dirty = TRUE]

commit_fdelete(S, x, fn) ==
  IF fn \notin DOMAIN S.files THEN Check(S, S.txns[x].for_recovery)
  ELSE [fsync_if_lsn_not_fsynced(S, LastLsn(S)) EXCEPT !.files[fn].unlink = TRUE]
\* Mutant: the file is not unlinked with the transaction that made it.
rollback_fcreateMut(S, x, fn) ==
  IF fn \notin DOMAIN S.files THEN S ELSE [S EXCEPT !.files[fn].skip = TRUE]
rollback_fcreate(S, x, fn) ==
  IF fn \notin DOMAIN S.files THEN S
  ELSE [S EXCEPT !.files[fn].unlink = TRUE, !.files[fn].skip = TRUE]
rollback_frename(S, x, old, new) ==
  LET cfs == NamedCf(S, new)
      T == CASE new \in DOMAIN S.dir /\ old \in DOMAIN S.dir ->
                  Renamed(Unlinked(S, old), new, old)
             [] new \in DOMAIN S.dir /\ old \notin DOMAIN S.dir ->
                  Renamed(S, new, old)
             [] new \notin DOMAIN S.dir ->
                  Check(S, old \in DOMAIN S.dir \/ S.txns[x].for_recovery)
  IN  [T EXCEPT !.files = [fn \in DOMAIN @ |->
         IF fn \in cfs THEN [@[fn] EXCEPT !.name = old, !.skip = TRUE] ELSE @[fn]]]

CommitItem(S, x, it, lsn) ==
  CASE it.k = "row" /\ it.del /\ it.fn \in DOMAIN S.files ->
         do_insertion(S, x, it.fn, RowCommit(S.files[it.fn].row, x), lsn)
    [] it.k = "row" /\ it.del /\ it.fn \notin DOMAIN S.files ->
         do_insertion(S, x, it.fn, Blank, lsn)
    [] it.k = "row" /\ ~it.del -> S
    [] it.k = "fcreate" -> S
    [] it.k = "fdelete" -> commit_fdelete(S, x, it.fn)
    [] it.k = "frename" -> S
AbortItem(S, x, it, lsn) ==
  CASE it.k = "row" /\ it.fn \in DOMAIN S.files ->
         do_insertion(S, x, it.fn, RowAbort(S.files[it.fn].row, x), lsn)
    [] it.k = "row" /\ it.fn \notin DOMAIN S.files ->
         do_insertion(S, x, it.fn, Blank, lsn)
    [] it.k = "fcreate" -> rollback_fcreate(S, x, it.fn)
    [] it.k = "fdelete" -> S
    [] it.k = "frename" -> rollback_frename(S, x, it.n, it.m)

\* The rollback log is applied from its newest item to its oldest.
apply_txn(S, x, commit, lsn) ==
  FoldLeft(LAMBDA T, it : IF commit THEN CommitItem(T, x, it, lsn)
                          ELSE AbortItem(T, x, it, lsn),
           S, Reverse(S.txns[x].rb))

\* toku_txn_complete_txn and toku_txn_close_txn: the files are let go.
close_txn(S, x) ==
  FoldLeft(remove_reference, [S EXCEPT !.txns = Without(@, {x})],
           Ordered(S.txns[x].fts))
commit_with_lsn(S, x, lsn) ==
  close_txn(apply_txn(Write(S, [t |-> "xcommit", x |-> x]), x, TRUE, lsn), x)
abort_with_lsn(S, x, lsn) ==
  close_txn(apply_txn(Write(S, [t |-> "xabort", x |-> x]), x, FALSE, lsn), x)
prepare_txn(S, x) ==
  Write([S EXCEPT !.txns[x].prepared = TRUE], [t |-> "xprepare", x |-> x])

-----------------------------------------------------------------------------
(* The clients.                                                            *)

IsUp == rc.phase = "up"
Live == DOMAIN s.txns
Concerns(it, fn, name) ==
  \/ it.k \in {"fcreate", "fdelete"} /\ it.fn = fn
  \/ it.k = "frename" /\ name \in {it.n, it.m}
\* The directory has the file and its row locks admit x: no other live
\* transaction made, dropped or renamed it, and its making was not lost.
MayUse(S, x, name) ==
  /\ OpenOn(S, S.dir[name]) # {} \/ S.ino[S.dir[name]].valid
  /\ \A fn \in OpenOn(S, S.dir[name]) : ~S.files[fn].unlink
  /\ \A y \in (DOMAIN S.txns) \ {x} : \A i \in DOMAIN S.txns[y].rb :
       \A fn \in OpenOn(S, S.dir[name]) \union {NoFile} :
          ~Concerns(S.txns[y].rb[i], fn, name)
RowFree(S, x, name) ==
  \A fn \in OpenOn(S, S.dir[name]) : S.files[fn].row.x \notin (DOMAIN S.txns) \ {x}
Exclusive(S, x, name) ==
  \A fn \in OpenOn(S, S.dir[name]) :
     ~S.files[fn].handle /\ Holders(S, fn) \subseteq {x}

Begun(S, x) == maybe_log_begin_txn_for_write_operation(S, x)
WithFile(S, x, name) == handle_open(Begun(S, x), name)

RowOp(x, op, name) ==
  /\ name \in DOMAIN s.dir /\ MayUse(s, x, name) /\ RowFree(s, x, name)
  /\ \E S \in {WithFile(s, x, name)} :
        s' = ft_maybe_put(S, x, FnOf(S, name), op, 0)
CreateOp(x, name) ==
  /\ name \notin DOMAIN s.dir
  /\ \E S \in {Begun(s, x)} : s' = ft_create(S, x, reserve_filenum(S), name)
DropOp(x, name) ==
  /\ name \in DOMAIN s.dir /\ MayUse(s, x, name) /\ Exclusive(s, x, name)
  /\ \E S \in {WithFile(s, x, name)} : \E fn \in {FnOf(S, name)} :
        s' = [unlink_on_commit(S, x, fn) EXCEPT !.files[fn].handle = FALSE]
RenameOp(x, old, new) ==
  /\ old \in DOMAIN s.dir /\ new \notin DOMAIN s.dir
  /\ MayUse(s, x, old) /\ Exclusive(s, x, old)
  /\ s' = rename_iname(Begun(s, x), x, old, new)
PrepareOp(x) == x \in Live /\ s' = prepare_txn(s, x)
\* A client closes the dictionaries it made before it aborts.
MadeOpen(x) ==
  {fn \in DOMAIN s.files : s.files[fn].handle
     /\ \E i \in DOMAIN s.txns[x].rb : s.txns[x].rb[i] = [k |-> "fcreate", fn |-> fn]}
EndOp(x) ==
  /\ x \in Live
  /\ \/ s' = commit_with_lsn(s, x, 0)
     \/ MadeOpen(x) = {} /\ s' = abort_with_lsn(s, x, 0)

Step(x, op) ==
  CASE op[1] \in {"insert", "update", "delete"} -> RowOp(x, op[1], op[2])
    [] op[1] = "create" -> CreateOp(x, op[2])
    [] op[1] = "drop" -> DropOp(x, op[2])
    [] op[1] = "rename" -> RenameOp(x, op[2], op[3])
    [] op[1] = "prepare" -> PrepareOp(x)
    [] op[1] = "end" -> EndOp(x)

Client ==
  /\ IsUp
  /\ \E x \in DOMAIN todo :
       /\ todo[x] # <<>>
       /\ Step(x, Head(todo[x]))
       /\ todo' = [todo EXCEPT ![x] = Tail(@)]
  /\ UNCHANGED <<ck, rc, crashes, checkpoints>>

CloseHandle ==
  /\ IsUp
  /\ \E fn \in DOMAIN s.files :
       /\ s.files[fn].handle
       /\ s' = remove_reference([s EXCEPT !.files[fn].handle = FALSE], fn)
  /\ UNCHANGED <<ck, todo, rc, crashes, checkpoints>>

-----------------------------------------------------------------------------
(* The checkpoint.                                                         *)

log_fassociate(S, fn) ==
  Write(S, [t |-> "fassociate", fn |-> fn, n |-> S.files[fn].name,
            unlink |-> S.files[fn].unlink])
log_open_txn(S, x) ==
  Write(S, [t |-> "xstillopen", x |-> x, fts |-> S.txns[x].fts,
            prepared |-> S.txns[x].prepared])
begin_checkpoint(S) ==
  LET T == FoldLeft(log_open_txn,
             FoldLeft(log_fassociate, Write(S, [t |-> "begin_checkpoint"]),
                      Ordered(DOMAIN S.files)),
             Ordered(DOMAIN S.txns))
  IN  [T EXCEPT !.files = [fn \in DOMAIN @ |->
         [@[fn] EXCEPT !.dirty = FALSE, !.pinned = TRUE]]]

BeginCheckpoint ==
  /\ ck = <<>>
  /\ rc.phase \in {"up", "checkpoint"}
  /\ IsUp => checkpoints < MaxCheckpoints
  /\ s' = begin_checkpoint(s)
  /\ ck' = <<[lsn  |-> LastLsn(s) + 1,
              snap |-> [fn \in DOMAIN s.files |->
                          [row |-> s.files[fn].row, dirty |-> s.files[fn].dirty]],
              left |-> DOMAIN s.files,
              rb   |-> [x \in Live |-> s.txns[x].rb],
              roll |-> TRUE]>>
  /\ checkpoints' = IF IsUp THEN checkpoints + 1 ELSE checkpoints
  /\ UNCHANGED <<todo, rc, crashes>>

ft_checkpoint(S, fn, lsn, snap) ==
  IF snap.dirty
  THEN [toku_serialize_ft_to(fsync_if_lsn_not_fsynced(S, lsn),
                             S.files[fn].ino, lsn, snap.row)
          EXCEPT !.files[fn].lsn = lsn]
  ELSE S
CheckpointFile ==
  /\ ck # <<>>
  /\ \E fn \in ck[1].left :
       /\ s' = ft_checkpoint(s, fn, ck[1].lsn, ck[1].snap[fn])
       /\ ck' = [ck EXCEPT ![1].left = @ \ {fn}]
  /\ UNCHANGED <<todo, rc, crashes, checkpoints>>
\* The rollback file keeps two versions.
CheckpointRollback ==
  /\ ck # <<>> /\ ck[1].roll
  /\ s' = [fsync_if_lsn_not_fsynced(s, ck[1].lsn)
             EXCEPT !.rollback = <<[lsn |-> ck[1].lsn, rb |-> ck[1].rb], @[1]>>]
  /\ ck' = [ck EXCEPT ![1].roll = FALSE]
  /\ UNCHANGED <<todo, rc, crashes, checkpoints>>

end_checkpoint(S, c) ==
  LET T == Write(S, [t |-> "end_checkpoint", begin |-> c.lsn,
                     nfts |-> Cardinality(DOMAIN c.snap),
                     ntxns |-> Cardinality(DOMAIN c.rb)])
  IN  fsync_if_lsn_not_fsynced(T, LastLsn(T))
unpin_by_checkpoint(S, fn) ==
  remove_reference([S EXCEPT !.files[fn].pinned = FALSE], fn)
EndCheckpoint ==
  /\ ck # <<>> /\ ck[1].left = {} /\ ~ck[1].roll
  /\ s' = FoldLeft(unpin_by_checkpoint, end_checkpoint(s, ck[1]),
                   Ordered(DOMAIN ck[1].snap))
  /\ ck' = <<>>
  /\ rc' = [rc EXCEPT !.phase = "up"]
  /\ UNCHANGED <<todo, crashes, checkpoints>>

-----------------------------------------------------------------------------
(* Crash and recovery.                                                     *)

\* What is in memory is gone, and the log beyond what was synced may be.
\* A client's transaction ends with it, unless it was prepared.
Crash ==
  /\ crashes < MaxCrashes /\ rc.phase # "backward"
  /\ \E n \in s.synced .. Len(s.log) :
       /\ s' = [s EXCEPT !.log = SubSeq(@, 1, n), !.synced = n,
                         !.files = Empty, !.txns = Empty, !.nextfn = 1,
                         !.ino = [i \in {s.dir[nm] : nm \in DOMAIN s.dir} |-> @[i]],
                         !.replaying = TRUE, !.nfts = 0, !.ntxns = 0]
       /\ todo' = [x \in DOMAIN todo |->
            CASE x \in Ended(SubSeq(s.log, 1, n), "xprepare") -> <<<<"end">>>>
              [] x \notin Ended(s.log, "xbegin") -> todo[x]
              [] OTHER -> <<>>]
  /\ ck' = <<>>
  /\ rc' = [phase |-> "backward", i |-> 0, end |-> 0]
  /\ crashes' = crashes + 1
  /\ UNCHANGED checkpoints

\* The backward scan stops at the begin of the last complete checkpoint.
Backward ==
  /\ rc.phase = "backward"
  /\ \E e \in {i \in DOMAIN s.log : s.log[i].t = "end_checkpoint"} :
       /\ \A j \in e + 1 .. Len(s.log) : s.log[j].t # "end_checkpoint"
       /\ rc' = [rc EXCEPT !.phase = "forward", !.i = s.log[e].begin, !.end = e]
  /\ UNCHANGED <<s, ck, todo, crashes, checkpoints>>

\* internal_recover_fopen_or_fcreate of an existing file.
recover_open(S, fn, name) ==
  IF name \notin DOMAIN S.dir THEN S
  ELSE LET ino == S.dir[name] IN
       Check([S EXCEPT !.files = With(@, fn, Opened(name, ino, S.ino[ino], FALSE))],
             S.ino[ino].valid /\ OpenOn(S, ino) = {})
recover_transaction(S, x) ==
  Check(maybe_log_begin_txn_for_write_operation(S, x), x \notin DOMAIN S.txns)

recover_fassociate(S, e, between) ==
  IF between
  THEN LET T == recover_open([Check(S, e.fn \notin DOMAIN S.files)
                                EXCEPT !.nfts = @ + 1], e.fn, e.n)
       IN  IF e.fn \in DOMAIN T.files
           THEN [T EXCEPT !.files[e.fn].unlink = @ \/ e.unlink] ELSE T
  ELSE Check(S, e.fn \in DOMAIN S.files => S.files[e.fn].iname = e.n)

\* The newest version of the rollback log that is not after the checkpoint.
RollbackAt(S, begin) == SelectSeq(S.rollback, LAMBDA h : h.lsn <= begin)
load_txninfo(S, e, begin) ==
  [S EXCEPT !.txns[e.x].rb = RollbackAt(S, begin)[1].rb[e.x],
            !.txns[e.x].fts = {fn \in e.fts : fn \in DOMAIN S.files}]
\* Mutant: a prepared transaction of the checkpoint is recovered as a live one.
recover_xstillopenMut(S, e, between, begin) ==
  IF between
  THEN load_txninfo([recover_transaction(S, e.x) EXCEPT !.ntxns = @ + 1], e, begin)
  ELSE Check(S, e.prepared => e.x \in DOMAIN S.txns /\ S.txns[e.x].prepared)
recover_xstillopen(S, e, between, begin) ==
  IF between
  THEN LET T == load_txninfo([recover_transaction(S, e.x)
                                EXCEPT !.ntxns = @ + 1], e, begin)
       IN  IF e.prepared THEN prepare_txn(T, e.x) ELSE T
  ELSE Check(S, e.prepared => e.x \in DOMAIN S.txns /\ S.txns[e.x].prepared)

recover_fcreate(S, e) ==
  ft_create(Check(IF e.n \in DOMAIN S.dir THEN Unlinked(S, e.n) ELSE S,
                  e.fn \notin DOMAIN S.files), e.x, e.fn, e.n)
recover_fopen(S, e) == recover_open(Check(S, e.fn \notin DOMAIN S.files), e.fn, e.n)
recover_fclose(S, e, lsn) ==
  IF e.fn \notin DOMAIN S.files THEN S
  ELSE handle_close_recovery(Check(S, S.files[e.fn].iname = e.n), e.fn, lsn)
recover_fdelete(S, e) ==
  IF e.fn \in DOMAIN S.files THEN unlink_on_commit(S, e.x, e.fn) ELSE S
recover_frename(S, e) ==
  LET old == e.n \in DOMAIN S.dir
      T == CASE old /\ e.m \in DOMAIN S.dir -> Renamed(Unlinked(S, e.m), e.n, e.m)
             [] old /\ e.m \notin DOMAIN S.dir -> Renamed(S, e.n, e.m)
             [] ~old -> S
      U == IF e.fn \in DOMAIN T.files THEN [T EXCEPT !.files[e.fn].iname = e.m] ELSE T
  IN  IF e.x \in DOMAIN U.txns
      THEN save_rollback(U, e.x, [k |-> "frename", n |-> e.n, m |-> e.m]) ELSE U
recover_enq(S, e, lsn) ==
  IF e.fn \in DOMAIN S.files THEN ft_maybe_put(S, e.x, e.fn, e.t, lsn) ELSE S

NeedsTxn == {"xcommit", "xabort", "xprepare", "fcreate", "fdelete",
             "insert", "update", "delete"}
Replayed(S, e, lsn, between, begin) ==
  IF e.t \in NeedsTxn /\ e.x \notin DOMAIN S.txns THEN Check(S, FALSE)
  ELSE CASE e.t = "begin_checkpoint" -> S
         [] e.t = "fassociate" -> recover_fassociate(S, e, between)
         [] e.t = "xstillopen" -> recover_xstillopen(S, e, between, begin)
         [] e.t = "end_checkpoint" ->
              Check(S, between /\ e.begin = begin /\ e.nfts = S.nfts
                               /\ e.ntxns = S.ntxns)
         [] e.t = "xbegin" -> recover_transaction(S, e.x)
         [] e.t = "xcommit" -> commit_with_lsn(S, e.x, lsn)
         [] e.t = "xabort" -> abort_with_lsn(S, e.x, lsn)
         [] e.t = "xprepare" -> prepare_txn(S, e.x)
         [] e.t = "fcreate" -> recover_fcreate(S, e)
         [] e.t = "fopen" -> recover_fopen(S, e)
         [] e.t = "fclose" -> recover_fclose(S, e, lsn)
         [] e.t = "fdelete" -> recover_fdelete(S, e)
         [] e.t = "frename" -> recover_frename(S, e)
         [] e.t \in {"insert", "update", "delete"} -> recover_enq(S, e, lsn)
         [] e.t = "comment" -> S

\* The replay goes on to the next entry that may change the disk: a crash
\* between the entries before it finds the same disk.
TouchesDisk == {"fcreate", "fclose", "frename", "xcommit", "xabort"}
Stop(i) ==
  Least({j \in i .. Len(s.log) : s.log[j].t \in TouchesDisk} \union {Len(s.log)})
Forward ==
  /\ rc.phase = "forward" /\ rc.i <= Len(s.log)
  /\ \E j \in {Stop(rc.i)} :
       /\ s' = FoldLeft(LAMBDA S, i : Replayed(S, s.log[i], i, i <= rc.end,
                                              s.log[rc.end].begin),
                        s, [k \in 1 .. j + 1 - rc.i |-> rc.i + k - 1])
       /\ rc' = [rc EXCEPT !.i = j + 1]
  /\ UNCHANGED <<ck, todo, crashes, checkpoints>>

\* The log is written again from here on; i keeps the last lsn replayed.
RestartLogger ==
  /\ rc.phase = "forward" /\ rc.i > Len(s.log)
  /\ s' = [s EXCEPT !.replaying = FALSE]
  /\ rc' = [rc EXCEPT !.phase = "abort", !.i = Len(s.log)]
  /\ UNCHANGED <<ck, todo, crashes, checkpoints>>

Unprepared == {x \in Live : ~s.txns[x].prepared}
AbortLiveTxn ==
  /\ rc.phase = "abort" /\ Unprepared # {}
  /\ s' = abort_with_lsn(s, Least(Unprepared), 0)
  /\ UNCHANGED <<ck, todo, rc, crashes, checkpoints>>

Handles == {fn \in DOMAIN s.files : s.files[fn].handle}
CloseDictionary ==
  /\ rc.phase = "abort" /\ Unprepared = {} /\ Handles # {}
  /\ s' = handle_close_recovery(s, Max(Handles), rc.i)
  /\ UNCHANGED <<ck, todo, rc, crashes, checkpoints>>
LogRecovered ==
  /\ rc.phase = "abort" /\ Unprepared = {} /\ Handles = {}
  /\ \E T \in {Write(s, [t |-> "comment"])} :
       s' = fsync_if_lsn_not_fsynced(T, LastLsn(T))
  /\ rc' = [rc EXCEPT !.phase = "checkpoint"]
  /\ UNCHANGED <<ck, todo, crashes, checkpoints>>

-----------------------------------------------------------------------------

Init ==
  \E p \in Programs :
    /\ todo = p.plan
    /\ \E dir \in [p.init -> 1 .. Cardinality(p.init)] :
         /\ \A a, b \in p.init : a # b => dir[a] # dir[b]
         /\ s = [log |-> <<[t |-> "begin_checkpoint"],
                           [t |-> "end_checkpoint", begin |-> 1, nfts |-> 0,
                            ntxns |-> 0]>>,
                 synced |-> 2, prog |-> p, dir |-> dir,
                 ino |-> [i \in 1 .. Cardinality(p.init) |->
                            [valid |-> TRUE, lsn |-> 0, row |-> Blank]],
                 rollback |-> <<[lsn |-> 1, rb |-> Empty],
                                [lsn |-> 0, rb |-> Empty]>>,
                 files |-> Empty, txns |-> Empty, nextfn |-> 1,
                 replaying |-> FALSE, failed |-> FALSE, nfts |-> 0, ntxns |-> 0]
    /\ ck = <<>>
    /\ rc = [phase |-> "up", i |-> 0, end |-> 0]
    /\ crashes = 0 /\ checkpoints = 0

Next ==
  \/ Client \/ CloseHandle
  \/ BeginCheckpoint \/ CheckpointFile \/ CheckpointRollback \/ EndCheckpoint
  \/ Crash \/ Backward \/ Forward \/ RestartLogger \/ AbortLiveTxn
  \/ CloseDictionary \/ LogRecovered

Spec == Init /\ [][Next]_vars

-----------------------------------------------------------------------------
(* What the log means: the effects of its committed transactions, in order.*)

Effect(val, e) ==
  CASE e.t = "fcreate" -> With(val, e.n, 0)
    [] e.t = "fdelete" -> Without(val, {e.n})
    [] e.t = "frename" -> With(Without(val, {e.n}), e.m, val[e.n])
    [] e.t \in {"insert", "update", "delete"} ->
         [val EXCEPT ![e.n] = NewValue(e.t, @)]
Effects == {"fcreate", "fdelete", "frename", "insert", "update", "delete"}
Meaning(log, init, committed) ==
  FoldLeft(LAMBDA val, e : IF e.t \in Effects /\ e.x \in committed
                           THEN Effect(val, e) ELSE val,
           [n \in init |-> 0], SelectSeq(log, LAMBDA e : e.t \in Effects))

CurrentRow(name) ==
  LET ino == s.dir[name] IN
  IF OpenOn(s, ino) # {} THEN s.files[FnOf(s, name)].row ELSE s.ino[ino].row
CurrentValue(name) ==
  LET row == CurrentRow(name) IN IF row.x \in Live THEN row.com ELSE Outcome(row)

\* A name a live transaction has made or renamed.
InFlux(name) ==
  \E x \in Live : \E i \in DOMAIN s.txns[x].rb :
     \E fn \in {f \in DOMAIN s.files : s.files[f].name = name} \union {NoFile} :
        Concerns(s.txns[x].rb[i], fn, name)

\* The files and their values are those of the committed transactions.
ContentsRecovered ==
  IsUp => \E m \in {Meaning(s.log, s.prog.init, Ended(s.log, "xcommit"))} :
    \A n \in DOMAIN m :
      ~InFlux(n) => n \in DOMAIN s.dir /\ CurrentValue(n) = m[n]

\* While the system is up, after a recovery or not, the files are those that
\* the committed transactions of the log leave, with the values they leave:
\* nothing committed is lost, applied twice or left out, and nothing of an
\* aborted transaction shows (the replay of recover.cc with the lsn filters
\* of ft_maybe_insert and do_insertion).
\* Programs that rename files are left out: a rename reaches the disk before
\* its log entry does, and the replay finds an open file by its old name.
NoRename ==
  \A x \in DOMAIN s.prog.plan : \A i \in DOMAIN s.prog.plan[x] :
    s.prog.plan[x][i][1] # "rename"
Recovered == NoRename => ContentsRecovered

\* A file on disk that no committed transaction made, or that one dropped, is
\* still to be unlinked by a close, belongs to a live transaction, or was made
\* by a transaction whose log was lost (commit_fdelete, rollback_fcreate, the
\* unlink bit of fassociate).
NoStrayFile ==
  IsUp => \E m \in {Meaning(s.log, s.prog.init, Ended(s.log, "xcommit"))} :
    \A n \in DOMAIN s.dir :
      \/ n \in DOMAIN m \/ InFlux(n)
      \/ \E fn \in DOMAIN s.files : s.files[fn].name = n /\ s.files[fn].unlink
      \/ \A i \in DOMAIN s.log : s.log[i].t = "fcreate" => s.log[i].n # n

\* The transactions that are live are those the log has begun and not ended,
\* and a recovery ends with just those that were prepared and not ended in the
\* log it replayed: it aborts no prepared transaction and keeps no other.
Unended(log, t) ==
  Ended(log, t) \ (Ended(log, "xcommit") \union Ended(log, "xabort"))
TxnsRecovered ==
  /\ IsUp => Live = Unended(s.log, "xbegin")
  /\ rc.phase = "checkpoint" =>
       /\ Live = Unended(SubSeq(s.log, 1, rc.i), "xprepare")
       /\ \A x \in Live : s.txns[x].prepared

\* No assertion of the replay, of the rollback items or of the close of a file
\* fails, in a first recovery or in one that follows a crash of recovery.
NoAssertFails == ~s.failed
=============================================================================
