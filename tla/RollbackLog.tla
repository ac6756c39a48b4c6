---------------------------- MODULE RollbackLog ----------------------------
(***************************************************************************)
(* Rollback logs (ft/txn/rollback.cc, rollback-apply.cc, rollback-ct-      *)
(* callbacks.cc, rollback_log_node_cache.cc and the rollback part of       *)
(* ft_node-serialize.cc).  What a transaction did is a chain of nodes,     *)
(* each [xid, seq, prev, ents, bytes, dirty] with its entries newest first;*)
(* a full node is spilled and a new one begun.  A child that commits gives *)
(* its entries to its parent: those of its last node as they are, its      *)
(* spilled chain as one entry [inc, num, head, tail].  A transaction that  *)
(* ends goes through its chain, newest entry first.  Nodes are in memory   *)
(* or on disk, and are reused through a cache of unused ones.              *)
(***************************************************************************)
EXTENDS Integers, Sequences, FiniteSets, SequencesExt

CONSTANTS Txns, Parent,   \* Parent[t]: the transaction t is a child of, or 0
          MaxEntries,     \* bound: how many entries the transactions make, a set of
                          \* choices (-1: it never begins)
          RollBlocks,     \* the block numbers
          WriteBlock,     \* write_block_size: what a node holds before it spills
          CacheSize,      \* nodes kept for reuse
          Checkpoints     \* bound: nodes cloned by checkpoints
VARIABLES roll,     \* roll_info of each transaction, its state and its work
          logs,     \* the nodes in memory: <<>> or <<node>>
          rdisk,    \* [alloc, data]: data is <<>> for a block of no bytes
          rclone,   \* <<>> or what a checkpoint is about to write
          rcache,   \* the blocks of unused nodes
          hist,     \* what each transaction is to apply, oldest first
          applied,  \* what it applied
          asserts,  \* no assertion failed
          taken     \* clones made
rvars == <<roll, logs, rdisk, rclone, rcache, hist, applied, asserts, taken>>

None == 0
EntryBytes == 10

-----------------------------------------------------------------------------
(* A node on disk: its data in sub blocks, each compressed by itself.  The *)
(* sizes are scaled: a target of 16 for 512 K, aligned to 2 for 32.        *)

max_sub_blocks == 4
target_sub_block_size == 16
alignment == 2
alignup32(a, b) == ((a + b - 1) \div b) * b
\* <<the size of a sub block, how many>>
choose_sub_block_size(total) ==
  LET k == total \div target_sub_block_size
      n == IF k > max_sub_blocks THEN max_sub_blocks ELSE k
      s == alignup32(total \div n, alignment)
  IN  IF k <= 1 THEN <<total, 1>>
      ELSE <<CHOOSE x \in {s + alignment * i : i \in 0 .. n} :
               x * n >= total /\ \A y \in {s + alignment * i : i \in 0 .. n} :
                                   y * n >= total => x <= y, n>>
set_all_sub_block_sizes(total, size, n) ==
  [i \in 1 .. n |->
     CASE i < n -> size
       [] i = n /\ (n = 1 \/ total - (n - 1) * size > 0) -> total - (n - 1) * size
       [] i = n /\ n > 1 /\ total - (n - 1) * size <= 0 -> 0]
get_sum_uncompressed_size(subs) == FoldFunction(LAMBDA a, b : a + b, 0, subs)

serialize_rollback_log_size(log) == 16 + 8 + 8 + 8 + 8 + 8 + log.bytes
\* The entries are written newest first.
toku_serialize_rollback_log_to_memory_uncompressed(b, log) ==
  LET total == serialize_rollback_log_size(log)
      s     == choose_sub_block_size(total)
  IN  <<[blocknum |-> b, xid |-> log.xid, seq |-> log.seq, prev |-> log.prev,
         bytes |-> log.bytes, ents |-> log.ents, total |-> total,
         subs |-> set_all_sub_block_sizes(total, s[1], s[2])]>>
\* Reading stops with an error at a sub block of no bytes or at a wrong number.
decompress_from_raw_block(data) ==
  /\ \A i \in DOMAIN data.subs : data.subs[i] > 0
  /\ get_sum_uncompressed_size(data.subs) = data.total
rollback_empty_log_init ==
  [xid |-> None, seq |-> 0, prev |-> None, ents |-> <<>>, bytes |-> 0, dirty |-> TRUE]
rollback_log_is_unused(log) == log.xid = None
\* Each entry read is put behind the oldest so far.
deserialize_rollback_log_from_rbuf(data) ==
  [xid |-> data.xid, seq |-> data.seq, prev |-> data.prev,
   ents |-> FoldLeft(Append, <<>>, data.ents), bytes |-> data.bytes, dirty |-> FALSE]
ReadsBack(b) ==
  rdisk[b].data = <<>>
    \/ (decompress_from_raw_block(rdisk[b].data[1]) /\ rdisk[b].data[1].blocknum = b)
toku_deserialize_rollback_log_from(b) ==
  IF rdisk[b].data = <<>> THEN rollback_empty_log_init
  ELSE deserialize_rollback_log_from_rbuf(rdisk[b].data[1])

\* A node of the cachetable, read if it is not in memory.
PinOk(b) == rdisk[b].alloc /\ (logs[b] # <<>> \/ ReadsBack(b))
toku_get_and_pin_rollback_log(b) ==
  IF logs[b] # <<>> THEN logs[b][1] ELSE toku_deserialize_rollback_log_from(b)

-----------------------------------------------------------------------------
(* The cache of unused nodes.                                              *)

CanGive == Len(rcache) < CacheSize
\* Where the last node of a transaction goes: back to the cache, or removed.
\* Mutant: the node is kept for reuse with what it holds.
give_rollback_log_nodeMut(b) ==
  rcache' = Append(rcache, b) /\ UNCHANGED <<logs, rdisk, rclone>>
give_rollback_log_node(b) ==
  /\ rcache' = Append(rcache, b)
  /\ logs' = [logs EXCEPT ![b] = <<rollback_empty_log_init>>]
  /\ UNCHANGED <<rdisk, rclone>>
toku_rollback_log_unpin_and_remove(b) ==
  /\ rclone[b] = <<>> \* a clone that is being written is waited for
  /\ logs' = [logs EXCEPT ![b] = <<>>]
  /\ rdisk' = [rdisk EXCEPT ![b] = [alloc |-> FALSE, data |-> <<>>]]
  /\ UNCHANGED <<rcache, rclone>>

-----------------------------------------------------------------------------
(* New entries.                                                            *)

R(t) == roll[t]
txn_has_current_rollback_log(t) == R(t).current # None
txn_has_spilled_rollback_logs(t) == R(t).tail # None
FreeBlock == CHOOSE b \in RollBlocks : ~rdisk[b].alloc /\ \A c \in RollBlocks :
                                         ~rdisk[c].alloc => b <= c
rollback_initialize_for_txn(t) ==
  [rollback_empty_log_init EXCEPT !.xid = t, !.seq = R(t).num, !.prev = R(t).tail]
toku_rollback_verify_contents(log, xid, seq) == log.xid = xid /\ log.seq = seq

\* The node a new entry of t goes to: [b, log, cache, fresh, ok].
toku_get_and_pin_rollback_log_for_new_entry(t) ==
  CASE txn_has_current_rollback_log(t) ->
         LET log == toku_get_and_pin_rollback_log(R(t).current)
         IN  [b |-> R(t).current, log |-> log, cache |-> rcache, fresh |-> FALSE,
              ok |-> PinOk(R(t).current)
                       /\ toku_rollback_verify_contents(log, t, R(t).num - 1)]
    [] ~txn_has_current_rollback_log(t) /\ ~txn_has_spilled_rollback_logs(t) /\ rcache # <<>> ->
         [b |-> Head(rcache), log |-> rollback_initialize_for_txn(t), cache |-> Tail(rcache),
          fresh |-> TRUE,
          ok |-> PinOk(Head(rcache))
                   /\ rollback_log_is_unused(toku_get_and_pin_rollback_log(Head(rcache)))]
    [] ~txn_has_current_rollback_log(t) /\ (txn_has_spilled_rollback_logs(t) \/ rcache = <<>>) ->
         [b |-> FreeBlock, log |-> rollback_initialize_for_txn(t), cache |-> rcache,
          fresh |-> TRUE, ok |-> TRUE]

\* roll_info once the node b with so many bytes is unpinned.
toku_maybe_spill_rollbacks(r, b, bytes) ==
  IF bytes > WriteBlock
  THEN [r EXCEPT !.head = IF r.tail = None THEN b ELSE @, !.tail = b, !.current = None]
  ELSE [r EXCEPT !.current = b]

Children(t) == {c \in Txns : Parent[c] = t}
Free(t) == R(t).state = "live" /\ \A c \in Children(t) : R(c).state \in {"none", "done"}

begin(t) ==
  /\ R(t).state = "none" /\ (Parent[t] # 0 => R(Parent[t]).state = "live"
                               /\ \A c \in Children(Parent[t]) : R(c).state \in {"none", "done"})
  /\ roll' = [roll EXCEPT ![t].state = "live"]
  /\ UNCHANGED <<logs, rdisk, rclone, rcache, hist, applied, asserts, taken>>
save_rollback(t) ==
  /\ Free(t) /\ R(t).left > 0
  /\ \E g \in {toku_get_and_pin_rollback_log_for_new_entry(t)} :
       LET e == [id |-> <<t, R(t).left>>, inc |-> None, num |-> 0, head |-> None, tail |-> None]
           r == toku_maybe_spill_rollbacks([R(t) EXCEPT !.num = IF g.fresh THEN @ + 1 ELSE @],
                                           g.b, g.log.bytes + EntryBytes)
       IN  /\ logs' = [logs EXCEPT ![g.b] = <<[g.log EXCEPT !.ents = <<e>> \o @,
                                                !.bytes = @ + EntryBytes, !.dirty = TRUE]>>]
           /\ roll' = [roll EXCEPT ![t] = [r EXCEPT !.left = @ - 1]]
           /\ rdisk' = [rdisk EXCEPT ![g.b].alloc = TRUE]
           /\ rcache' = g.cache /\ asserts' = (asserts /\ g.ok)
           /\ hist' = [hist EXCEPT ![t] = Append(@, e.id)]
  /\ UNCHANGED <<rclone, applied, taken>>

-----------------------------------------------------------------------------
(* A child commits.                                                        *)

\* Its spilled chain becomes an entry of the parent ...
\* Mutant: the node in progress is counted with the spilled ones.
num_nodesMut(t) == R(t).num
num_nodes(t) == IF txn_has_current_rollback_log(t) THEN R(t).num - 1 ELSE R(t).num
commit_spilled(t) ==
  /\ Free(t) /\ Parent[t] # 0 /\ txn_has_spilled_rollback_logs(t)
  /\ \E g \in {toku_get_and_pin_rollback_log_for_new_entry(Parent[t])} :
       LET e == [id |-> <<>>, inc |-> t, num |-> num_nodes(t), head |-> R(t).head,
                 tail |-> R(t).tail]
           p == Parent[t]
           r == toku_maybe_spill_rollbacks([R(p) EXCEPT !.num = IF g.fresh THEN @ + 1 ELSE @],
                                           g.b, g.log.bytes + EntryBytes)
       IN  /\ logs' = [logs EXCEPT ![g.b] = <<[g.log EXCEPT !.ents = <<e>> \o @,
                                                !.bytes = @ + EntryBytes, !.dirty = TRUE]>>]
           /\ roll' = [roll EXCEPT ![p] = r,
                                   ![t].head = None, ![t].tail = None, ![t].state = "committing"]
           /\ rdisk' = [rdisk EXCEPT ![g.b].alloc = TRUE]
           /\ rcache' = g.cache /\ asserts' = (asserts /\ g.ok)
  /\ UNCHANGED <<rclone, hist, applied, taken>>
\* ... and the entries of its current node are linked in.
commit_current(t) ==
  /\ Parent[t] # 0
  /\ R(t).state = "committing" \/ (Free(t) /\ ~txn_has_spilled_rollback_logs(t))
  /\ txn_has_current_rollback_log(t)
  /\ \E g \in {toku_get_and_pin_rollback_log_for_new_entry(Parent[t])} :
       \E b \in {R(t).current} : \E log \in {toku_get_and_pin_rollback_log(b)} :
       LET p    == Parent[t]
           full == Len(g.cache) >= CacheSize
           r    == toku_maybe_spill_rollbacks([R(p) EXCEPT !.num = IF g.fresh THEN @ + 1 ELSE @],
                                              g.b, g.log.bytes + log.bytes)
       IN  /\ full => rclone[b] = <<>>
           /\ logs' = [logs EXCEPT
                 ![g.b] = <<[g.log EXCEPT !.ents = log.ents \o @, !.bytes = @ + log.bytes,
                                          !.dirty = TRUE]>>,
                 ![b] = IF full THEN <<>> ELSE <<rollback_empty_log_init>>]
           /\ rcache' = IF full THEN g.cache ELSE Append(g.cache, b)
           /\ rdisk' = [rdisk EXCEPT ![g.b].alloc = TRUE,
                                     ![b] = IF full THEN [alloc |-> FALSE, data |-> <<>>] ELSE @]
           /\ roll' = [roll EXCEPT ![p] = r, ![t].current = None, ![t].state = "done"]
           /\ hist' = [hist EXCEPT ![p] = @ \o hist[t]]
           /\ asserts' = (asserts /\ g.ok /\ PinOk(b)
                                  /\ toku_rollback_verify_contents(log, t, R(t).num - 1))
  /\ UNCHANGED <<rclone, applied, taken>>
commit_nothing(t) ==
  /\ Parent[t] # 0 /\ ~txn_has_current_rollback_log(t)
  /\ R(t).state = "committing" \/ (Free(t) /\ ~txn_has_spilled_rollback_logs(t))
  /\ roll' = [roll EXCEPT ![t].state = "done"]
  /\ hist' = [hist EXCEPT ![Parent[t]] = @ \o hist[t]]
  /\ UNCHANGED <<logs, rdisk, rclone, rcache, applied, asserts, taken>>

-----------------------------------------------------------------------------
(* A root commits, or a transaction aborts: a stack of chains, each        *)
(* [xid, next, last, head, found, pin, ents].                              *)

Frame(xid, from, num, head) ==
  [xid |-> xid, next |-> from, last |-> num, head |-> head, found |-> FALSE, pin |-> None,
   ents |-> <<>>]
apply_txn(t) ==
  /\ Free(t)
  /\ roll' = [roll EXCEPT ![t].state = "applying",
                          ![t].work = <<Frame(t, IF txn_has_current_rollback_log(t)
                                                 THEN R(t).current ELSE R(t).tail,
                                              R(t).num, R(t).head)>>]
  /\ UNCHANGED <<logs, rdisk, rclone, rcache, hist, applied, asserts, taken>>
Top(t) == R(t).work[1]
Applying(t) == R(t).state = "applying" /\ R(t).work # <<>>
apply_node(t) ==
  /\ Applying(t) /\ Top(t).pin = None /\ Top(t).next # None
  /\ \E b \in {Top(t).next} : \E log \in {toku_get_and_pin_rollback_log(b)} :
       /\ asserts' = (asserts /\ PinOk(b)
                        /\ toku_rollback_verify_contents(log, Top(t).xid, Top(t).last - 1))
       /\ logs' = [logs EXCEPT ![b] = <<log>>]
       /\ roll' = [roll EXCEPT ![t].work[1] = [@ EXCEPT !.pin = b, !.last = log.seq,
                                                        !.ents = log.ents]]
  /\ UNCHANGED <<rdisk, rclone, rcache, hist, applied, taken>>
\* An entry is undone or done for good; a chain of a child is gone through first.
apply_item(t) ==
  /\ Applying(t) /\ Top(t).pin # None /\ Top(t).ents # <<>>
  /\ LET e    == Head(Top(t).ents)
         rest == [R(t).work EXCEPT ![1].ents = Tail(@)]
     IN  /\ roll' = [roll EXCEPT ![t].work =
                       IF e.inc = None THEN rest
                       ELSE <<Frame(e.inc, e.tail, e.num, e.head)>> \o rest]
         /\ applied' = [applied EXCEPT ![t] = IF e.inc = None THEN Append(@, e.id) ELSE @]
  /\ UNCHANGED <<logs, rdisk, rclone, rcache, hist, asserts, taken>>
\* The node is done with.  roll_info forgets it; only the last node of the
\* transaction's own chain may be given to the cache.
apply_node_done(t) ==
  /\ Applying(t) /\ Top(t).pin # None /\ Top(t).ents = <<>>
  /\ LET f    == Top(t)
         log  == logs[f.pin][1]
         found == f.found \/ f.pin = f.head
         own  == Len(R(t).work) = 1
         g    == [f EXCEPT !.pin = None, !.next = log.prev, !.found = found]
         r    == [R(t) EXCEPT !.work[1] = g]
     IN  /\ asserts' = (asserts /\ (f.pin = f.head => ~f.found /\ log.seq = 0)
                                /\ (found => log.prev = None))
         /\ roll' = [roll EXCEPT ![t] =
              IF ~own THEN r
              ELSE [r EXCEPT !.current = None,
                             !.tail = IF R(t).current = f.pin THEN @ ELSE log.prev,
                             !.head = IF found THEN None ELSE @]]
         /\ IF own /\ log.prev = None /\ CanGive THEN give_rollback_log_node(f.pin)
            ELSE toku_rollback_log_unpin_and_remove(f.pin)
  /\ UNCHANGED <<hist, applied, taken>>
apply_done(t) ==
  /\ Applying(t) /\ Top(t).pin = None /\ Top(t).next = None
  /\ roll' = [roll EXCEPT ![t].work = Tail(@),
                          ![t].state = IF Len(R(t).work) = 1 THEN "done" ELSE @]
  /\ UNCHANGED <<logs, rdisk, rclone, rcache, hist, applied, asserts, taken>>

-----------------------------------------------------------------------------
(* The cachetable.                                                         *)

Pinned(b) == \E t \in Txns : \E i \in DOMAIN R(t).work : R(t).work[i].pin = b
Written(b, log) ==
  IF rollback_log_is_unused(log) THEN <<>>
  ELSE toku_serialize_rollback_log_to_memory_uncompressed(b, log)
toku_rollback_flush_callback(b) ==
  /\ logs[b] # <<>> /\ rclone[b] = <<>> /\ ~Pinned(b)
  /\ rdisk' = [rdisk EXCEPT ![b].data = IF logs[b][1].dirty THEN Written(b, logs[b][1]) ELSE @]
  /\ logs' = [logs EXCEPT ![b] = <<>>]
  /\ UNCHANGED <<roll, rclone, rcache, hist, applied, asserts, taken>>
toku_rollback_clone_callback(b) ==
  /\ logs[b] # <<>> /\ rclone[b] = <<>> /\ ~Pinned(b) /\ logs[b][1].dirty
  /\ taken < Checkpoints /\ taken' = taken + 1
  /\ rclone' = [rclone EXCEPT ![b] = <<Written(b, logs[b][1])>>]
  /\ logs' = [logs EXCEPT ![b][1].dirty = FALSE]
  /\ UNCHANGED <<roll, rdisk, rcache, hist, applied, asserts>>
flush_clone(b) ==
  /\ rclone[b] # <<>>
  /\ rdisk' = [rdisk EXCEPT ![b].data = rclone[b][1]]
  /\ rclone' = [rclone EXCEPT ![b] = <<>>]
  /\ UNCHANGED <<roll, logs, rcache, hist, applied, asserts, taken>>

-----------------------------------------------------------------------------
RollInit ==
  /\ \E n \in MaxEntries :
       roll = [t \in Txns |-> [state |-> IF n[t] < 0 THEN "done" ELSE "none", current |-> None,
                               head |-> None, tail |-> None, num |-> 0, left |-> n[t],
                               work |-> <<>>]]
  /\ logs = [b \in RollBlocks |-> <<>>]
  /\ rdisk = [b \in RollBlocks |-> [alloc |-> FALSE, data |-> <<>>]]
  /\ rclone = [b \in RollBlocks |-> <<>>]
  /\ rcache = <<>> /\ asserts = TRUE /\ taken = 0
  /\ hist = [t \in Txns |-> <<>>] /\ applied = [t \in Txns |-> <<>>]
RollNext ==
  \/ \E t \in Txns :
       \/ begin(t) \/ save_rollback(t)
       \/ commit_spilled(t) \/ commit_current(t) \/ commit_nothing(t)
       \/ apply_txn(t) \/ apply_node(t) \/ apply_item(t) \/ apply_node_done(t) \/ apply_done(t)
  \/ \E b \in RollBlocks :
       toku_rollback_flush_callback(b) \/ toku_rollback_clone_callback(b) \/ flush_clone(b)

\* A transaction that ends applies what it and its committed children did, each thing
\* once, the last first, wherever the nodes were meanwhile; no assertion of the chain
\* (transaction, sequence, head) fails (rollback-apply.cc, apply_txn).
RollbackExact ==
  /\ asserts
  /\ \A t \in Txns :
       /\ IsPrefix(applied[t], Reverse(hist[t]))
       /\ R(t).state = "done" /\ Parent[t] = 0 => applied[t] = Reverse(hist[t])

\* No node is lost or owned twice: when nothing is under way the blocks in use are
\* those of the cache, which are unused (rollback_log_node_cache.cc).
NodesReturned ==
  /\ Cardinality(Range(rcache)) = Len(rcache)
  /\ \A b \in Range(rcache) :
       rdisk[b].alloc /\ rollback_log_is_unused(toku_get_and_pin_rollback_log(b))
  /\ (\A t \in Txns : R(t).state \in {"none", "done"}) =>
       {b \in RollBlocks : rdisk[b].alloc} = Range(rcache)
=============================================================================
