------------------------------- MODULE MCNode -------------------------------
(***************************************************************************)
(* What a node is made of, for TLC, one at a time: the rows of a basement, *)
(* the pivots, the messages for a child, a whole node with its block, and  *)
(* the nodes of rollback logs.  which picks the one a behaviour is about.  *)
(***************************************************************************)
EXTENDS Integers, Sequences, TLC

CONSTANTS Txns, MaxOps, MaxMsgs, MaxChanges, Checkpoints

VARIABLES which, bn, ref, pk, pref, bnc, mref,
          node, ndd, clone, disk, nref, changes, crashed, up,
          roll, logs, rdisk, rclone, rcache, hist, applied, asserts, taken
nodevars == <<node, ndd, clone, disk, nref, changes, crashed, up>>
rollvars == <<roll, logs, rdisk, rclone, rcache, hist, applied, asserts, taken>>
vars == <<which, bn, ref, pk, pref, bnc, mref, nodevars, rollvars>>

\* Keys of one length and of others, leaf entries that grow and shrink.
B == INSTANCE BnData WITH
       BnKeys <- 1 .. 6, KeyLen <- <<8, 8, 3, 8, 1, 8>>,
       Leaves <- {[id |-> 1, size |-> 3], [id |-> 2, size |-> 9]},
       Leaf <- [k \in 1 .. 6 |-> [id |-> 3, size |-> 2 + k]],
       Starts <- {{}, {2, 3, 4, 5}, {1, 2, 3, 4, 6}}
P == INSTANCE PivotKeys WITH PivotKeysOf <- 1 .. 5, PivotLen <- <<4, 4, 3, 8, 4>>
M == INSTANCE MsgBuffer WITH
       MsgKeys <- {0, 1, 2}, MsgBytes <- {3, 4}, LeastBuffer <- 8, RbufBytes <- 10
\* Nodes without partitions, with buffers without offsets, and of today; with one
\* partition and with two, whose information fits the part read first or does not.
N == INSTANCE NodeSerialize WITH
       Blocks <- [height : {0, 1}, version : {14, 26, 29},
                  parts : {<< <<0>>, <<1, 2>> >>, << <<0, 1, 2>> >>}],
       Sector <- 16, HeaderMax <- 120, PerBasement <- 2,
       OldMsgs <- << <<1, 2>>, <<0, 2>> >>
\* A child that spills a node and leaves one begun, with its parent and with
\* another root, and three transactions within one another.
R == INSTANCE RollbackLog WITH
       Parent <- <<0, 1, 2, 0>>, MaxEntries <- {<<0, 3, -1, 1>>, <<1, 3, -1, -1>>, <<1, 1, 2, -1>>},
       RollBlocks <- 1 .. 6, WriteBlock <- 15, CacheSize <- 1

Init ==
  /\ which \in {"basement", "pivots", "messages", "node", "rollback"}
  /\ IF which = "basement" THEN B!BnInit ELSE bn = <<>> /\ ref = <<>>
  /\ IF which = "pivots" THEN P!PivotInit ELSE pk = <<>> /\ pref = <<>>
  /\ IF which = "messages" THEN M!BufferInit ELSE bnc = <<>> /\ mref = <<>>
  /\ IF which = "node" THEN N!SerInit
     ELSE /\ node = <<>> /\ ndd = <<>> /\ clone = <<>> /\ disk = <<>> /\ nref = <<>>
          /\ changes = 0 /\ crashed = FALSE /\ up = <<>>
  /\ IF which = "rollback" THEN R!RollInit
     ELSE /\ roll = <<>> /\ logs = <<>> /\ rdisk = <<>> /\ rclone = <<>> /\ rcache = <<>>
          /\ hist = <<>> /\ applied = <<>> /\ asserts = TRUE /\ taken = 0
BasementStep ==
  /\ which = "basement" /\ B!BnNext
  /\ UNCHANGED <<which, pk, pref, bnc, mref, nodevars, rollvars>>
PivotStep ==
  /\ which = "pivots" /\ P!PivotNext
  /\ UNCHANGED <<which, bn, ref, bnc, mref, nodevars, rollvars>>
MessageStep ==
  /\ which = "messages" /\ M!BufferNext
  /\ UNCHANGED <<which, bn, ref, pk, pref, nodevars, rollvars>>
NodeStep ==
  /\ which = "node" /\ N!SerNext
  /\ UNCHANGED <<which, bn, ref, pk, pref, bnc, mref, rollvars>>
RollbackStep ==
  /\ which = "rollback" /\ R!RollNext
  /\ UNCHANGED <<which, bn, ref, pk, pref, bnc, mref, nodevars>>
Next == BasementStep \/ PivotStep \/ MessageStep \/ NodeStep \/ RollbackStep
Spec == Init /\ [][Next]_vars

\* A basement holds the rows it was given and finds them (bndata.cc, dmt.cc); its pools
\* are never asked for more than they hold, and its sizes are exact.  Through every change
\* of format the pivots are the keys given (pivotkeys.cc).  The messages are in order and
\* the three indexes divide them (msg_buffer.cc).
NodeHolds ==
  /\ which = "basement" => B!BasementHolds /\ B!BasementSpace
  /\ which = "pivots" => P!PivotsHold
  /\ which = "messages" => M!BufferIndexed
\* Every partition of a node can be read as it was last made, and made-up MSNs of old
\* messages leave every message to be applied, in order (ft_node-serialize.cc).  A
\* transaction that ends applies everything once, the last first (rollback-apply.cc), and
\* no rollback node is lost or owned twice (rollback_log_node_cache.cc).
NodeStored ==
  /\ which = "node" => N!NodeReadable /\ N!UpgradedMsns
  /\ which = "rollback" => R!RollbackExact /\ R!NodesReturned
=============================================================================
