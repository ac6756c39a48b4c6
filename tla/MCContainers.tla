---------------------------- MODULE MCContainers ----------------------------
(***************************************************************************)
(* The tree, and the containers it and its neighbours are built from, for  *)
(* TLC: which picks the one whose steps a behaviour consists of, the       *)
(* others stay as they begin.                                              *)
(***************************************************************************)
EXTENDS Tree, TLC

CONSTANTS Systems, OmtKeys, LockThreads, NodeIds, MaxVal, Alignment, Sizes, BlockBound

\* --- the trees, and the operations on each

Op(type, key, val) == [type |-> type, key |-> key, val |-> val]
Ins(k, v) == Op("insert", k, v)
Del(k) == Op("delete", k, 1)
Upd(k) == Op("update", k, 1)
UpdAll == Op("update_broadcast", 0, 0)
Optimize == Op("optimize", 0, 0)

Rows(S) == [k \in 1..MaxKey |-> IF k \in S THEN 1 ELSE 0]
Bn(S) == Basement(Rows(S), 0)

\* A leaf as it was read from disk.
L(piv, sets) ==
  LET bns == [i \in DOMAIN sets |-> Bn(sets[i])]
  IN [Leaf(piv, bns, 0) EXCEPT !.dirty = FALSE, !.disk = bns]
N(h, piv, kids) == Nonleaf(h, piv, kids, [i \in DOMAIN kids |-> <<>>], 0)
T(nodes) == [b \in Blocks |-> IF b \in DOMAIN nodes THEN nodes[b] ELSE Free]

\* Three levels: the second leaf has two basements.
Tall == T(<<N(2, <<4>>, <<2, 3>>), N(1, <<1>>, <<4, 5>>), N(1, <<>>, <<6>>),
            L(<<>>, <<{1}>>), L(<<3>>, <<{2, 3}, {4}>>), L(<<>>, <<{5}>>)>>)
\* Two levels and three leaves.
Wide == T(<<N(1, <<2, 4>>, <<2, 3, 4>>), L(<<1>>, <<{1}, {2}>>), L(<<>>, <<{3}>>), L(<<>>, <<{5}>>)>>)
\* Three levels: the first inner node has three leaves.
Bushy == T(<<N(2, <<3>>, <<2, 3>>), N(1, <<1, 2>>, <<4, 5, 6>>), N(1, <<>>, <<7>>),
             L(<<>>, <<{1}>>), L(<<>>, <<{2}>>), L(<<>>, <<{3}>>), L(<<>>, <<{5}>>)>>)
\* A root that is a leaf.
Small == T(<<L(<<>>, <<{2, 4}>>)>>)

\* sizes: rows of a leaf, children of a node, rows of a basement; runs: cleaner, hot, searches,
\* queries, writes and evictions
C(nd, sizes, ops, runs) ==
  [node |-> nd, nodesize |-> sizes[1], fanout |-> sizes[2], bnsize |-> sizes[3], ops |-> ops,
   cleaner |-> runs[1], hot |-> runs[2], search |-> IF runs[3] = 1 THEN <<1>> ELSE <<>>,
   reads |-> runs[4], io |-> runs[5]]

MCConfigs ==
  {C(Tall, <<4, 4, 2>>, <<Upd(3), UpdAll>>, <<1, 0, 0, 2, 2>>),
   C(Tall, <<4, 9, 2>>, <<Del(5), Upd(3)>>, <<1, 1, 0, 0, 0>>),
   C(Bushy, <<4, 2, 2>>, <<Upd(2), Ins(1, 2)>>, <<0, 1, 0, 1, 0>>),
   C(Wide, <<5, 4, 2>>, <<Del(3), Upd(2)>>, <<1, 0, 1, 0, 1>>),
   C(Wide, <<1, 4, 1>>, <<Ins(4, 2), Ins(1, 2)>>, <<0, 0, 1, 0, 1>>),
   C(Wide, <<5, 4, 2>>, <<Del(3), Optimize, Del(1)>>, <<0, 1, 0, 1, 1>>),
   C(Small, <<2, 4, 1>>, <<Ins(5, 1), Ins(1, 2), Ins(5, 3), Ins(4, 3), Ins(5, 2)>>, <<0, 0, 0, 1, 1>>)}

\* The rightmost leaf has two basements and loses the rows of the second one.
Edge == T(<<N(1, <<2>>, <<2, 3>>), L(<<>>, <<{1, 2}>>), L(<<4>>, <<{3, 4}, {5}>>)>>)
RightmostConfigs == {C(Edge, <<4, 4, 2>>, <<Del(4), Del(5), Ins(4, 2)>>, <<0, 0, 0, 1, 0>>)}

\* --- the containers

VARIABLES which, omt, mhs, rowprog, treenode, mutex, worker, rowlocks
lockvars == <<rowprog, treenode, mutex, worker, rowlocks>>
mcvars == <<which, vars, omt, mhs, lockvars>>

\* The tree is built by the first thread, from points in several orders; then the
\* threads lock, and release, points and ranges.
Acquire(l, r) == <<"acquire", <<l, r>>>>
Release(l, r) == <<"release", <<l, r>>>>
Builds == {<<14, 12, 10, 8, 6, 4, 2>>, <<2, 14, 4, 12, 6, 10, 8>>,
           <<8, 4, 12, 2, 6, 10, 14>>, <<14, 2, 4, 6, 8, 10, 12>>}
Calls == <<{<<Acquire(7, 7)>>, <<Release(8, 8), Acquire(8, 9)>>, <<Acquire(3, 9)>>,
            <<Release(4, 12)>>},
           {<<Acquire(5, 5), Release(5, 5)>>, <<Acquire(1, 1), Acquire(1, 3)>>,
            <<Acquire(13, 13), Release(1, 20)>>},
           {<<Acquire(9, 9)>>, <<Acquire(11, 13)>>}>>
Programs ==
  {[build |-> [t \in LockThreads |-> IF t = 1 THEN Len(b) ELSE 0],
    ops   |-> <<[i \in DOMAIN b |-> Acquire(b[i], b[i])] \o c[1], c[2], c[3]>>] :
     b \in Builds, c \in {<<x, y, z>> : x \in Calls[1], y \in Calls[2], z \in Calls[3]}}

\* A file without blocks, with a few of several sizes, and with holes between all.
Pairs == {{}, {<<8, 3>>, <<12, 4>>, <<20, 1>>},
          {<<4 + 8 * i, 4>> : i \in 0 .. 6}}

O == INSTANCE Omt
M == INSTANCE MhsRbTree WITH
       MHS_MAX_VAL <- MaxVal, _align <- Alignment, _reserve <- Alignment,
       BlockSizes <- Sizes, MaxBlocks <- BlockBound, InitialPairs <- Pairs
R == INSTANCE ConcurrentTree WITH
       RowTxns <- LockThreads, TreeNodes <- NodeIds, RowPrograms <- Programs,
       IMBALANCE_THRESHOLD <- 2

\* The tree that stays as it is while another container is picked.
NoWork == C(Small, <<2, 4, 1>>, <<>>, <<0, 0, 0, 0, 0>>)
MCInit ==
  /\ which \in Systems
  /\ Init /\ (which # "tree" <=> conf.ops = <<>>)
  /\ IF which = "omt" THEN O!OmtInit ELSE omt = <<>>
  /\ IF which = "mhs" THEN M!MhsInit ELSE mhs = <<>>
  /\ IF which = "locks" THEN R!CTInit
     ELSE /\ rowprog = <<>> /\ treenode = <<>> /\ mutex = <<>> /\ worker = <<>>
          /\ rowlocks = {}
TreeStep == which = "tree" /\ Next /\ UNCHANGED <<which, omt, mhs, lockvars>>
OmtStep == which = "omt" /\ O!OmtNext /\ UNCHANGED <<which, vars, mhs, lockvars>>
MhsStep == which = "mhs" /\ M!MhsNext /\ UNCHANGED <<which, vars, omt, lockvars>>
LocksStep == which = "locks" /\ R!CTNext /\ UNCHANGED <<which, vars, omt, mhs>>
MCNext == TreeStep \/ OmtStep \/ MhsStep \/ LocksStep
MCSpec == MCInit /\ [][MCNext]_mcvars
\* The trees, and the one that stays.
AllConfigs == MCConfigs \union {NoWork}

\* The tree passes toku_verify_ft, a cursor's search passes no row that it should see, and
\* the hot optimizer leaves no message from before its start.
TreeSound == which = "tree" => Verified /\ NoRowSkipped /\ HotFlushesAll
\* The tree is the dictionary that the operations made.
TreeImplements == which = "tree" => Implements
\* The order maintenance tree is the sorted sequence its operations made, within its
\* array or its table of nodes; a block is given the first aligned place of the file
\* where it fits, and the holes and blocks share the file out; the tree of row locks
\* holds the locks, in order and disjoint, and a thread that works on a range has it to
\* itself.
ContainersExact ==
  /\ which = "omt" => O!OmtIsSequence /\ O!OmtWithinCapacity
  /\ which = "mhs" => M!FirstFit /\ M!AllocatorValid
  /\ which = "locks" => R!TreeHoldsLocks /\ R!ExclusiveRange
=============================================================================
