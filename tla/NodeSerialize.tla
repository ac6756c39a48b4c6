--------------------------- MODULE NodeSerialize ---------------------------
(***************************************************************************)
(* A node in memory and its block on disk (ft/serialize/ft_node-serialize  *)
(* .cc with the callbacks of ft/ft-ops.cc).  A partition is a message      *)
(* buffer or a basement; what it holds is a sequence.  In memory it is     *)
(* available, compressed, or on disk only.  A block is a set of chunks     *)
(* [at, len, what, fmt, v, ok]: where it lies, which layout version wrote  *)
(* it, what it says and whether its bytes are what was written.  nref is   *)
(* the sequence of what the partitions hold.                               *)
(***************************************************************************)
EXTENDS Integers, Sequences, FiniteSets, SequencesExt

CONSTANTS Blocks,      \* the blocks a run starts with: [height, version, parts]
          Sector,      \* 512
          HeaderMax,   \* 32 K: what is read of a node first
          PerBasement, \* rows in a basement after a rebalance
          MaxChanges,  \* bound: changes by clients
          OldMsgs      \* messages in the buffers of two nodes of version 13
VARIABLES node,    \* <<>> or <<the node in memory>>
          ndd,     \* where its partitions are on disk
          clone,   \* <<>> or <<the copy a checkpoint will write>>
          disk, nref, changes,
          crashed, \* an assertion failed or the read was given up
          up       \* the upgrade of a path of version 13, below
vars == <<node, ndd, clone, disk, nref, changes, crashed, up>>

V14 == 14               \* the last version without partitions
WITH_BASEMENT_NODES == 15
V26 == 26               \* the last one whose buffers have no offsets
CURRENT == 29

roundup_to_multiple(a, n) == ((n + a - 1) \div a) * a
Least(a, b) == IF a < b THEN a ELSE b
Sum(f) == FoldFunction(LAMBDA a, b : a + b, 0, f)

-----------------------------------------------------------------------------
(* Sizes.  A pivot, a message and a row are four bytes.                    *)

serialize_node_header_size(n) == 8 + 4 + 4 + 4 + 4 + 8 * n + 4
serialize_ftnode_info_size(height, n) ==
  8 + 4 + 4 + 4 + 8 + 4 * (n - 1) + 4 * (n - 1) + (IF height > 0 THEN 8 * n ELSE 0) + 4
HEADER_LENGTH == 14
serialize_ftnode_partition_size(height, version, v) ==
  1 + (IF height > 0
       THEN 4 + 4 * Len(v) + (IF version <= V26 THEN 0 ELSE 12 + 4 * Len(v))
       ELSE 4 + HEADER_LENGTH + 4 * Len(v)) + 4
toku_compress_bound(n) == n + 1
\* Compression may do nothing or much.
toku_compress(n, well) == IF well THEN n \div 4 + 1 ELSE toku_compress_bound(n)
compress_ftnode_sub_block(n, well) == toku_compress(n, well) + 8

-----------------------------------------------------------------------------
(* Writing.                                                                *)

Avail(v) == [st |-> "avail", fmt |-> CURRENT, v |-> v]
OnDisk == [st |-> "disk", fmt |-> 0, v |-> <<>>]
toku_ftnode_assert_fully_in_memory(n) == \A i \in DOMAIN n.parts : n.parts[i].st = "avail"
Values(n) == [i \in DOMAIN n.parts |-> n.parts[i].v]

\* The rows of a leaf, dealt out again.
rebalanced(vs) ==
  LET rows == FlattenSeq(vs)
      n    == IF rows = <<>> THEN 1 ELSE (Len(rows) + PerBasement - 1) \div PerBasement
  IN  [i \in 1 .. n |-> SubSeq(rows, (i - 1) * PerBasement + 1, Least(i * PerBasement, Len(rows)))]
toku_ftnode_leaf_rebalance(n) ==
  IF n.height > 0 THEN n
  ELSE [n EXCEPT !.parts = [i \in DOMAIN rebalanced(Values(n)) |->
                              Avail(rebalanced(Values(n))[i])]]

\* Where the partitions go, from the sizes of what comes before them.
Placed(from, lens) ==
  [i \in DOMAIN lens |->
     [start |-> from + Sum([j \in 1 .. i - 1 |-> lens[j]]), size |-> lens[i]]]
toku_serialize_ftnode_to_memory(height, version, vs, well) ==
  LET n     == Len(vs)
      head  == serialize_node_header_size(n)
      info  == compress_ftnode_sub_block(serialize_ftnode_info_size(height, n), well) + 4
      lens  == [i \in 1 .. n |->
                  compress_ftnode_sub_block(
                    serialize_ftnode_partition_size(height, version, vs[i]), well) + 4]
      where == Placed(head + info, lens)
      Chunk(what, at, len, v) == [what |-> what, at |-> at, len |-> len, fmt |-> version,
                                  v |-> v, ok |-> TRUE]
  IN  [version |-> version, height |-> height,
       size |-> roundup_to_multiple(Sector, head + info + Sum(lens)),
       n |-> n, where |-> where,
       chunks |-> {Chunk("header", 0, head, <<>>), Chunk("info", head, info, <<>>)}
                    \union {Chunk("part", where[i].start, where[i].size, vs[i]) : i \in 1 .. n}]
\* Before version 15 a node is one piece.
BlockOf(b) ==
  IF b.version > V14 THEN toku_serialize_ftnode_to_memory(b.height, b.version, b.parts, FALSE)
  ELSE [version |-> b.version, height |-> b.height, size |-> Sector, n |-> Len(b.parts),
        where |-> <<>>,
        chunks |-> {[what |-> "all", at |-> 0, len |-> Sector, fmt |-> b.version,
                     v |-> b.parts, ok |-> TRUE]}]

-----------------------------------------------------------------------------
(* Reading.  Error: what came is not what was written.                     *)

Error == <<>>
ChunkAt(what, at, len) == {c \in disk.chunks : c.what = what /\ c.at = at /\ c.len = len}
Sound(what) == \A c \in disk.chunks : c.what = what => c.ok
read_compressed_sub_block(at, len) ==
  LET cs == ChunkAt("part", at, len)
  IN  IF at + len <= disk.size /\ cs # {} /\ \A c \in cs : c.ok
      THEN <<CHOOSE c \in cs : TRUE>> ELSE Error
\* The bytes of a partition, taken for what the version of the node says they are.
deserialize_ftnode_partition(height, version, c) ==
  IF height > 0 /\ (version <= V26) # (c.fmt <= V26) THEN Error ELSE <<Avail(c.v)>>
decompress_and_deserialize(height, version, at, len) ==
  LET c == read_compressed_sub_block(at, len)
  IN  IF c = Error THEN Error ELSE deserialize_ftnode_partition(height, version, c[1])
check_and_copy_compressed_sub_block(at, len) ==
  LET c == read_compressed_sub_block(at, len)
  IN  IF c = Error THEN Error ELSE <<[st |-> "compressed", fmt |-> c[1].fmt, v |-> c[1].v]>>

\* What a client asks for: all, nothing, the child of a search with the range it
\* may prefetch, a range to prefetch, or the one child that holds a range of keys.
Fetches ==
  LET n == Len(nref)
      Ask(t, c, lc, rc, noprefetch, whole) ==
        [type |-> t, child |-> c, lc |-> lc, rc |-> rc, noprefetch |-> noprefetch,
         whole |-> whole]
  IN  {Ask("all", 0, 0, 0, FALSE, FALSE), Ask("none", 0, 0, 0, FALSE, FALSE)}
        \union {Ask("subset", c, lc, rc, p, w) :
                  c \in 1 .. n, lc \in {1, 2}, rc \in {0, n}, p, w \in BOOLEAN}
        \union {Ask("prefetch", 0, lc, n, FALSE, FALSE) : lc \in 1 .. n}
        \union {Ask("keymatch", 0, lc, rc, p, w) : lc, rc \in 1 .. n, p, w \in BOOLEAN}
\* (keymatch) the child is known when the range lies in one child of a leaf
update_bfe_using_ftnode(height, bfe) ==
  IF bfe.type = "keymatch" /\ height = 0 /\ bfe.lc = bfe.rc
  THEN [bfe EXCEPT !.child = bfe.lc] ELSE bfe
wants_child_available(bfe, i) ==
  bfe.type = "all" \/ (bfe.type \in {"subset", "keymatch"} /\ bfe.child = i)
InRange(bfe, i) == bfe.type \in {"subset", "prefetch"} /\ bfe.lc <= i /\ i <= bfe.rc
setup_partition(bfe, i) ==
  IF wants_child_available(bfe, i) \/ InRange(bfe, i) THEN "avail" ELSE "compressed"

NewNode(parts) ==
  [height |-> disk.height, verdisk |-> disk.version, dirty |-> FALSE, parts |-> parts]

deserialize_bp_from_disk(n, where, i) ==
  decompress_and_deserialize(n.height, n.verdisk, where[i].start, where[i].size)
deserialize_bp_from_compressed(n, i) ==
  deserialize_ftnode_partition(n.height, n.verdisk, n.parts[i])
pf_wanted(bfe, i) ==
  wants_child_available(bfe, i) \/ (~bfe.noprefetch /\ InRange(bfe, i))
\* <<node>>, or Error: the program aborts.
toku_ftnode_pf_callback(n, where, bfe) ==
  LET Fetch(i) == CASE n.parts[i].st = "compressed" -> deserialize_bp_from_compressed(n, i)
                    [] n.parts[i].st = "disk" -> deserialize_bp_from_disk(n, where, i)
                    [] n.parts[i].st = "avail" -> <<n.parts[i]>>
      Got(i) == IF pf_wanted(bfe, i) THEN Fetch(i) ELSE <<n.parts[i]>>
  IN  IF \E i \in DOMAIN n.parts : Got(i) = Error THEN Error
      ELSE <<[n EXCEPT !.parts = [i \in DOMAIN @ |-> Got(i)[1]]]>>

\* Only the head of the block is read, if the node's information is within it and
\* nothing about it is wrong.
HeadRead == Least(disk.size, roundup_to_multiple(Sector, Least(HeaderMax, disk.size)))
header_in_head ==
  /\ disk.version >= WITH_BASEMENT_NODES
  /\ Sound("header")
  /\ serialize_node_header_size(disk.n) + 12 <= HeadRead
info_in_head ==
  /\ \A c \in disk.chunks : c.what = "info" =>
       HeadRead - (c.at + 8) >= (c.len - 12) + 8
  /\ Sound("info")
deserialize_ftnode_header_from_rbuf_if_small_enough(ask) ==
  LET n   == NewNode([i \in 1 .. disk.n |-> OnDisk])
      bfe == update_bfe_using_ftnode(disk.height, ask)
  IN  IF bfe.type = "none" THEN <<n>>
      ELSE toku_ftnode_pf_callback(n, disk.where, bfe)

\* The whole node of version 14 or older is available; a buffer of it was changed.
deserialize_and_upgrade_ftnode ==
  IF ~Sound("all") THEN Error
  ELSE LET c == CHOOSE c \in disk.chunks : TRUE
       IN  <<[NewNode([i \in 1 .. disk.n |-> Avail(c.v[i])]) EXCEPT !.dirty = disk.height > 0]>>
header_and_info_read == Sound("header") /\ Sound("info")
partition_read(bfe, i) ==
  IF setup_partition(bfe, i) = "avail"
  THEN decompress_and_deserialize(disk.height, disk.version,
                                  disk.where[i].start, disk.where[i].size)
  ELSE check_and_copy_compressed_sub_block(disk.where[i].start, disk.where[i].size)
deserialize_ftnode_from_rbuf(ask) ==
  LET bfe == update_bfe_using_ftnode(disk.height, ask)
  IN  IF disk.version <= V14 THEN deserialize_and_upgrade_ftnode
      ELSE IF ~header_and_info_read \/ \E i \in 1 .. disk.n : partition_read(bfe, i) = Error
      THEN Error
      ELSE <<NewNode([i \in 1 .. disk.n |-> partition_read(bfe, i)[1]])>>

toku_deserialize_ftnode_from(bfe) ==
  IF ~bfe.whole /\ header_in_head /\ info_in_head
  THEN deserialize_ftnode_header_from_rbuf_if_small_enough(bfe)
  ELSE deserialize_ftnode_from_rbuf(bfe)

-----------------------------------------------------------------------------
(* The callbacks of the cachetable.                                        *)

Here == node # <<>>
N == node[1]

\* A node that cannot be read ends the program.
toku_ftnode_fetch_callback ==
  /\ ~Here
  /\ \E bfe \in Fetches : \E r \in {toku_deserialize_ftnode_from(bfe)} :
       \/ r = Error /\ crashed' = TRUE /\ UNCHANGED <<node, ndd>>
       \/ r # Error /\ node' = r /\ ndd' = disk.where /\ UNCHANGED crashed
  /\ UNCHANGED <<clone, disk, nref, changes, up>>

toku_ftnode_pf_req_callback(n, bfe) ==
  CASE bfe.type = "none" -> FALSE
    [] bfe.type = "all" -> ~toku_ftnode_assert_fully_in_memory(n)
    [] bfe.type \in {"subset", "keymatch"} ->
         bfe.child # 0 /\ n.parts[bfe.child].st # "avail"
    [] bfe.type = "prefetch" -> \E i \in bfe.lc .. bfe.rc : n.parts[i].st # "avail"
partial_fetch ==
  /\ Here
  /\ \E ask \in Fetches :
       \E bfe \in {update_bfe_using_ftnode(N.height, ask)} :
         /\ toku_ftnode_pf_req_callback(N, bfe)
         /\ \E r \in {toku_ftnode_pf_callback(N, ndd, bfe)} :
              \/ r = Error /\ crashed' = TRUE /\ UNCHANGED node
              \/ r # Error /\ node' = r /\ UNCHANGED crashed
  /\ UNCHANGED <<ndd, clone, disk, nref, changes, up>>

\* Whatever the clock says should go: a buffer is compressed if its node is of the
\* current version also on disk, and forgotten otherwise.
\* Mutant: the buffer is compressed in any case.
pe_bufferMut(n, v) == [st |-> "compressed", fmt |-> CURRENT, v |-> v]
pe_buffer(n, v) ==
  IF n.verdisk = CURRENT THEN [st |-> "compressed", fmt |-> CURRENT, v |-> v] ELSE OnDisk
pe_partition(n, p, should) ==
  CASE p.st = "avail" /\ should /\ n.height > 0 -> pe_buffer(n, p.v)
    [] p.st = "avail" /\ should /\ n.height = 0 -> OnDisk
    [] p.st = "compressed" /\ n.height = 0      -> OnDisk
    [] OTHER -> p
toku_ftnode_pe_callback ==
  /\ Here /\ clone = <<>> \* the evictor passes by a pair that is being written
  /\ ~N.dirty /\ N.verdisk >= WITH_BASEMENT_NODES
  /\ \E should \in SUBSET DOMAIN N.parts :
       node' = <<[N EXCEPT !.parts =
                    [i \in DOMAIN @ |-> pe_partition(N, @[i], i \in should)]]>>
  /\ UNCHANGED <<ndd, clone, disk, nref, changes, crashed, up>>

\* The node is written, or a clean one thrown away.
toku_serialize_ftnode_to(n, well) ==
  toku_serialize_ftnode_to_memory(n.height, CURRENT, Values(n), well)
flush_write ==
  /\ Here /\ clone = <<>> /\ N.dirty
  /\ \E well, keep \in BOOLEAN : \E n \in {toku_ftnode_leaf_rebalance(N)} :
       \E b \in {toku_serialize_ftnode_to(n, well)} :
         /\ crashed' = ~toku_ftnode_assert_fully_in_memory(N)
         /\ disk' = b
         /\ nref' = IF N.height = 0 THEN rebalanced(nref) ELSE nref
         /\ node' = IF keep THEN <<[n EXCEPT !.dirty = FALSE, !.verdisk = CURRENT]>> ELSE <<>>
         /\ ndd' = IF keep THEN b.where ELSE <<>>
  /\ UNCHANGED <<clone, changes, up>>
flush_evict ==
  /\ Here /\ clone = <<>> /\ ~N.dirty
  /\ node' = <<>> /\ ndd' = <<>>
  /\ UNCHANGED <<clone, disk, nref, changes, crashed, up>>

toku_ftnode_clone_callback ==
  /\ Here /\ clone = <<>> /\ N.dirty
  /\ \E n \in {toku_ftnode_leaf_rebalance(N)} :
       /\ clone' = <<[n EXCEPT !.dirty = FALSE]>>
       /\ node' = <<[n EXCEPT !.dirty = FALSE, !.verdisk = CURRENT]>>
  /\ crashed' = ~toku_ftnode_assert_fully_in_memory(N)
  /\ nref' = IF N.height = 0 THEN rebalanced(nref) ELSE nref
  /\ UNCHANGED <<ndd, disk, changes, up>>
\* Meanwhile the node may have changed again; where its partitions are is shared.
flush_clone ==
  /\ clone # <<>>
  /\ \E well \in BOOLEAN : \E b \in {toku_serialize_ftnode_to(clone[1], well)} :
       disk' = b /\ ndd' = b.where
  /\ clone' = <<>>
  /\ UNCHANGED <<node, nref, changes, crashed, up>>

\* A client that fetched all of the node adds to a partition, or adds a partition.
change ==
  /\ Here /\ toku_ftnode_assert_fully_in_memory(N) /\ changes < MaxChanges
  /\ \E i \in 1 .. Len(nref) + 1 :
       LET new == IF i > Len(nref) THEN Append(nref, <<changes>>)
                  ELSE [nref EXCEPT ![i] = Append(@, changes)]
       IN  /\ nref' = new
           /\ node' = <<[N EXCEPT !.dirty = TRUE,
                                  !.parts = [j \in DOMAIN new |-> IF j \in DOMAIN @ /\ j # i
                                                                  THEN @[j] ELSE Avail(new[j])]]>>
  /\ changes' = changes + 1
  /\ UNCHANGED <<ndd, clone, disk, crashed, up>>

\* Some bytes of the block go bad.
damage ==
  /\ \A c \in disk.chunks : c.ok
  /\ \E c \in disk.chunks : disk' = [disk EXCEPT !.chunks = (@ \ {c}) \union {[c EXCEPT !.ok = FALSE]}]
  /\ UNCHANGED <<node, ndd, clone, nref, changes, crashed, up>>

-----------------------------------------------------------------------------
(* A path of two nodes and a leaf of version 13, whose messages have no    *)
(* MSNs.  up: the highest MSN the header has left, the MSNs of the buffers *)
(* of each node once it was read, which nodes are in memory, what MSN the  *)
(* leaf is said to have applied; and the header and nodes of the last      *)
(* checkpoint.                                                             *)

upInit == [unused |-> 0, msns |-> << <<>>, <<>> >>, mem |-> {}, leaf |-> 0,
           ckpt |-> [unused |-> 0, msns |-> << <<>>, <<>> >>]]
\* The MSNs of the buffers of a node, and what is left.
deserialize_child_buffer_v13(left, n) == [i \in 1 .. n |-> left - n + i]
deserialize_and_upgrade_internal_node(u, l) ==
  LET ns == OldMsgs[l]
      Left(i) == u.unused - Sum([j \in 1 .. i |-> ns[j]])
  IN  [u EXCEPT !.msns[l] = [i \in DOMAIN ns |-> deserialize_child_buffer_v13(Left(i - 1), ns[i])],
                !.unused = Left(Len(ns)), !.mem = @ \union {l}]
\* Mutant: the leaf is said to have applied the last MSN given to a message above it.
deserialize_and_upgrade_leaf_nodeMut(u) ==
  [u EXCEPT !.leaf = u.unused + 1, !.mem = @ \union {3}]
deserialize_and_upgrade_leaf_node(u) ==
  [u EXCEPT !.leaf = u.unused, !.mem = @ \union {3}]
\* A node is read under its parent.
upgrade_read ==
  \E l \in 1 .. 3 :
    /\ l \notin up.mem /\ (l > 1 => l - 1 \in up.mem)
    /\ up' = CASE l = 3 -> deserialize_and_upgrade_leaf_node(up)
               [] l < 3 /\ up.msns[l] = <<>> -> deserialize_and_upgrade_internal_node(up, l)
               [] l < 3 /\ up.msns[l] # <<>> -> [up EXCEPT !.mem = @ \union {l}]
    /\ UNCHANGED <<node, ndd, clone, disk, nref, changes, crashed>>
\* An upgraded node is dirty and is written with its MSNs; the leaf is not.
upgrade_evict ==
  /\ \E l \in up.mem : up' = [up EXCEPT !.mem = @ \ {l}]
  /\ UNCHANGED <<node, ndd, clone, disk, nref, changes, crashed>>
upgrade_checkpoint ==
  /\ up' = [up EXCEPT !.ckpt = [unused |-> up.unused, msns |-> up.msns]]
  /\ UNCHANGED <<node, ndd, clone, disk, nref, changes, crashed>>
upgrade_crash ==
  /\ up' = [up EXCEPT !.unused = up.ckpt.unused, !.msns = up.ckpt.msns, !.mem = {}]
  /\ UNCHANGED <<node, ndd, clone, disk, nref, changes, crashed>>

-----------------------------------------------------------------------------
SerInit ==
  /\ \E b \in Blocks : disk = BlockOf(b) /\ nref = b.parts
  /\ node = <<>> /\ ndd = <<>> /\ clone = <<>> /\ changes = 0 /\ crashed = FALSE
  /\ up = upInit
OneNode ==
  /\ ~crashed
  /\ \/ toku_ftnode_fetch_callback \/ partial_fetch \/ toku_ftnode_pe_callback
     \/ flush_write \/ flush_evict \/ toku_ftnode_clone_callback \/ flush_clone
     \/ change \/ damage
\* The path is looked at with the node as it was first.
OldPath ==
  /\ ~Here /\ changes = 0 /\ ~crashed /\ \A c \in disk.chunks : c.ok
  /\ upgrade_read \/ upgrade_evict \/ upgrade_checkpoint \/ upgrade_crash
SerNext == (up = upInit /\ OneNode) \/ OldPath

\* Whatever was evicted, compressed, cloned, written, rebalanced or upgraded between,
\* each partition is or can be made what the clients last made it, and only bad bytes
\* on disk end the program: never the bytes of one layout version taken for another's
\* (toku_ftnode_pe_callback), never a place of an older block (ndd).
NodeReadable ==
  LET Bad == \E c \in disk.chunks : ~c.ok
      Is(r, v) == r = Error \/ r = <<Avail(v)>>
      Whole(n, where) ==
        /\ Len(n.parts) = Len(nref)
        /\ \A i \in DOMAIN nref :
             /\ n.parts[i].st = "avail" => n.parts[i].v = nref[i]
             /\ n.parts[i].st = "compressed" =>
                  deserialize_bp_from_compressed(n, i) = <<Avail(nref[i])>>
             /\ n.parts[i].st = "disk" =>
                  \E r \in {deserialize_bp_from_disk(n, where, i)} :
                    Is(r, nref[i]) /\ (r = Error => Bad)
  IN  /\ crashed => Bad
      /\ Here => Whole(N, ndd)
      /\ ~Here /\ ~Bad =>
           \E r \in {deserialize_ftnode_from_rbuf([type |-> "all", child |-> 0, lc |-> 0,
                       rc |-> 0, noprefetch |-> FALSE, whole |-> TRUE])} :
             r # Error /\ Whole(r[1], disk.where)

\* However the nodes of an old path are read, written and lost in crashes, the MSNs
\* made up for their messages grow along each buffer and towards the root, and what
\* the leaf is said to have applied is older than every one of them, so that each
\* message will be applied, in order (deserialize_and_upgrade_leaf_node).
UpgradedMsns ==
  LET Of(l) == UNION {Range(up.msns[l][i]) : i \in DOMAIN up.msns[l]}
      InMem == {l \in {1, 2} : l \in up.mem}
  IN  /\ \A l \in InMem : \A i \in DOMAIN up.msns[l] :
           \A j \in 1 .. Len(up.msns[l][i]) - 1 : up.msns[l][i][j] < up.msns[l][i][j + 1]
      /\ {1, 2} \subseteq InMem => \A x \in Of(1), y \in Of(2) : y < x
      /\ 3 \in up.mem => \A l \in InMem : \A x \in Of(l) : up.leaf < x
=============================================================================
