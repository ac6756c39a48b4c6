------------------------------- MODULE BnData -------------------------------
(***************************************************************************)
(* The rows of a basement node (ft/bndata.cc): the keys in a dynamic order *)
(* maintenance tree, each with the offset of its leaf entry in a second    *)
(* memory pool, and the size of the keys on disk.  mem says which leaf     *)
(* entry was written at an offset of that pool.  ref is the sequence of    *)
(* rows the operations made.                                               *)
(*                                                                         *)
(* The tree is the one of util/dmt.cc with the memory pool of              *)
(* util/mempool.cc it lives in.  A value is [len, v]: its bytes and what   *)
(* it says.  The structure is an array of values of one length, each       *)
(* padded to the alignment, or a weight-balanced tree whose nodes are      *)
(* placed in the pool one after the other.  A subtree is <<>> or <<left,   *)
(* node, right, weight>>; a node is [off, len, v] with its offset in the   *)
(* pool.                                                                   *)
(***************************************************************************)
EXTENDS Integers, Sequences, FiniteSets, SequencesExt

CONSTANTS BnKeys,  \* the keys, compared as integers
          KeyLen,  \* the bytes of each
          Leaves,  \* the leaf entries: [id, size]
          Leaf,    \* the one a key is inserted with
          Starts,  \* the sets of keys a node begins with
          MaxOps   \* bound: the operations on one node
VARIABLES bn,      \* the basement node, and in ops the operations so far
          ref      \* its rows: a sequence of [key, le]

-----------------------------------------------------------------------------
(* The dynamic order maintenance tree.                                     *)

ALIGNMENT == 4
NodeHeader == 16 \* the bytes of a node before its value
align(x) == ((x + ALIGNMENT - 1) \div ALIGNMENT) * ALIGNMENT

-----------------------------------------------------------------------------
(* Memory pools.  ok: every allocation that must succeed did.              *)

toku_mempool_construct(bytes) ==
  [size |-> bytes + bytes \div 4, free |-> 0, frag |-> 0, ok |-> TRUE]
toku_mempool_get_used_size(mp) == mp.free - mp.frag
toku_mempool_get_free_size(mp) == mp.size - mp.free
toku_mempool_malloc(mp, bytes) ==
  [mp EXCEPT !.free = @ + bytes, !.ok = @ /\ mp.free + bytes <= mp.size]
toku_mempool_mfree(mp, bytes) ==
  [mp EXCEPT !.frag = @ + bytes,
             !.ok = @ /\ mp.frag + bytes <= mp.free /\ mp.frag + bytes <= mp.size]
toku_mempool_realloc_larger(mp, bytes) ==
  [mp EXCEPT !.size = bytes + bytes \div 4, !.ok = @ /\ bytes >= mp.free]
toku_mempool_clone(mp) == [mp EXCEPT !.size = mp.free]

-----------------------------------------------------------------------------
Null == <<>>
Lt(t) == t[1]
Node(t) == t[2]
Rt(t) == t[3]
nweight(t) == IF t = Null THEN 0 ELSE t[4]
NodeBytes(len) == align(NodeHeader + len)

dmt_create == [arr |-> TRUE, same |-> TRUE, vlen |-> 0, vals |-> <<>>, root |-> Null,
               mp |-> toku_mempool_construct(0)]
dmt_clear(d) == [dmt_create EXCEPT !.mp = [d.mp EXCEPT !.free = 0, !.frag = 0]]
dmt_size(d) == IF d.arr THEN Len(d.vals) ELSE nweight(d.root)
create_from_sorted_memory_of_fixed_size_elements(vals, len) ==
  [dmt_create EXCEPT !.vlen = len, !.vals = vals,
                     !.mp = toku_mempool_malloc(
                              toku_mempool_construct(Len(vals) * align(len)),
                              Len(vals) * align(len))]
dmt_clone(d) == [d EXCEPT !.mp = toku_mempool_clone(@)]

RECURSIVE fill_array_with_subtree_offsets(_)
fill_array_with_subtree_offsets(t) ==
  IF t = Null THEN <<>>
  ELSE fill_array_with_subtree_offsets(Lt(t)) \o <<Node(t)>>
         \o fill_array_with_subtree_offsets(Rt(t))
RECURSIVE rebuild_subtree_from_offsets(_)
rebuild_subtree_from_offsets(nodes) ==
  IF nodes = <<>> THEN Null
  ELSE LET half == Len(nodes) \div 2 IN
       <<rebuild_subtree_from_offsets(SubSeq(nodes, 1, half)), nodes[half + 1],
         rebuild_subtree_from_offsets(SubSeq(nodes, half + 2, Len(nodes))), Len(nodes)>>
ValueOf(node) == [len |-> node.len, v |-> node.v]
Contents(d) ==
  IF d.arr THEN d.vals
  ELSE LET ns == fill_array_with_subtree_offsets(d.root)
       IN  [i \in DOMAIN ns |-> ValueOf(ns[i])]

\* The nodes for some values, laid out in a pool from its first free place.
RECURSIVE Offsets(_, _)
Offsets(vals, from) ==
  IF vals = <<>> THEN <<>>
  ELSE <<[off |-> from, len |-> Head(vals).len, v |-> Head(vals).v]>>
         \o Offsets(Tail(vals), from + NodeBytes(Head(vals).len))
RECURSIVE Bytes(_)
Bytes(vals) == IF vals = <<>> THEN 0 ELSE NodeBytes(Head(vals).len) + Bytes(Tail(vals))
NewNodes(d, vals, bytes) ==
  [d EXCEPT !.arr = FALSE, !.vals = <<>>,
            !.root = rebuild_subtree_from_offsets(Offsets(vals, 0)),
            !.mp = toku_mempool_malloc(toku_mempool_construct(bytes), Bytes(vals))]

convert_from_tree_to_array(d) ==
  LET bytes == nweight(d.root) * align(d.vlen)
  IN  [d EXCEPT !.arr = TRUE, !.vals = Contents(d), !.root = Null,
                !.mp = toku_mempool_malloc(toku_mempool_construct(bytes), bytes)]
convert_from_array_to_tree(d) == NewNodes(d, d.vals, Len(d.vals) * NodeBytes(d.vlen))
prepare_for_serialize(d) == IF d.arr THEN d ELSE convert_from_tree_to_array(d)

maybe_resize_array_for_insert(d) ==
  IF toku_mempool_get_free_size(d.mp) >= align(d.vlen) THEN d
  ELSE LET n    == Len(d.vals) + 1
           newn == IF n <= 2 THEN 4 ELSE 2 * n
       IN  [d EXCEPT !.mp = toku_mempool_malloc(
                              toku_mempool_construct(align(d.vlen) * newn),
                              Len(d.vals) * align(d.vlen))]
insert_at_array_end(d, x, withResize) ==
  LET e == [d EXCEPT !.vlen = x.len]
      f == IF withResize THEN maybe_resize_array_for_insert(e) ELSE e
  IN  [f EXCEPT !.vals = Append(@, x), !.mp = toku_mempool_malloc(@, align(x.len))]

\* add: the bytes of the node that is about to be made, or 0.
\* Mutant: the pool is enlarged in place although nodes were freed.
maybe_resize_treeMut(d, add) ==
  LET new == 2 * (toku_mempool_get_used_size(d.mp) + add)
  IN  CASE toku_mempool_get_free_size(d.mp) < add ->
             [d EXCEPT !.mp = toku_mempool_realloc_larger(@, new)]
        [] OTHER -> d
maybe_resize_tree(d, add) ==
  LET new   == 2 * (toku_mempool_get_used_size(d.mp) + add)
      small == toku_mempool_get_free_size(d.mp) < add
  IN  CASE small /\ d.mp.frag = 0 ->
             [d EXCEPT !.mp = toku_mempool_realloc_larger(@, new)]
        [] (small /\ d.mp.frag # 0) \/ (~small /\ d.mp.size \div 2 >= new) ->
             NewNodes(d, Contents(d), new)
        [] ~small /\ d.mp.size \div 2 < new -> d

will_need_rebalance(t, leftmod, rightmod) ==
  LET wl == nweight(Lt(t)) + leftmod
      wr == nweight(Rt(t)) + rightmod
  IN  t # Null /\ (1 + wl < (2 + wr) \div 2 \/ 1 + wr < (2 + wl) \div 2)
rebalance(t) == rebuild_subtree_from_offsets(fill_array_with_subtree_offsets(t))

\* done: a subtree above will be rebuilt.
RECURSIVE insert_internal(_, _, _, _)
insert_internal(t, node, i, done) ==
  IF t = Null THEN <<Null, node, Null, 1>>
  ELSE LET w    == nweight(Lt(t))
           left == i <= w
           need == ~done /\ IF left THEN will_need_rebalance(t, 1, 0)
                            ELSE will_need_rebalance(t, 0, 1)
           new  == IF left
                   THEN <<insert_internal(Lt(t), node, i, done \/ need), Node(t), Rt(t),
                          t[4] + 1>>
                   ELSE <<Lt(t), Node(t),
                          insert_internal(Rt(t), node, i - w - 1, done \/ need),
                          t[4] + 1>>
       IN  IF need THEN rebalance(new) ELSE new

\* The subtree without its value i, and the node that leaves its place: of a
\* node with two children the least node on its right takes the place over.
RECURSIVE delete_internal(_, _, _)
delete_internal(t, i, done) ==
  LET w    == nweight(Lt(t))
      here == i = w /\ (Lt(t) = Null \/ Rt(t) = Null)
      need == ~done /\ ~here /\ IF i < w THEN will_need_rebalance(t, -1, 0)
                                ELSE will_need_rebalance(t, 0, -1)
      sub  == IF i < w THEN delete_internal(Lt(t), i, done \/ need)
              ELSE delete_internal(Rt(t), IF i = w THEN 0 ELSE i - w - 1, done \/ need)
      new  == CASE i < w -> <<sub[1], Node(t), Rt(t), t[4] - 1>>
                [] i = w -> <<Lt(t), sub[2], sub[1], t[4] - 1>>
                [] i > w -> <<Lt(t), Node(t), sub[1], t[4] - 1>>
  IN  IF here THEN <<IF Lt(t) = Null THEN Rt(t) ELSE Lt(t), Node(t)>>
      ELSE <<IF need THEN rebalance(new) ELSE new, IF i = w THEN Node(t) ELSE sub[2]>>

insert_at(d, x, idx) ==
  LET same == d.same /\ (dmt_size(d) = 0 \/ x.len = d.vlen)
      t    == IF d.arr THEN convert_from_array_to_tree(d) ELSE d
      u    == IF same THEN t ELSE [t EXCEPT !.same = FALSE, !.vlen = 0]
      Put(r) == [r EXCEPT
                   !.root = insert_internal(@, [off |-> r.mp.free, len |-> x.len, v |-> x.v],
                                            idx, FALSE),
                   !.mp = toku_mempool_malloc(@, NodeBytes(x.len))]
  IN  IF d.arr /\ same /\ idx = Len(d.vals) THEN insert_at_array_end(d, x, TRUE)
      ELSE Put(maybe_resize_tree(u, NodeBytes(x.len)))

delete_at(d, idx) ==
  LET t    == IF d.arr THEN convert_from_array_to_tree(d) ELSE d
      gone == Contents(d)[idx + 1]
      Cut(r) == [r EXCEPT !.root = delete_internal(@, idx, FALSE)[1],
                          !.mp = toku_mempool_mfree(@, NodeBytes(gone.len))]
  IN  IF dmt_size(d) = 1 THEN dmt_clear(d) ELSE maybe_resize_tree(Cut(t), 0)

-----------------------------------------------------------------------------
(* Searches.  A result is <<found, index>>; h compares a value with a key. *)

h(x, key) == x.v.key - key
RECURSIVE find_internal_zero(_, _)
find_internal_zero(t, key) ==
  IF t = Null THEN <<FALSE, 0>>
  ELSE LET w == nweight(Lt(t))
           c == h(Node(t), key)
           r == find_internal_zero(IF c < 0 THEN Rt(t) ELSE Lt(t), key)
       IN  CASE c < 0 -> <<r[1], r[2] + w + 1>>
             [] c > 0 -> r
             [] c = 0 -> IF r[1] THEN r ELSE <<TRUE, w>>
RECURSIVE find_internal_plus(_, _)
find_internal_plus(t, key) ==
  IF t = Null THEN <<FALSE, 0>>
  ELSE LET w == nweight(Lt(t))
           r == find_internal_plus(IF h(Node(t), key) > 0 THEN Lt(t) ELSE Rt(t), key)
       IN  IF h(Node(t), key) > 0 THEN (IF r[1] THEN r ELSE <<TRUE, w>>)
           ELSE <<r[1], r[2] + w + 1>>
RECURSIVE find_internal_minus(_, _)
find_internal_minus(t, key) ==
  IF t = Null THEN <<FALSE, 0>>
  ELSE LET w == nweight(Lt(t))
           r == find_internal_minus(IF h(Node(t), key) < 0 THEN Rt(t) ELSE Lt(t), key)
       IN  IF h(Node(t), key) < 0
           THEN (IF r[1] THEN <<TRUE, r[2] + w + 1>> ELSE <<TRUE, w>>) ELSE r
\* The least place in [min, limit) whose value is past the key (> or >=).
RECURSIVE bisect(_, _, _, _, _)
bisect(vals, key, min, limit, orEqual) ==
  IF min = limit THEN min
  ELSE LET mid == (min + limit) \div 2
           c   == h(vals[mid + 1], key)
       IN  IF c > 0 \/ (orEqual /\ c = 0)
           THEN bisect(vals, key, min, mid, orEqual)
           ELSE bisect(vals, key, mid + 1, limit, orEqual)
find_internal_zero_array(d, key) ==
  LET n == bisect(d.vals, key, 0, Len(d.vals), TRUE)
  IN  <<n < Len(d.vals) /\ h(d.vals[n + 1], key) = 0, n>>
find_internal_plus_array(d, key) ==
  LET n == bisect(d.vals, key, 0, Len(d.vals), FALSE) IN <<n < Len(d.vals), n>>
find_internal_minus_array(d, key) ==
  LET n == bisect(d.vals, key, 0, Len(d.vals), TRUE) IN <<n > 0, n - 1>>
find_zero(d, key) ==
  IF d.arr THEN find_internal_zero_array(d, key)
  ELSE find_internal_zero(d.root, key)
dmt_find(d, key, dir) ==
  CASE dir > 0 /\ d.arr  -> find_internal_plus_array(d, key)
    [] dir > 0 /\ ~d.arr -> find_internal_plus(d.root, key)
    [] dir < 0 /\ d.arr  -> find_internal_minus_array(d, key)
    [] dir < 0 /\ ~d.arr -> find_internal_minus(d.root, key)

RECURSIVE fetch_internal(_, _)
fetch_internal(t, i) ==
  LET w == nweight(Lt(t)) IN
  CASE i < w -> fetch_internal(Lt(t), i)
    [] i = w -> ValueOf(Node(t))
    [] i > w -> fetch_internal(Rt(t), i - w - 1)
fetch(d, i) == IF d.arr THEN d.vals[i + 1] ELSE fetch_internal(d.root, i)
RECURSIVE iterate_internal(_, _, _, _)
iterate_internal(t, left, right, idx) ==
  IF t = Null THEN <<>>
  ELSE LET root == idx + nweight(Lt(t)) IN
       (IF left < root THEN iterate_internal(Lt(t), left, right, idx) ELSE <<>>)
         \o (IF left <= root /\ root < right THEN <<ValueOf(Node(t))>> ELSE <<>>)
         \o (IF root + 1 < right THEN iterate_internal(Rt(t), left, right, root + 1)
             ELSE <<>>)
iterate_on_range(d, left, right) ==
  IF d.arr THEN SubSeq(d.vals, left + 1, right)
  ELSE iterate_internal(d.root, left, right, 0)
\* The callback f of iterate_ptr changes the values where they lie.
RECURSIVE iterate_ptr_internal(_, _)
iterate_ptr_internal(t, f) ==
  IF t = Null THEN Null
  ELSE <<iterate_ptr_internal(Lt(t), f), [Node(t) EXCEPT !.v = f[@]],
         iterate_ptr_internal(Rt(t), f), t[4]>>
iterate_ptr(d, f) ==
  IF d.arr THEN [d EXCEPT !.vals = [i \in DOMAIN @ |-> [@[i] EXCEPT !.v = f[@]]]]
  ELSE [d EXCEPT !.root = iterate_ptr_internal(@, f)]

-----------------------------------------------------------------------------
(* The builder: values appended in order, then made a structure.           *)

\* Mutant: room for the lengths of the values and not for their padding.
BuilderSpaceMut(header, n, bytes) == toku_mempool_construct(header * n + bytes)
BuilderSpace(header, n, bytes) ==
  toku_mempool_construct((ALIGNMENT - 1 + header) * n + bytes)
builder_append(b, x) ==
  CASE b.same /\ (b.vals = <<>> \/ x.len = b.vlen) -> insert_at_array_end(b, x, FALSE)
    [] ~(b.same /\ (b.vals = <<>> \/ x.len = b.vlen)) /\ b.arr ->
         [b EXCEPT !.arr = FALSE, !.same = FALSE, !.vlen = 0, !.vals = Append(@, x),
                   !.mp = [toku_mempool_malloc(BuilderSpace(NodeHeader, b.n, b.bytes),
                                               Bytes(Append(b.vals, x)))
                             EXCEPT !.ok = @ /\ b.mp.ok]]
    [] ~(b.same /\ (b.vals = <<>> \/ x.len = b.vlen)) /\ ~b.arr ->
         [b EXCEPT !.vals = Append(@, x),
                   !.mp = toku_mempool_malloc(@, NodeBytes(x.len))]
builder_build(vals, n, bytes) ==
  LET b    == FoldLeft(builder_append,
                       [arr |-> TRUE, same |-> TRUE, vlen |-> 0, vals |-> <<>>,
                        root |-> Null, mp |-> BuilderSpace(0, n, bytes),
                        n |-> n, bytes |-> bytes], vals)
      used == toku_mempool_get_used_size(b.mp)
      max  == used + (ALIGNMENT - 1) * Len(vals)
      d(mp) == [arr |-> b.arr, same |-> b.same, vlen |-> b.vlen,
                vals |-> IF b.arr THEN vals ELSE <<>>,
                root |-> IF b.arr THEN Null
                         ELSE rebuild_subtree_from_offsets(Offsets(vals, 0)), mp |-> mp]
  IN  d(IF b.mp.size > max + max \div 4
        THEN [toku_mempool_malloc(toku_mempool_construct(used), used)
                EXCEPT !.ok = @ /\ b.mp.ok /\ Len(vals) <= n]
        ELSE b.mp)

-----------------------------------------------------------------------------
RECURSIVE Subtrees(_)
Subtrees(t) ==
  IF t = Null THEN {} ELSE {t} \union Subtrees(Lt(t)) \union Subtrees(Rt(t))

\* What verify and verify_internal ask of a structure, and that nothing it
\* asked the pool for was refused.
dmt_verify(d) ==
  \E used \in {toku_mempool_get_used_size(d.mp)} :
  \E nodes \in {{Node(t) : t \in Subtrees(d.root)}} :
  LET Reach(x) == x.off .. x.off + NodeBytes(x.len) - 1
  IN  /\ d.mp.ok /\ d.mp.free <= d.mp.size
      /\ d.arr => d.same /\ used = Len(d.vals) * align(d.vlen) /\ d.mp.frag = 0
      /\ ~d.arr =>
           /\ d.same => /\ used = nweight(d.root) * NodeBytes(d.vlen)
                        /\ \A x \in nodes : x.len = d.vlen
           /\ \A x \in nodes : x.off + NodeBytes(x.len) <= d.mp.free
           /\ \A x, y \in nodes : x # y => Reach(x) \intersect Reach(y) = {}
           /\ Cardinality(UNION {Reach(x) : x \in nodes}) = used
           /\ \A t \in Subtrees(d.root) : /\ t[4] = nweight(Lt(t)) + nweight(Rt(t)) + 1
                                          /\ ~will_need_rebalance(t, 0, 0)

-----------------------------------------------------------------------------
(* Basement nodes.                                                         *)

KLHeader == 4 \* le_offset, before the key in a klpair_struct

SumOf(f) == FoldFunction(LAMBDA a, b : a + b, 0, f)
KeysBytes(rows) == SumOf([i \in DOMAIN rows |-> KLHeader + KeyLen[rows[i].key]])
LeBytes(rows) == SumOf([i \in DOMAIN rows |-> rows[i].le.size])
\* The offsets of leaf entries laid out one after the other.
Place(rows, i) == SumOf([j \in 1 .. i - 1 |-> rows[j].le.size])

klpair(key, off) == [len |-> KLHeader + KeyLen[key], v |-> [key |-> key, off |-> off]]
Garbage == [id |-> 0, size |-> 1]
get_le_from_klpair(b, x) == IF x.v.off \in DOMAIN b.mem THEN b.mem[x.v.off] ELSE Garbage
num_klpairs(b) == dmt_size(b.buf)
RowsOf(b, xs) == [i \in DOMAIN xs |-> [key |-> xs[i].v.key, le |-> get_le_from_klpair(b, xs[i])]]
Rows(b) == RowsOf(b, Contents(b.buf))

init_zero == [buf |-> dmt_create, mp |-> toku_mempool_construct(0), mem |-> <<>>, keys |-> 0]
WriteAt(mem, off, le) == [o \in DOMAIN mem \union {off} |-> IF o = off THEN le ELSE mem[o]]

\* Keys and leaf entries appended to a new node in order: n and bytes are what
\* the builder of the keys is told, mp the pool for the leaf entries.
Filled(rows, n, bytes, mp) ==
  [buf  |-> builder_build([i \in DOMAIN rows |-> klpair(rows[i].key, Place(rows, i))], n, bytes),
   mp   |-> toku_mempool_malloc(mp, LeBytes(rows)),
   mem  |-> [o \in {Place(rows, i) : i \in DOMAIN rows} |->
               (CHOOSE r \in {<<Place(rows, i), rows[i].le>> : i \in DOMAIN rows} : r[1] = o)[2]],
   keys |-> KeysBytes(rows)]

\* Moves the leaf entries to a pool with room for added more bytes.
\* Mutant: they are put in order without telling the keys.
dmt_compress_kvspaceMut(b, added, force) ==
  LET rows == Rows(b)
      need == toku_mempool_get_used_size(b.mp) + added
  IN  [Filled(rows, Len(rows), b.keys, toku_mempool_construct((need * 3) \div 2))
         EXCEPT !.buf = b.buf, !.keys = b.keys]
dmt_compress_kvspace(b, added, force) ==
  LET need == toku_mempool_get_used_size(b.mp) + added
      To(rows) == [v \in {x.v : x \in Range(Contents(b.buf))} |->
                     [v EXCEPT !.off =
                        Place(rows, CHOOSE i \in DOMAIN rows : rows[i].key = v.key)]]
      Packed(rows, new) == [b EXCEPT !.buf = iterate_ptr(@, To(rows)), !.mp = new.mp,
                                     !.mem = new.mem]
      Pack(rows) == Packed(rows, Filled(rows, Len(rows), b.keys,
                                        toku_mempool_construct(IF force THEN need
                                                               ELSE (need * 3) \div 2)))
  IN  IF b.mp.frag > 0 \/ force THEN Pack(Rows(b))
      ELSE [b EXCEPT !.mp = toku_mempool_malloc(toku_mempool_construct(need), @.free)]
mempool_malloc_and_update_dmt(b, size) ==
  [(IF b.mp.free + size > b.mp.size THEN dmt_compress_kvspace(b, size, FALSE) ELSE b)
     EXCEPT !.mp = toku_mempool_malloc(@, size)]

\* The caller writes the leaf entry into the space it is given.
get_space_for_insert(b, idx, key, le) ==
  LET Put(c, off) == [c EXCEPT !.keys = @ + KLHeader + KeyLen[key],
                               !.mem = WriteAt(@, off, le),
                               !.buf = insert_at(@, klpair(key, off), idx)]
      AtEnd(c) == Put(c, c.mp.free - le.size)
  IN  AtEnd(mempool_malloc_and_update_dmt(b, le.size))
Moved(buf, at, off) ==
  iterate_ptr(buf, [v \in {x.v : x \in Range(Contents(buf))} |->
                      IF v = at THEN [v EXCEPT !.off = off] ELSE v])
\* Mutant: the space of the old leaf entry is not given up.
get_space_for_overwriteMut(b, idx, le) ==
  LET Put(c, off) == [c EXCEPT !.mem = WriteAt(@, off, le),
                               !.buf = Moved(@, fetch(@, idx).v, off)]
      AtEnd(c) == Put(c, c.mp.free - le.size)
  IN  AtEnd(mempool_malloc_and_update_dmt(b, le.size))
get_space_for_overwrite(b, idx, le) ==
  LET Put(c, x, off) ==
        [c EXCEPT !.mem = WriteAt(@, off, le), !.buf = Moved(@, x.v, off),
                  !.mp = toku_mempool_mfree(@, get_le_from_klpair(c, x).size)]
      AtEnd(c) == Put(c, fetch(c.buf, idx), c.mp.free - le.size)
  IN  AtEnd(mempool_malloc_and_update_dmt(b, le.size))
delete_leafentry(b, idx) ==
  LET x == fetch(b.buf, idx)
  IN  [b EXCEPT !.keys = @ - x.len, !.buf = delete_at(@, idx),
                !.mp = toku_mempool_mfree(@, get_le_from_klpair(b, x).size)]

-----------------------------------------------------------------------------
(* On disk.                                                                *)

prepare_to_serialize(b) ==
  IF b.buf.same
  THEN dmt_compress_kvspace([b EXCEPT !.buf = prepare_for_serialize(@)], 0, TRUE) ELSE b
serialize_header(b) ==
  [key_data_size |-> b.keys, val_data_size |-> toku_mempool_get_used_size(b.mp),
   fixed |-> b.buf.same, fixed_klpair_length |-> IF b.buf.same THEN b.buf.vlen ELSE 0]
\* With keys of one length the array of keys and the pool are written as they
\* are, otherwise the rows one by one.
serialize_to_wbuf(b) ==
  [header |-> serialize_header(b), n |-> num_klpairs(b),
   keys |-> IF b.buf.same THEN b.buf.vals ELSE <<>>, mem |-> b.mem,
   rows |-> IF b.buf.same THEN <<>> ELSE Rows(b)]
initialize_from_separate_keys_and_vals(w) ==
  LET size == w.header.val_data_size
      mp   == toku_mempool_construct(size)
  IN  [buf  |-> create_from_sorted_memory_of_fixed_size_elements(
                  w.keys, w.header.fixed_klpair_length),
       mp   |-> IF w.n > 0 THEN toku_mempool_malloc(mp, size) ELSE mp,
       mem  |-> [o \in {p \in DOMAIN w.mem : p < size} |-> w.mem[o]],
       keys |-> w.n * w.header.fixed_klpair_length]
DeserializedRows(rows, key_data_size, val_data_size) ==
  Filled(rows, Len(rows), key_data_size,
         [toku_mempool_construct(val_data_size) EXCEPT !.free = 0])
deserialize_from_rbuf(w) ==
  IF w.header.fixed THEN initialize_from_separate_keys_and_vals(w)
  ELSE DeserializedRows(w.rows, w.header.key_data_size, w.header.val_data_size)
\* A node of version 25 or older has no header: the bytes of all the rows are
\* the guess for both sizes, and the pool shrinks in the end.
deserialize_version_25(rows) ==
  LET data == KeysBytes(rows) + LeBytes(rows)
      b    == DeserializedRows(rows, data, data)
  IN  [b EXCEPT !.mp = toku_mempool_realloc_larger(@, toku_mempool_get_used_size(@))]

-----------------------------------------------------------------------------
(* Whole nodes.                                                            *)

split_klpairs(b, at) ==
  LET rows == Rows(b)
      left == SubSeq(rows, 1, at)
      right == SubSeq(rows, at + 1, Len(rows))
      mp   == toku_mempool_construct(toku_mempool_get_used_size(b.mp))
      Half(part) == [Filled(part, Len(part), b.keys, mp) EXCEPT
                       !.mp = toku_mempool_realloc_larger(@, toku_mempool_get_used_size(@))]
  IN  <<[Half(left) EXCEPT !.keys = b.keys - KeysBytes(rows) + @], Half(right)>>
set_contents_as_clone_of_sorted_array(rows) ==
  Filled(rows, Len(rows), KeysBytes(rows), toku_mempool_construct(LeBytes(rows)))
bn_clone(b) == [b EXCEPT !.mp = toku_mempool_clone(@), !.buf = dmt_clone(@)]

-----------------------------------------------------------------------------

Live(b) == {x.v.off : x \in Range(Contents(b.buf))} \intersect DOMAIN b.mem
\* What nothing refers to any more is forgotten.
Becomes(b) ==
  /\ bn.ops < MaxOps
  /\ bn' = [buf |-> b.buf, mp |-> b.mp, mem |-> Restrict(b.mem, Live(b)), keys |-> b.keys,
            ops |-> bn.ops + 1]

BnInit ==
  \E S \in Starts : \E ks \in {SetToSortSeq(S, <)} :
    /\ ref = [i \in DOMAIN ks |-> [key |-> ks[i], le |-> Leaf[ks[i]]]]
    /\ bn = [buf |-> IF S = {} THEN dmt_create ELSE set_contents_as_clone_of_sorted_array(ref).buf,
             mp |-> set_contents_as_clone_of_sorted_array(ref).mp,
             mem |-> set_contents_as_clone_of_sorted_array(ref).mem,
             keys |-> KeysBytes(ref), ops |-> 0]

BnInsert ==
  \E k \in BnKeys : \E f \in {find_zero(bn.buf, k)} :
    /\ ~f[1]
    /\ \E b \in {get_space_for_insert(bn, f[2], k, Leaf[k])} : Becomes(b)
    /\ ref' = InsertAt(ref, f[2] + 1, [key |-> k, le |-> Leaf[k]])
BnOverwrite ==
  \E k \in BnKeys, le \in Leaves : \E f \in {find_zero(bn.buf, k)} :
    /\ f[1]
    /\ \E b \in {get_space_for_overwrite(bn, f[2], le)} : Becomes(b)
    /\ ref' = [ref EXCEPT ![f[2] + 1].le = le]
BnDelete ==
  \E i \in 0 .. num_klpairs(bn) - 1 :
    /\ \E b \in {delete_leafentry(bn, i)} : Becomes(b)
    /\ ref' = RemoveAt(ref, i + 1)
BnWrite == (\E b \in {prepare_to_serialize(bn)} : Becomes(b)) /\ UNCHANGED ref
BnRead ==
  /\ \E b \in {prepare_to_serialize(bn)} : \E w \in {serialize_to_wbuf(b)} :
       \E c \in {deserialize_from_rbuf(w)} : Becomes(c)
  /\ UNCHANGED ref
BnUpgrade == (\E b \in {deserialize_version_25(ref)} : Becomes(b)) /\ UNCHANGED ref
\* A basement is cut where neither part is empty; one of the parts goes on.
BnSplit ==
  \E at \in 1 .. num_klpairs(bn) - 1, half \in {1, 2} :
    /\ \E b \in {split_klpairs(bn, at)[half]} : Becomes(b)
    /\ ref' = IF half = 1 THEN SubSeq(ref, 1, at) ELSE SubSeq(ref, at + 1, Len(ref))
BnRebalance ==
  /\ \E b \in {set_contents_as_clone_of_sorted_array(Rows(bn))} : Becomes(b)
  /\ UNCHANGED ref
BnClone == (\E b \in {bn_clone(bn)} : Becomes(b)) /\ UNCHANGED ref

BnNext == BnInsert \/ BnOverwrite \/ BnDelete \/ BnWrite \/ BnRead \/ BnUpgrade
            \/ BnSplit \/ BnRebalance \/ BnClone

-----------------------------------------------------------------------------

\* Whatever was inserted, overwritten, deleted, moved, written and read again,
\* the node holds the rows in the order of their keys, each with its own leaf
\* entry, and searches, fetches and iterations find them (bndata.cc, dmt.cc).
BasementHolds ==
  LET Count(P(_)) == Cardinality({i \in DOMAIN ref : P(ref[i].key)})
      d == bn.buf
  IN  /\ Rows(bn) = ref
      /\ \A k \in BnKeys :
           /\ find_zero(d, k) = <<k \in {ref[i].key : i \in DOMAIN ref},
                                  Count(LAMBDA x : x < k)>>
           /\ \E p \in {dmt_find(d, k, 1)} :
                IF p[1] THEN p[2] = Count(LAMBDA x : x <= k)
                ELSE Count(LAMBDA x : x > k) = 0
           /\ \E p \in {dmt_find(d, k, -1)} :
                IF p[1] THEN p[2] = Count(LAMBDA x : x < k) - 1
                ELSE Count(LAMBDA x : x < k) = 0
      /\ \E xs \in {Contents(d)} : \A i \in DOMAIN ref : fetch(d, i - 1) = xs[i]
      /\ \A l, r \in 0 .. Len(ref) :
           l < r => RowsOf(bn, iterate_on_range(d, l, r)) = SubSeq(ref, l + 1, r)

\* The two pools are never asked for more than they hold, no two leaf entries
\* and no two nodes of the tree overlap, and the sizes the node keeps, which say
\* how many bytes it writes, are those of its rows (get_disk_size, verify_mempool).
BasementSpace ==
  \E xs \in {Contents(bn.buf)} :
    LET Reach(i) == xs[i].v.off .. xs[i].v.off + get_le_from_klpair(bn, xs[i]).size - 1
    IN  /\ dmt_verify(bn.buf) /\ bn.mp.ok
        /\ \A i \in DOMAIN xs : \A o \in Reach(i) : o < bn.mp.free
        /\ \A i, j \in DOMAIN xs : i < j => Reach(i) \intersect Reach(j) = {}
        /\ toku_mempool_get_used_size(bn.mp) = LeBytes(ref)
        /\ bn.keys = KeysBytes(ref)
=============================================================================
