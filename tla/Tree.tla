------------------------------- MODULE Tree -------------------------------
(***************************************************************************)
(* The fractal tree.  Messages are injected at the root or promoted below  *)
(* it, wait in the buffers of internal nodes, are flushed towards the      *)
(* leaves by background threads, the cleaner and hot optimization, and are *)
(* applied to a leaf's basements by queries before they are flushed.       *)
(* Nodes split and merge on the way; leaves are written, rebalanced and    *)
(* evicted basement by basement.                                           *)
(*                                                                         *)
(* Internal nodes are always in memory.  A row is a committed value: what  *)
(* transactions add to a row is the subject of LeafEntry and Mvcc.  Sizes  *)
(* are numbers of rows.                                                    *)
(***************************************************************************)
EXTENDS Integers, Sequences, FiniteSets, SequencesExt, FiniteSetsExt

CONSTANTS MaxKey,      \* the keys are 1..MaxKey
          Blocks,      \* block numbers; Root is the root's
          Configs,     \* what a behaviour starts with, see Init
          Threshold    \* FT_SEQINSERT_SCORE_THRESHOLD

VARIABLES
  node,        \* the nodes of the tree
  rightmost,   \* rightmost_blocknum, 0 when not known
  score,       \* seqinsert_score
  msn,         \* max_msn_in_ft
  last,        \* the operation done last
  map,         \* history: what the operations made of the dictionary
  fl,          \* the flush under way on each thread
  hot,         \* the hot optimization
  search,      \* a cursor's search
  must,        \* history: rows the search may not skip
  conf         \* sizes and the work left to do

vars == <<node, rightmost, score, msn, last, map, fl, hot, search, must, conf>>

Keys == 1..MaxKey
Root == 1
Threads == {"bg", "cleaner", "hot"}
Ops == [type : {"insert", "insert_no_overwrite", "delete", "update"}, key : Keys, val : 1..3]
         \cup [type : {"update_broadcast", "optimize"}, key : {0}, val : {0}]

\* The dictionary that the tree implements; its operations are the injections.
Dict == INSTANCE Dictionary WITH n <- msn

\* ------------------------------------------------------------------- nodes

Free == [h |-> -1]
Idle == [pc |-> "idle"]

Basement(rows, m) == [rows |-> rows, msn |-> m, stale |-> FALSE, avail |-> TRUE]
Leaf(piv, bns, m) == [h |-> 0, piv |-> piv, bns |-> bns, msn |-> m, dirty |-> TRUE, disk |-> <<>>]
Nonleaf(h, piv, kids, bufs, m) == [h |-> h, piv |-> piv, kids |-> kids, bufs |-> bufs, msn |-> m]

RowKeys(rows) == {k \in DOMAIN rows : rows[k] # 0}
AllRows(n) == [k \in Keys |-> Max({n.bns[i].rows[k] : i \in DOMAIN n.bns})]
NumRows(n) == Cardinality(RowKeys(AllRows(n)))
Sorted(S) == [i \in 1..Cardinality(S) |-> CHOOSE x \in S : Cardinality({y \in S : y < x}) = i - 1]
NumChildren(n) == Len(n.piv) + 1
NewBlock == Min({b \in Blocks : node[b] = Free})

which_child(n, k) == Cardinality({i \in DOMAIN n.piv : n.piv[i] < k}) + 1
hot_next_child(n, k) == Cardinality({i \in DOMAIN n.piv : n.piv[i] <= k}) + 1

\* The blocks from the root to the leaf that k belongs to.
Path(k) ==
  LET down[b \in Blocks] ==
        IF node[b].h = 0 THEN <<b>> ELSE <<b>> \o down[node[b].kids[which_child(node[b], k)]]
  IN down[Root]

Bottom(k) == Last(Path(k))
Buffer(b, k) == node[b].bufs[which_child(node[b], k)]

\* A leaf that is sequentially inserted into is not merged; which one is, is left open.
get_reactivity(n) ==
  LET size == IF n.h = 0 THEN NumRows(n) ELSE NumChildren(n)
      limit == IF n.h = 0 THEN conf.nodesize ELSE conf.fanout
  IN IF size > limit THEN {"fissible"}
     ELSE IF size * 4 >= limit THEN {"stable"}
     ELSE IF n.h = 0 THEN {"fusible", "stable"} ELSE {"fusible"}

\* ---------------------------------------------------------------- messages

\* toku_ft_leaf_apply_msg, cn: the basement of a message for one key
leaf_apply_msg(n, cn, m) ==
  [n EXCEPT !.dirty = TRUE, !.msn = Max({@, m.msn}),
            !.bns = [i \in DOMAIN @ |->
               IF (m.key = 0 \/ i = cn) /\ m.msn > @[i].msn
               THEN [@[i] EXCEPT !.rows = Dict!Applied(@, m), !.msn = m.msn]
               ELSE @[i]]]

nonleaf_put_msg(n, cn, m) ==
  [n EXCEPT !.msn = m.msn,
            !.bufs = [i \in DOMAIN @ |-> IF m.key = 0 \/ i = cn THEN Append(@[i], m) ELSE @[i]]]

put_msg(n, cn, m) == IF n.h = 0 THEN leaf_apply_msg(n, cn, m) ELSE nonleaf_put_msg(n, cn, m)

\* Every message of a buffer, in the order of the buffer; the child has become dirty.
bnc_flush_to_child(n, bnc) ==
  FoldLeft(LAMBDA c, m : put_msg(c, which_child(c, m.key), m),
           IF n.h = 0 THEN [n EXCEPT !.dirty = TRUE] ELSE n, bnc)

bring_node_fully_into_memory(n) ==
  IF n.h = 0 THEN [n EXCEPT !.bns = [i \in DOMAIN @ |-> [@[i] EXCEPT !.avail = TRUE]]] ELSE n

\* toku_evict_bn_from_memory: what is read back later is what was written.
evict_bn(n, S) ==
  [n EXCEPT !.bns = [i \in DOMAIN @ |-> IF i \in S THEN [n.disk[i] EXCEPT !.avail = FALSE] ELSE @[i]]]

\* The cleaner flushes from the middle of the tree: a clean leaf with several basements
\* forgets what queries applied from above the parent.
maybe_destroy_child_blbsMut(parent, n) == n
maybe_destroy_child_blbs(parent, n) ==
  IF n.h = 0 /\ NumChildren(n) > 1 /\ ~n.dirty
  THEN evict_bn(n, {i \in DOMAIN n.bns : n.bns[i].avail /\ parent.msn < n.bns[i].msn})
  ELSE n

\* ---------------------------------------------------------- splits and merges

\* <<basements on the left, rows of the last of them on the left>>, cnt: rows of each basement
split_evenly(cnt, half) ==
  LET upto[i \in 0..Len(cnt)] == IF i = 0 THEN 0 ELSE upto[i - 1] + cnt[i]
      \* the basement and the row of it at which half of the size is reached
      reached == {<<i, j>> \in (DOMAIN cnt) \X Keys : j <= cnt[i] /\ upto[i - 1] + j >= half}
  IN CHOOSE l \in reached : \A x \in reached : l[1] < x[1] \/ (l[1] = x[1] /\ l[2] <= x[2])

not_all_left(l, cnt) ==
  IF l = <<Len(cnt), cnt[Len(cnt)]>>
  THEN IF l[2] > 1 THEN <<l[1], l[2] - 1>> ELSE <<l[1] - 1, cnt[l[1] - 1]>>
  ELSE l

ftleaf_get_split_loc(cnt, mode, half) ==
  CASE mode = "left_heavy" -> IF Last(cnt) > 0 THEN <<Len(cnt), Last(cnt)>> ELSE <<Len(cnt) - 1, cnt[Len(cnt) - 1]>>
    [] mode = "right_heavy" -> <<1, Min({1, cnt[1]})>>
    [] mode = "evenly" -> not_all_left(split_evenly(cnt, half), cnt)

Cut(bn, S, m) == [bn EXCEPT !.rows = [k \in Keys |-> IF k \in S THEN bn.rows[k] ELSE 0], !.msn = m]
Fresh(bn) == [bn EXCEPT !.stale = FALSE]

\* The two halves and the pivot between them: i basements stay on the left, and of the last
\* of them the rows of left.
split_on_boundary(n, i, ks) ==
  [a |-> Leaf(SubSeq(n.piv, 1, i - 1), SubSeq(n.bns, 1, i), n.msn),
   b |-> Leaf(SubSeq(n.piv, i + 1, Len(n.piv)),
              IF i < Len(n.bns) THEN SubSeq(n.bns, i + 1, Len(n.bns)) ELSE <<Fresh(Cut(n.bns[i], {}, 0))>>, n.msn),
   k |-> IF i < Len(n.bns) THEN n.piv[i] ELSE Max(ks)]

split_in_basement(n, i, left, ks) ==
  [a |-> Leaf(SubSeq(n.piv, 1, i - 1), Append(SubSeq(n.bns, 1, i - 1), Cut(n.bns[i], left, n.bns[i].msn)), n.msn),
   b |-> Leaf(SubSeq(n.piv, i, Len(n.piv)),
              <<Fresh(Cut(n.bns[i], ks \ left, n.bns[i].msn))>> \o SubSeq(n.bns, i + 1, Len(n.bns)), n.msn),
   k |-> Max(left)]

split_at(n, i, left, ks) ==
  IF left \in {{}, ks} THEN split_on_boundary(n, i, ks) ELSE split_in_basement(n, i, left, ks)

FirstRows(ks, j) == {k \in ks : Cardinality({x \in ks : x < k}) < j}
split_loc(n, loc, ks) == split_at(n, loc[1], FirstRows(ks, loc[2]), ks)
split_bn(n, loc) == split_loc(n, loc, RowKeys(n.bns[loc[1]].rows))
ftleaf_split(n, mode) ==
  split_bn(n, ftleaf_get_split_loc([i \in DOMAIN n.bns |-> Cardinality(RowKeys(n.bns[i].rows))],
                                   mode, NumRows(n) \div 2))

half_of(n, from, to) ==
  Nonleaf(n.h, SubSeq(n.piv, from, to - 1), SubSeq(n.kids, from, to), SubSeq(n.bufs, from, to), n.msn)
split_children(n, na) == [a |-> half_of(n, 1, na), b |-> half_of(n, na + 1, NumChildren(n)), k |-> n.piv[na]]
ft_nonleaf_split(n) == split_children(n, NumChildren(n) \div 2)

\* Child cn of p, in block c, becomes two, in blocks a and b; s: the halves.
handle_split_of_child(nd, p, cn, s, a, b) ==
  [nd EXCEPT ![a] = s.a, ![b] = s.b,
             ![p].kids = InsertAt(ReplaceAt(@, cn, a), cn + 1, b),
             ![p].bufs = InsertAt(@, cn + 1, <<>>),
             ![p].piv = InsertAt(@, cn, s.k)]

\* The rightmost leaf keeps its block.
split_block(nd, p, cn, c, mode, new) ==
  handle_split_of_child(nd, p, cn, IF nd[c].h = 0 THEN ftleaf_split(nd[c], mode) ELSE ft_nonleaf_split(nd[c]),
                        IF c = rightmost THEN new ELSE c, IF c = rightmost THEN c ELSE new)
ft_split_child(nd, p, cn, mode, new) == split_block(nd, p, cn, nd[p].kids[cn], mode, new)

\* b's first basement takes over what a's last one covered when that is empty.
merge_tailMut(a, b, ks) == Leaf(Append(a.piv, Max(ks \cup {1})) \o b.piv, a.bns \o b.bns, a.msn)
merge_tail(a, b, ks) ==
  IF ks = {} THEN Leaf(a.piv \o b.piv, Front(a.bns) \o b.bns, a.msn)
  ELSE Leaf(Append(a.piv, Max(ks)) \o b.piv, a.bns \o b.bns, a.msn)
merge_leaf_nodes(a, b) == merge_tail(a, b, RowKeys(Last(a.bns).rows))

maybe_merge_pinned_leaf_nodes(a, b, ra, rb) ==
  IF ra + rb <= 1 \/ (ra + rb) * 4 <= conf.nodesize * 3 THEN "merge"
  ELSE IF ra * 4 > conf.nodesize /\ rb * 4 > conf.nodesize THEN "nothing"
  ELSE "rebalance"

merge_nonleaf_nodes(a, b, pivot) ==
  Nonleaf(a.h, Append(a.piv, pivot) \o b.piv, a.kids \o b.kids, a.bufs \o b.bufs, a.msn)

\* The nodes after children ca and ca + 1 of p, in blocks ba and bb, with their buffers
\* applied, became one, in block keep, or share their rows anew.
merged(nd, p, ca, ba, bb, keep, n) ==
  [nd EXCEPT ![ba] = Free, ![bb] = Free, ![keep] = n,
             ![p].kids = RemoveAt(ReplaceAt(@, ca, keep), ca + 1),
             ![p].bufs = RemoveAt(@, ca + 1), ![p].piv = RemoveAt(@, ca)]
rebalanced(nd, p, ca, ba, bb, s) ==
  [nd EXCEPT ![ba] = s.a, ![bb] = s.b, ![p].piv = ReplaceAt(@, ca, s.k)]
WithMsn(n, m) == [n EXCEPT !.msn = m]

maybe_merge_pinned_nodes(nd, p, ca, ba, bb, a, b, max) ==
  IF a.h > 0
  THEN merged(nd, p, ca, ba, bb, ba, WithMsn(merge_nonleaf_nodes(a, b, nd[p].piv[ca]), max))
  ELSE CASE maybe_merge_pinned_leaf_nodes(a, b, NumRows(a), NumRows(b)) = "merge" ->
              merged(nd, p, ca, ba, bb, IF bb = rightmost THEN bb ELSE ba, WithMsn(merge_leaf_nodes(a, b), max))
         [] maybe_merge_pinned_leaf_nodes(a, b, NumRows(a), NumRows(b)) = "rebalance" ->
              rebalanced(nd, p, ca, ba, bb, ftleaf_split(WithMsn(merge_leaf_nodes(a, b), max), "evenly"))
         [] OTHER -> [nd EXCEPT ![ba] = a, ![bb] = b]

pinned_msn(nd, p, ca, ba, bb, a, b) == maybe_merge_pinned_nodes(nd, p, ca, ba, bb, a, b, Max({a.msn, b.msn}))

flush_this_child(n, buf) == IF buf = <<>> THEN n ELSE bnc_flush_to_child(n, buf)

merge_pair(nd, p, ca, ba, bb) ==
  pinned_msn([nd EXCEPT ![p].bufs = [i \in DOMAIN @ |-> IF i \in {ca, ca + 1} THEN <<>> ELSE @[i]]], p, ca, ba, bb,
             flush_this_child(bring_node_fully_into_memory(nd[ba]), nd[p].bufs[ca]),
             flush_this_child(bring_node_fully_into_memory(nd[bb]), nd[p].bufs[ca + 1]))

\* The left one of the two children that are merged for child cn, and the merge.
LeftOf(cn) == IF cn > 1 THEN cn - 1 ELSE cn
ft_merge_child(p, ca) == merge_pair(node, p, ca, node[p].kids[ca], node[p].kids[ca + 1])

\* ------------------------------------------------------------------ flushes
\* A flush holds the locks of fl[t].node (0: released) and of fl[t].child.  fa is the
\* advice: "flt" after an injection, "ct" of the cleaner, "ctm" of the cleaner once it
\* merges a leaf, "hot".

Held(f) == CASE f.pc \in {"pick", "merge"} -> {f.node}
             [] f.pc = "apply" -> {f.node, f.child} \ {0}
             [] OTHER -> {}
Locked == UNION {Held(fl[t]) : t \in Threads}
Pick(fa, b, to) == [pc |-> "pick", fa |-> fa, node |-> b, to |-> to]

\* The end of a flush; hot optimization goes on with its next round.
Finished(t) == IF t = "hot" THEN [pc |-> "round"] ELSE Idle

\* Whether a buffer is large enough to be flushed is left open.
may_be_gorged(n) == n.h > 0 /\ \E i \in DOMAIN n.bufs : n.bufs[i] # <<>>
recurse(fa, n) == IF n.h = 0 THEN {FALSE}
                  ELSE IF fa \in {"hot", "ctm"} THEN {TRUE}
                  ELSE IF may_be_gorged(n) THEN BOOLEAN ELSE {FALSE}

\* pick_heaviest_child, ctm_pick_child, hot_just_pick_child
hot_just_pick_child(n) == IF hot.highest = 0 THEN 1 ELSE hot_next_child(n, hot.highest)
pick_child(f) ==
  LET n == node[f.node]
  IN CASE f.fa \in {"flt", "ct"} -> {i \in DOMAIN n.bufs : n.bufs[i] # <<>>}
       [] f.fa = "ctm" -> {IF n.h = 1 /\ f.to.last THEN NumChildren(n) ELSE which_child(n, f.to.key)}
       [] f.fa = "hot" -> {hot_just_pick_child(n)}

hot_update_flusher_keysMut(n, cn) ==
  hot' = [hot EXCEPT !.max_current = IF cn < NumChildren(n) /\ @ = 0 THEN n.piv[cn] ELSE @]
hot_update_flusher_keys(n, cn) ==
  hot' = [hot EXCEPT !.max_current = IF cn < NumChildren(n) THEN n.piv[cn] ELSE @]

may_child_be_reactive(n) == n.h = 0 \/ get_reactivity(n) # {"stable"}

\* The first half of toku_ft_flush_some_child: the child is pinned and the buffer detached.
\* The parent is unpinned when the child cannot be reactive.
flush_some_child(t) ==
  LET f == fl[t]
      p == node[f.node]
  IN /\ f.pc = "pick"
     /\ \E cn \in pick_child(f) :
       LET c == p.kids[cn]
           n == IF f.fa = "ct" THEN maybe_destroy_child_blbs(p, node[c]) ELSE node[c]
       IN /\ c \notin Locked
          /\ node' = [node EXCEPT ![f.node].bufs[cn] = <<>>, ![c] = n]
          /\ fl' = [fl EXCEPT ![t] =
                      [pc |-> "apply", fa |-> f.fa, to |-> f.to, child |-> c, cn |-> cn, bnc |-> p.bufs[cn],
                       node |-> IF may_child_be_reactive(n) THEN f.node ELSE 0]]
          /\ IF f.fa = "hot" THEN hot_update_flusher_keys(p, cn) ELSE UNCHANGED hot
          /\ UNCHANGED <<rightmost, score, msn, last, map, search, conf>>

\* What the cleaner remembers of a leaf it wants to merge, while it starts over at the root.
ct_maybe_merge_child(p, cn) ==
  IF cn = NumChildren(p) THEN [key |-> p.piv[cn - 1], last |-> TRUE]
  ELSE [key |-> p.piv[cn], last |-> FALSE]

go(t, f, nd, b) ==
  /\ node' = nd
  /\ \E r \in recurse(f.fa, nd[b]) :
       fl' = [fl EXCEPT ![t] = IF r THEN Pick(f.fa, b, f.to) ELSE Finished(t)]

\* pick_child_after_split; hot optimization goes on in the half that its key is in.
after_split(t, f, nd) ==
  IF f.fa # "hot"
  THEN /\ UNCHANGED hot
       /\ \E i \in IF f.fa = "ctm" THEN {f.cn} ELSE {f.cn, f.cn + 1} : go(t, f, nd, nd[f.node].kids[i])
  ELSE \E cn \in {hot_just_pick_child(nd[f.node])} :
         /\ hot_update_flusher_keys(nd[f.node], cn)
         /\ go(t, f, nd, nd[f.node].kids[cn])

merge_next(t, f, leaf, p) ==
  fl' = [fl EXCEPT ![t] = IF f.fa = "ct" /\ leaf
                          THEN [pc |-> "root", to |-> ct_maybe_merge_child(p, f.cn)]
                          ELSE [pc |-> "merge", fa |-> f.fa, to |-> f.to, node |-> f.node, cn |-> f.cn]]

\* The second half: the buffer is applied; then the child is flushed further, split or merged.
\* re0 and re: what the child's reactivity was before and is after the buffer was applied
flush_apply(t) ==
  /\ fl[t].pc = "apply"
  /\ \E f \in {fl[t]}, n \in {bring_node_fully_into_memory(node[fl[t].child])} :
     \E child \in {bnc_flush_to_child(n, f.bnc)} :
     \E nd \in {[node EXCEPT ![f.child] = child]}, re0 \in get_reactivity(n), re \in get_reactivity(child) :
       \/ /\ f.node = 0 \/ re0 = "stable" \/ re = "stable" \/ (re = "fusible" /\ NumChildren(nd[f.node]) = 1)
          /\ go(t, f, nd, f.child) /\ UNCHANGED hot
       \/ /\ f.node # 0 /\ re0 # "stable" /\ re = "fissible"
          /\ after_split(t, f, ft_split_child(nd, f.node, f.cn, "evenly", NewBlock))
       \/ /\ f.node # 0 /\ re0 # "stable" /\ re = "fusible" /\ NumChildren(nd[f.node]) > 1
          /\ node' = nd /\ UNCHANGED hot
          /\ merge_next(t, f, child.h = 0, nd[f.node])
  /\ UNCHANGED <<rightmost, score, msn, last, map, search, conf>>

\* The merge waits for both children with the parent's lock held.
flush_merge(t) ==
  /\ fl[t].pc = "merge"
  /\ \E f \in {fl[t]} : \E ca \in {LeftOf(f.cn)} :
       /\ {node[f.node].kids[ca], node[f.node].kids[ca + 1]} \cap Locked = {}
       /\ \E nd \in {ft_merge_child(f.node, ca)} : go(t, f, nd, nd[f.node].kids[ca])
  /\ UNCHANGED <<rightmost, score, msn, last, map, hot, search, conf>>

\* The cleaner pins the root to flush what is above the leaf it will merge.
flush_from_root(t) ==
  /\ fl[t].pc = "root" /\ Root \notin Locked
  /\ fl' = [fl EXCEPT ![t] = Pick("ctm", Root, @.to)]
  /\ UNCHANGED <<node, rightmost, score, msn, last, map, hot, search, conf>>

\* toku_ftnode_cleaner_callback, for a node of the cleaner's choice
cleaner_callback(b) ==
  /\ conf.cleaner > 0 /\ fl["cleaner"].pc = "idle" /\ b \notin Locked /\ may_be_gorged(node[b])
  /\ fl' = [fl EXCEPT !["cleaner"] = Pick("ct", b, <<>>)]
  /\ conf' = [conf EXCEPT !.cleaner = @ - 1]
  /\ UNCHANGED <<node, rightmost, score, msn, last, map, hot, search>>

\* One round of toku_ft_hot_optimize: a flush from the root down to one leaf.
hot_optimize ==
  /\ Root \notin Locked
  /\ \/ /\ conf.hot > 0 /\ fl["hot"].pc = "idle" /\ conf' = [conf EXCEPT !.hot = @ - 1]
        /\ hot' = [highest |-> 0, max_current |-> 0, start |-> node[Root].msn, done |-> FALSE]
     \/ /\ fl["hot"].pc = "round" /\ hot.max_current # 0 /\ UNCHANGED conf
        /\ hot' = [hot EXCEPT !.highest = hot.max_current, !.max_current = 0]
  /\ fl' = [fl EXCEPT !["hot"] = IF node[Root].h > 0 THEN Pick("hot", Root, <<>>) ELSE [pc |-> "round"]]
  /\ UNCHANGED <<node, rightmost, score, msn, last, map, search>>

hot_optimize_end ==
  /\ fl["hot"].pc = "round" /\ hot.max_current = 0
  /\ fl' = [fl EXCEPT !["hot"] = Idle] /\ hot' = [hot EXCEPT !.done = TRUE]
  /\ UNCHANGED <<node, rightmost, score, msn, last, map, search, conf>>

\* --------------------------------------------------------------- injections

\* seqinsert_loc of each node of p, the path of k
Locs(p, k) ==
  LET loc[d \in DOMAIN p] ==
        IF d = 1 THEN {"left", "right"}
        ELSE IF "left" \in loc[d - 1] /\ which_child(node[p[d - 1]], k) = 1 THEN {"left"}
        ELSE IF "right" \in loc[d - 1] /\ which_child(node[p[d - 1]], k) = NumChildren(node[p[d - 1]]) THEN {"right"}
        ELSE {}
  IN loc

should_inject_in_node(loc, h, depth) == h = 0 \/ (loc = {} /\ (h = 1 \/ depth >= 2))

\* Promotion may go on from the d-th node of the path to the next one.
promotes(p, locs, d, k) ==
  /\ ~should_inject_in_node(locs[d], node[p[d]].h, d - 1)
  /\ Buffer(p[d], k) = <<>>
  /\ locs[d + 1] # {} \/ node[p[d]].h > 1

\* The depths at which push_something_in_subtree may inject: it stops at a buffer that is not
\* empty, also when that is flushed before it has the write lock, or when the birdie says so.
push_something_in_subtree(p, locs, k) ==
  {d \in DOMAIN p : /\ \A e \in 1..(d - 1) : promotes(p, locs, e, k)
                    /\ \A e \in 1..d : p[e] \notin Locked}

ft_verify_or_set_rightmost_blocknum(b, loc) ==
  rightmost' = IF rightmost = 0 /\ node[b].h = 0 /\ b # Root /\ loc = {"right"} THEN b ELSE rightmost

\* A gorged node is flushed in the background: the buffer of a child that can be locked and
\* is stable is detached at once, else the node stays locked.
flush_node_on_background_thread(b, nd) ==
  \E cn \in {i \in DOMAIN nd[b].bufs : nd[b].bufs[i] # <<>>} :
    LET c == nd[b].kids[cn]
    IN \/ /\ fl' = [fl EXCEPT !["bg"] = Pick("flt", b, <<>>)] /\ node' = nd
       \/ /\ c \notin Locked /\ ~may_child_be_reactive(nd[c])
          /\ fl' = [fl EXCEPT !["bg"] = [pc |-> "apply", fa |-> "flt", to |-> <<>>, child |-> c,
                                         cn |-> cn, bnc |-> nd[b].bufs[cn], node |-> 0]]
          /\ node' = [nd EXCEPT ![b].bufs[cn] = <<>>]

inject_message_in_locked_node(b, cn, o, type) ==
  /\ last' = o /\ Dict!Next
  /\ score' = IF b = rightmost' THEN Min({score + 1, Threshold}) ELSE 0
  /\ \E nd \in {[node EXCEPT ![b] = put_msg(bring_node_fully_into_memory(@), cn,
                   [msn |-> msn + 1, type |-> type, key |-> o.key, val |-> o.val, fresh |-> TRUE])]} :
       \/ node' = nd /\ UNCHANGED fl
       \/ /\ may_be_gorged(nd[b]) /\ fl["bg"].pc = "idle"
          /\ flush_node_on_background_thread(b, nd)
  /\ conf' = [conf EXCEPT !.ops = Tail(@)]
  /\ UNCHANGED <<hot, search>>

\* toku_ft_root_put_msg for a message that goes to one key, and for a broadcast
root_put_msg ==
  /\ conf.ops # <<>> /\ "fissible" \notin get_reactivity(node[Root])
  /\ \E o \in {Head(conf.ops)} :
       \/ /\ o.key = 0 /\ Root \notin Locked /\ UNCHANGED rightmost
          /\ inject_message_in_locked_node(Root, 0, o, o.type)
       \/ /\ o.key # 0
          /\ \E p \in {Path(o.key)} : \E locs \in {Locs(p, o.key)} :
             \E d \in push_something_in_subtree(p, locs, o.key) :
               /\ ft_verify_or_set_rightmost_blocknum(p[d], locs[d])
               /\ inject_message_in_locked_node(p[d], which_child(node[p[d]], o.key), o, o.type)

\* The root's block stays the root's; its content moves to a new block and is split.
ft_init_new_root ==
  /\ conf.ops # <<>> /\ "fissible" \in get_reactivity(node[Root]) /\ Root \notin Locked
  /\ \E r \in {bring_node_fully_into_memory(node[Root])}, new \in {NewBlock} :
     \E nd \in {[node EXCEPT ![new] = r, ![Root] = Nonleaf(r.h + 1, <<>>, <<new>>, << <<>> >>, r.msn)]} :
       node' = ft_split_child(nd, Root, 1, "evenly", Min({b \in Blocks : nd[b] = Free}))
  /\ UNCHANGED <<rightmost, score, msn, last, map, fl, hot, search, conf>>

\* Close to the edges leaves are not merged and are split unevenly.
NearEdge(parent, loc, cn) ==
  parent.h = 1 /\ (("left" \in loc /\ cn <= 2) \/ ("right" \in loc /\ cn >= NumChildren(parent) - 1))
SplitMode(parent, loc, cn) ==
  CASE parent.h = 1 /\ "left" \in loc /\ cn = 1 -> "right_heavy"
    [] parent.h = 1 /\ "right" \in loc /\ ~("left" \in loc /\ cn = 1) /\ cn = NumChildren(parent) -> "left_heavy"
    [] OTHER -> "evenly"

\* A child met while a message is promoted past its parent is split or merged first.
process_maybe_reactive_child ==
  /\ conf.ops # <<>> /\ Head(conf.ops).key # 0
  /\ \E k \in {Head(conf.ops).key} : \E p \in {Path(k)} : \E locs \in {Locs(p, k)} :
     \E d \in DOMAIN p \ {Len(p)} :
       /\ \A e \in 1..d : promotes(p, locs, e, k) /\ p[e] \notin Locked
       /\ p[d + 1] \notin Locked
       /\ \E cn \in {which_child(node[p[d]], k)}, n \in {bring_node_fully_into_memory(node[p[d + 1]])} :
          \E re \in get_reactivity(n) :
            \/ /\ re = "fissible"
               /\ node' = ft_split_child([node EXCEPT ![p[d + 1]] = n], p[d], cn,
                                         SplitMode(node[p[d]], locs[d], cn), NewBlock)
            \/ /\ re = "fusible" /\ ~NearEdge(node[p[d]], locs[d], cn) /\ NumChildren(node[p[d]]) >= 2
               /\ {node[p[d]].kids[LeftOf(cn)], node[p[d]].kids[LeftOf(cn) + 1]} \cap Locked = {}
               /\ node' = ft_merge_child(p[d], LeftOf(cn))
  /\ UNCHANGED <<rightmost, score, msn, last, map, fl, hot, search, conf>>

\* <<position relative to the leaf's rows, basement the message goes to>>
ft_leaf_get_relative_key_pos(n, rows, k) ==
  IF rows = {} THEN <<-1, 0>>
  ELSE IF k >= Max(rows) THEN <<IF k > Max(rows) THEN 1 ELSE 0, Len(n.bns)>>
  ELSE IF k > Min(rows) THEN <<0, which_child(n, k)>>
  ELSE IF k = Min(rows) THEN <<0, 1>> ELSE <<-1, 0>>

\* The shortcut to the rightmost leaf of toku_ft_maybe_insert, which passes FT_INSERT
\* whatever the type of the insertion.
ft_maybe_insert_into_rightmost_leaf ==
  /\ conf.ops # <<>> /\ score >= Threshold /\ rightmost \notin Locked
  /\ \E o \in {Head(conf.ops)}, n \in {bring_node_fully_into_memory(node[rightmost])} :
     \E pos \in {ft_leaf_get_relative_key_pos(n, RowKeys(AllRows(n)), o.key)} :
       /\ o.type \in {"insert", "insert_no_overwrite"}
       /\ "stable" \in get_reactivity(n) /\ pos[1] >= 0
       /\ UNCHANGED rightmost
       /\ inject_message_in_locked_node(rightmost, pos[2], o, "insert")

\* ------------------------------------------------------------------ queries

\* The messages of an ancestor that concern basement bn, whose keys are ks: those that no
\* query has looked at, the others unless bn has them all, and every broadcast.
concerns(m, bn, ks) == m.key = 0 \/ (m.key \in ks /\ (m.fresh \/ ~bn.stale))

\* bnc_apply_messages_to_basement_node, then the fresh messages it used become stale.
apply_rows(bn, buf, ks) ==
  FoldLeft(LAMBDA r, m : IF concerns(m, bn, ks) /\ m.msn > bn.msn THEN Dict!Applied(r, m) ELSE r, bn.rows, buf)
MarkStale(buf, ks) == [x \in DOMAIN buf |-> [buf[x] EXCEPT !.fresh = @ /\ buf[x].key \notin ks]]
apply_from(nd, a, c, b, i, ks) ==
  IF nd[a].msn > nd[b].bns[i].msn
  THEN [nd EXCEPT ![b].bns[i] = [@ EXCEPT !.rows = apply_rows(nd[b].bns[i], nd[a].bufs[c], ks), !.msn = nd[a].msn],
                  ![a].bufs[c] = MarkStale(@, ks)]
  ELSE nd

\* apply_ancestors_messages_to_bn, from the parent up to the root
apply_ancestors_messages_to_bn(nd, p, k, i, ks) ==
  [FoldLeft(LAMBDA x, a : apply_from(x, a, which_child(node[a], k), Last(p), i, ks), nd, Reverse(Front(p)))
     EXCEPT ![Last(p)].bns[i].stale = TRUE]

bn_needs_ancestors_messages(p, k, bn, ks) ==
  \E j \in 1..(Len(p) - 1) :
    /\ node[p[j]].msn > bn.msn
    /\ \E m \in ToSet(Buffer(p[j], k)) : concerns(m, bn, ks)

KeysOf(b, i) == {x \in Keys : Bottom(x) = b /\ which_child(node[b], x) = i}

\* The nodes after the basements S of the leaf at the end of p were brought up to date; when
\* nothing above concerns them, only a clean leaf notes how far it is.
bring_up_to_date(nd, p, k, S, ks, dirty, read) ==
  IF \E i \in S : bn_needs_ancestors_messages(p, k, nd[Last(p)].bns[i], ks[i])
  THEN FoldSet(LAMBDA i, x : apply_ancestors_messages_to_bn(x, p, k, i, ks[i]), nd, S)
  ELSE IF dirty THEN nd
  ELSE [nd EXCEPT ![Last(p)].bns[read].msn = Max({@} \cup {node[p[d]].msn : d \in 1..(Len(p) - 1)})]

\* toku_pin_ftnode_for_query on the leaf of k: the basement is read in; a clean leaf brings
\* that basement up to date and a dirty one all it has.
query_leaf(p, k, b, n, read) ==
  bring_up_to_date([node EXCEPT ![b].bns[read].avail = TRUE], p, k,
                   IF n.dirty THEN {i \in DOMAIN n.bns : i = read \/ n.bns[i].avail} ELSE {read},
                   [i \in DOMAIN n.bns |-> KeysOf(b, i)], n.dirty, read)
query_path(p, k) == query_leaf(p, k, Last(p), node[Last(p)], which_child(node[Last(p)], k))
pin_ftnode_for_query(k) == query_path(Path(k), k)

Unlocked(p) == \A d \in DOMAIN p : p[d] \notin Locked

\* A point query.
query(k) ==
  /\ conf.reads > 0 /\ conf' = [conf EXCEPT !.reads = @ - 1]
  /\ Unlocked(Path(k)) /\ node' = pin_ftnode_for_query(k) /\ node' # node
  /\ UNCHANGED <<rightmost, score, msn, last, map, fl, hot, search>>

\* ------------------------------------------------------------------ cursors
\* search.at stands for the key searched and the pivot bound: toku_ft_search_which_child
\* picks, at every level, the child that at belongs to.

\* The direction and the bound of each kind of search; set and current look at what
\* set_range finds.
cursor_ops(k) ==
  {<<"left", 1>>,         \* first
   <<"right", MaxKey>>,   \* last
   <<"left", k + 1>>,     \* next
   <<"right", k - 1>>,    \* prev
   <<"left", k>>,         \* set_range
   <<"right", k>>}        \* set_range_reverse

search_begin ==
  /\ search.pc = "idle" /\ conf.search # <<>>
  /\ \E k \in Keys : \E op \in cursor_ops(k) :
       search' = [pc |-> "run", dir |-> op[1], k |-> op[2], found |-> 0,
                  at |-> IF op[1] = "left" THEN op[2] ELSE op[2] + 1]
  /\ conf' = [conf EXCEPT !.search = <<>>]
  /\ UNCHANGED <<node, rightmost, score, msn, last, map, fl, hot>>

search_basement_node(rows) ==
  LET hits == {x \in RowKeys(rows) : IF search.dir = "left" THEN x >= search.k ELSE x <= search.k}
  IN IF hits = {} THEN 0 ELSE IF search.dir = "left" THEN Min(hits) ELSE Max(hits)

\* The pivots of the path beyond which more children are in the direction of the search; the
\* one closest to the leaf is saved as the bound.
more(n, c) == IF search.dir = "left" THEN IF c < NumChildren(n) THEN <<n.piv[c]>> ELSE <<>>
              ELSE IF c > 1 THEN <<n.piv[c - 1]>> ELSE <<>>
search_boundsMut(p, at) ==
  FlattenSeq([d \in DOMAIN p |-> more(node[p[Len(p) + 1 - d]], which_child(node[p[Len(p) + 1 - d]], at))])
search_bounds(p, at) == FlattenSeq([d \in DOMAIN p |-> more(node[p[d]], which_child(node[p[d]], at))])

\* One try: ft_search_node down to a basement.
search_try ==
  /\ search.pc = "run"
  /\ \E p \in {Path(search.at)} : \E nd \in {query_path(p, search.at)}, b \in {Last(p)} :
     \E f \in {search_basement_node(nd[b].bns[which_child(node[b], search.at)].rows)},
        bounds \in {search_bounds(p, search.at)} :
       /\ Unlocked(p)
       /\ node' = nd
       /\ search' = IF f # 0 THEN [search EXCEPT !.pc = "done", !.found = f]
                    ELSE IF bounds = <<>> THEN [search EXCEPT !.pc = "done"]
                    ELSE [search EXCEPT !.at = IF search.dir = "left" THEN Last(bounds) + 1 ELSE Last(bounds)]
  /\ UNCHANGED <<rightmost, score, msn, last, map, fl, hot, conf>>

\* --------------------------------------------------------- writes, evictions

\* toku_ftnode_leaf_rebalance: basements of bnsize rows, all as new as the newest was
chunks(n, rows, ks, num, max) ==
  [n EXCEPT !.piv = [i \in 1..(num - 1) |-> ks[i * conf.bnsize]], !.msn = max,
            !.bns = [i \in 1..num |->
               Basement([k \in Keys |-> IF \E j \in DOMAIN ks : ks[j] = k /\ (j - 1) \div conf.bnsize = i - 1
                                        THEN rows[k] ELSE 0], max)]]
rebalance_rows(n, rows, ks) ==
  chunks(n, rows, ks, Max({1, (Len(ks) + conf.bnsize - 1) \div conf.bnsize}),
         Max({n.bns[i].msn : i \in DOMAIN n.bns}))
leaf_rebalance(n) == rebalance_rows(n, AllRows(n), Sorted(RowKeys(AllRows(n))))

\* A dirty leaf is written, by a checkpoint's clone or by an eviction.
write_leaf(b) ==
  /\ conf.io > 0 /\ conf' = [conf EXCEPT !.io = @ - 1]
  /\ b \notin Locked /\ node[b].h = 0 /\ node[b].dirty
  /\ \E n \in {leaf_rebalance(node[b])} :
       node' = [node EXCEPT ![b] = [n EXCEPT !.dirty = FALSE, !.disk = n.bns]]
  /\ UNCHANGED <<rightmost, score, msn, last, map, fl, hot, search>>

\* toku_ftnode_pe_callback
evict_basement(b, i) ==
  /\ conf.io > 0 /\ conf' = [conf EXCEPT !.io = @ - 1]
  /\ b \notin Locked /\ node[b].h = 0 /\ ~node[b].dirty /\ node[b].bns[i].avail
  /\ node' = [node EXCEPT ![b] = evict_bn(@, {i})]
  /\ UNCHANGED <<rightmost, score, msn, last, map, fl, hot, search>>

\* ------------------------------------------------------------ specification

\* What a lookup of k finds: the row, with the messages on the way to it, in buffers or
\* detached from them, that its basement does not have.
OnTheWay(p, k) ==
  UNION ({ToSet(Buffer(p[d], k)) : d \in 1..(Len(p) - 1)}
           \cup {ToSet(fl[t].bnc) : t \in {u \in Threads : fl[u].pc = "apply" /\ fl[u].child \in ToSet(p)}})
ApplyNew(new, k, v) ==
  LET val[i \in 0..msn] ==
        IF i = 0 THEN [x \in {k} |-> v]
        ELSE IF \E m \in new : m.msn = i THEN Dict!Applied(val[i - 1], CHOOSE m \in new : m.msn = i) ELSE val[i - 1]
  IN val[msn][k]
LookupIn(bn, p, k) == ApplyNew({m \in OnTheWay(p, k) : m.msn > bn.msn /\ m.key \in {0, k}}, k, bn.rows[k])
LookupAt(p, k) == LookupIn(node[Last(p)].bns[which_child(node[Last(p)], k)], p, k)
Lookup(k) == LookupAt(Path(k), k)

Map == [k \in Keys |-> Lookup(k)]

Init ==
  /\ \E c \in Configs : /\ node = c.node
                        /\ conf = [x \in DOMAIN c \ {"node"} |-> c[x]]
  /\ rightmost = 0 /\ score = 0 /\ msn = 0
  /\ last = [type |-> "optimize", key |-> 0, val |-> 0]
  /\ fl = [t \in Threads |-> Idle]
  /\ hot = [highest |-> 0, max_current |-> 0, start |-> 0, done |-> FALSE]
  /\ search = [pc |-> "idle"] /\ must = {} /\ map = Map

Put == root_put_msg \/ ft_init_new_root \/ process_maybe_reactive_child
         \/ ft_maybe_insert_into_rightmost_leaf
Flush == \E t \in Threads :
           flush_some_child(t) \/ flush_apply(t) \/ flush_merge(t) \/ flush_from_root(t)
Background == \/ \E b \in Blocks : cleaner_callback(b)
              \/ hot_optimize \/ hot_optimize_end
              \/ \E b \in Blocks : write_leaf(b)
              \/ \E b \in Blocks : node[b].h = 0 /\ \E i \in DOMAIN node[b].bns : evict_basement(b, i)
Read == (\E k \in Keys : query(k)) \/ search_begin \/ search_try

Next ==
  /\ Put \/ Flush \/ Background \/ Read
  /\ must' = CASE search.pc = "run" -> must \cap RowKeys(map')
               [] search.pc = "idle" /\ search'.pc = "run" ->
                    {k \in RowKeys(map) : IF search'.dir = "left" THEN k >= search'.k ELSE k <= search'.k}
               [] OTHER -> must

Spec == Init /\ [][Next]_vars

\* --------------------------------------------------------------- properties

\* The tree is a dictionary: an operation takes effect when its message is injected, exactly
\* once and in the order of the sequence numbers, and no flush, split, merge, query, write or
\* eviction changes what a lookup finds (a message is never lost, applied twice or overtaken).
Implements == Map = map

Ascending(s) == \A i, j \in DOMAIN s : i < j => s[i] < s[j]
Msns(buf) == [i \in DOMAIN buf |-> buf[i].msn]

Used == {b \in Blocks : node[b] # Free}
Links == {<<a, i>> \in Used \X (1..MaxKey) : node[a].h > 0 /\ i \in DOMAIN node[a].kids}

\* A buffer on its way to node b: its keys are b's, in the order of their numbers, and an
\* internal node has not seen any of them.
verify_msg_fn(buf, b) ==
  /\ Ascending(Msns(buf))
  /\ \A i \in DOMAIN buf : /\ buf[i].key = 0 \/ Contains(Path(buf[i].key), b)
                           /\ node[b].h > 0 => buf[i].msn > node[b].msn

\* toku_verify_ftnode_internal: pivots are in order and inside the node's bounds, rows are in
\* the basement their key belongs to, buffers hold messages of their child.
verify_ftnode(b) ==
  /\ Ascending(node[b].piv) /\ \A i \in DOMAIN node[b].piv : Contains(Path(node[b].piv[i]), b)
  /\ IF node[b].h = 0
     THEN \A i \in DOMAIN node[b].bns : RowKeys(node[b].bns[i].rows) \subseteq KeysOf(b, i)
     ELSE \A i \in DOMAIN node[b].kids : verify_msg_fn(node[b].bufs[i], node[b].kids[i])

\* The tree always passes the tree verification (ft-verify.cc), between any two steps of the
\* flushes, splits and merges; every block has one place, a detached buffer still fits the
\* child it is for, and the rightmost block, once known, is the last leaf.
Verified ==
  /\ {node[l[1]].kids[l[2]] : l \in Links} = Used \ {Root}
  /\ Cardinality(Links) = Cardinality(Used) - 1
  /\ \A b \in Used : verify_ftnode(b)
  /\ \A t \in Threads : fl[t].pc = "apply" => verify_msg_fn(fl[t].bnc, fl[t].child)
  /\ rightmost \in {0, Bottom(MaxKey + 1)}

\* A search that is restarted past a bound, while leaves split and merge under it, returns no
\* row beyond one that was there all the time, and finds one if one was.
NoRowSkipped ==
  search.pc = "done" =>
    \A k \in must : search.found # 0 /\ IF search.dir = "left" THEN search.found <= k ELSE search.found >= k

\* When hot optimization ends, every message the root had seen when it began is in a leaf,
\* whatever was flushed, split and merged between its rounds.
HotFlushesAll ==
  hot.done =>
    /\ \A b \in Used : node[b].h > 0 =>
         \A i \in DOMAIN node[b].bufs : \A x \in DOMAIN node[b].bufs[i] : node[b].bufs[i][x].msn > hot.start
    /\ \A t \in Threads : fl[t].pc = "apply" => \A x \in DOMAIN fl[t].bnc : fl[t].bnc[x].msn > hot.start
=============================================================================
