-------------------------------- MODULE Omt --------------------------------
(***************************************************************************)
(* The order maintenance tree of util/omt.cc: a sorted sequence kept as an *)
(* array with room at both ends or as a weight-balanced tree whose nodes   *)
(* come from a table that is only ever filled, and that changes from one   *)
(* form to the other.  A subtree is <<>> or <<left, value, right, weight,  *)
(* marked, marks below>>; weight and marks are what the code stores.       *)
(***************************************************************************)
EXTENDS Integers, Sequences, FiniteSets, SequencesExt

CONSTANTS OmtKeys \* the values stored, compared as integers
VARIABLE omt      \* the structure and, in `ref', the sequence it stands for

Null == <<>>
Lt(t) == t[1]
Val(t) == t[2]
Rt(t) == t[3]
nweight(t) == IF t = Null THEN 0 ELSE t[4]
Tree(l, v, r, w) == <<l, v, r, w, FALSE, FALSE>>
NewSize(n) == IF n <= 2 THEN 4 ELSE 2 * n

create_internal(vals, cap) ==
  [arr |-> TRUE, start |-> 0, cap |-> cap, vals |-> vals, root |-> Null, free |-> 0]

RECURSIVE fill_array_with_subtree_values(_)
fill_array_with_subtree_values(t) ==
  IF t = Null THEN <<>>
  ELSE fill_array_with_subtree_values(Lt(t)) \o <<Val(t)>>
         \o fill_array_with_subtree_values(Rt(t))
RECURSIVE rebuild_from_sorted_array(_)
rebuild_from_sorted_array(vals) ==
  IF vals = <<>> THEN Null
  ELSE LET h == Len(vals) \div 2 IN
       Tree(rebuild_from_sorted_array(SubSeq(vals, 1, h)), vals[h + 1],
            rebuild_from_sorted_array(SubSeq(vals, h + 2, Len(vals))), Len(vals))
omt_size(o) == IF o.arr THEN Len(o.vals) ELSE nweight(o.root)
Values(o) == IF o.arr THEN o.vals ELSE fill_array_with_subtree_values(o.root)

convert_to_array(o) ==
  IF o.arr THEN o
  ELSE create_internal(fill_array_with_subtree_values(o.root),
                       IF 2 * omt_size(o) < 4 THEN 4 ELSE 2 * omt_size(o))
convert_to_tree(o) ==
  IF ~o.arr THEN o
  ELSE [arr |-> FALSE, start |-> 0, vals |-> <<>>,
        cap |-> IF 2 * omt_size(o) < 4 THEN 4 ELSE 2 * omt_size(o),
        root |-> rebuild_from_sorted_array(o.vals), free |-> Len(o.vals)]
WithMarks(o, marks) == IF marks THEN convert_to_tree(o) ELSE o

maybe_resize_array(o, n) ==
  IF o.cap - o.start < n \/ o.cap \div 2 >= NewSize(n)
  THEN [o EXCEPT !.start = 0, !.cap = NewSize(n)] ELSE o
\* Mutant: the nodes that were freed are counted as free.
maybe_resize_or_convertMut(o, n, marks) ==
  IF o.arr THEN maybe_resize_array(o, n)
  ELSE IF o.cap \div 2 >= NewSize(n) \/ o.cap < n
  THEN WithMarks(convert_to_array(o), marks) ELSE o
maybe_resize_or_convert(o, n, marks) ==
  IF o.arr THEN maybe_resize_array(o, n)
  ELSE IF \/ o.cap \div 2 >= NewSize(n)
          \/ o.free >= o.cap /\ nweight(o.root) < n
          \/ o.cap < n
  THEN WithMarks(convert_to_array(o), marks) ELSE o

\* Mutant: the weights before the change are compared.
will_need_rebalanceMut(t, leftmod, rightmod) ==
  LET wl == nweight(Lt(t))
      wr == nweight(Rt(t))
  IN  1 + wl < (2 + wr) \div 2 \/ 1 + wr < (2 + wl) \div 2
will_need_rebalance(t, leftmod, rightmod) ==
  LET wl == nweight(Lt(t)) + leftmod
      wr == nweight(Rt(t)) + rightmod
  IN  1 + wl < (2 + wr) \div 2 \/ 1 + wr < (2 + wl) \div 2

\* A subtree below the root is rebuilt in place, from the nodes it has.
rebalance(t) == rebuild_from_sorted_array(fill_array_with_subtree_values(t))

\* done: a subtree above will be rebuilt.
RECURSIVE insert_internal(_, _, _, _)
insert_internal(t, v, i, done) ==
  IF t = Null THEN Tree(Null, v, Null, 1)
  ELSE LET w    == nweight(Lt(t))
           left == i <= w
           need == ~done /\ IF left THEN will_need_rebalance(t, 1, 0)
                            ELSE will_need_rebalance(t, 0, 1)
           new  == IF left
                   THEN Tree(insert_internal(Lt(t), v, i, done \/ need), Val(t),
                             Rt(t), t[4] + 1)
                   ELSE Tree(Lt(t), Val(t),
                             insert_internal(Rt(t), v, i - w - 1, done \/ need),
                             t[4] + 1)
       IN  IF need THEN rebalance(new) ELSE new

\* The subtree without its value i, and that value.
RECURSIVE delete_internal(_, _, _)
delete_internal(t, i, done) ==
  LET w    == nweight(Lt(t))
      here == i = w /\ (Lt(t) = Null \/ Rt(t) = Null)
      need == ~done /\ ~here /\ IF i < w THEN will_need_rebalance(t, -1, 0)
                                ELSE will_need_rebalance(t, 0, -1)
      sub  == IF i < w THEN delete_internal(Lt(t), i, done \/ need)
              ELSE delete_internal(Rt(t), IF i = w THEN 0 ELSE i - w - 1, done \/ need)
      new  == CASE i < w -> Tree(sub[1], Val(t), Rt(t), t[4] - 1)
                [] i = w -> Tree(Lt(t), sub[2], sub[1], t[4] - 1)
                [] i > w -> Tree(Lt(t), Val(t), sub[1], t[4] - 1)
  IN  IF here THEN <<IF Lt(t) = Null THEN Rt(t) ELSE Lt(t), Val(t)>>
      ELSE <<IF need THEN rebalance(new) ELSE new, IF i = w THEN Val(t) ELSE sub[2]>>

insert_at(o, v, idx, marks) ==
  LET p == maybe_resize_or_convert(o, omt_size(o) + 1, marks)
      q == IF p.arr /\ idx # Len(p.vals) /\ (idx # 0 \/ p.start = 0)
           THEN convert_to_tree(p) ELSE p
      rootNeeds == q.root # Null /\
        IF idx <= nweight(Lt(q.root)) THEN will_need_rebalance(q.root, 1, 0)
        ELSE will_need_rebalance(q.root, 0, 1)
      t == [q EXCEPT !.root = insert_internal(@, v, idx, rootNeeds), !.free = @ + 1]
  IN  CASE q.arr /\ idx = Len(q.vals) -> [q EXCEPT !.vals = Append(@, v)]
        [] q.arr /\ idx # Len(q.vals) ->
             [q EXCEPT !.vals = <<v>> \o @, !.start = @ - 1]
        [] ~q.arr /\ rootNeeds -> WithMarks(convert_to_array(t), marks)
        [] ~q.arr /\ ~rootNeeds -> t

delete_at(o, idx, marks) ==
  LET p == maybe_resize_or_convert(o, omt_size(o) - 1, marks)
      q == IF p.arr /\ idx # 0 /\ idx # Len(p.vals) - 1 THEN convert_to_tree(p) ELSE p
      w == nweight(Lt(q.root))
      rootNeeds == /\ ~(idx = w /\ (Lt(q.root) = Null \/ Rt(q.root) = Null))
                   /\ IF idx < w THEN will_need_rebalance(q.root, -1, 0)
                      ELSE will_need_rebalance(q.root, 0, -1)
      t == [q EXCEPT !.root = delete_internal(@, idx, rootNeeds)[1]]
  IN  CASE q.arr /\ idx = Len(q.vals) - 1 ->
             [q EXCEPT !.vals = SubSeq(@, 1, Len(@) - 1)]
        [] q.arr /\ idx # Len(q.vals) - 1 ->
             [q EXCEPT !.vals = Tail(@), !.start = @ + 1]
        [] ~q.arr -> IF rootNeeds THEN WithMarks(convert_to_array(t), marks) ELSE t

-----------------------------------------------------------------------------
(* Searches.  A result is <<found, index>>; h compares with the key.       *)

h(v, key) == v - key
RECURSIVE find_internal_zero(_, _)
find_internal_zero(t, key) ==
  IF t = Null THEN <<FALSE, 0>>
  ELSE LET w == nweight(Lt(t))
           r == find_internal_zero(IF h(Val(t), key) < 0 THEN Rt(t) ELSE Lt(t), key)
       IN  CASE h(Val(t), key) < 0 -> <<r[1], r[2] + w + 1>>
             [] h(Val(t), key) > 0 -> r
             [] h(Val(t), key) = 0 -> IF r[1] THEN r ELSE <<TRUE, w>>
RECURSIVE find_internal_plus(_, _)
find_internal_plus(t, key) ==
  IF t = Null THEN <<FALSE, 0>>
  ELSE LET w == nweight(Lt(t))
           r == find_internal_plus(IF h(Val(t), key) > 0 THEN Lt(t) ELSE Rt(t), key)
       IN  IF h(Val(t), key) > 0 THEN (IF r[1] THEN r ELSE <<TRUE, w>>)
           ELSE <<r[1], r[2] + w + 1>>
RECURSIVE find_internal_minus(_, _)
find_internal_minus(t, key) ==
  IF t = Null THEN <<FALSE, 0>>
  ELSE LET w == nweight(Lt(t))
           r == find_internal_minus(IF h(Val(t), key) < 0 THEN Rt(t) ELSE Lt(t), key)
       IN  IF h(Val(t), key) < 0
           THEN (IF r[1] THEN <<TRUE, r[2] + w + 1>> ELSE <<TRUE, w>>) ELSE r

\* The binary search of the array: the least place in [min, limit) whose value
\* is past the key, where past is > or >=; the mid points are the code's.
RECURSIVE bisect(_, _, _, _, _)
bisect(vals, key, min, limit, orEqual) ==
  IF min = limit THEN min
  ELSE LET mid == (min + limit) \div 2
           hv  == h(vals[mid + 1], key)
       IN  IF hv > 0 \/ (orEqual /\ hv = 0) THEN bisect(vals, key, min, mid, orEqual)
           ELSE bisect(vals, key, mid + 1, limit, orEqual)
find_internal_zero_array(o, key) ==
  LET n == bisect(o.vals, key, 0, Len(o.vals), TRUE)
  IN  <<n < Len(o.vals) /\ h(o.vals[n + 1], key) = 0, n>>
find_internal_plus_array(o, key) ==
  LET n == bisect(o.vals, key, 0, Len(o.vals), FALSE) IN <<n < Len(o.vals), n>>
find_internal_minus_array(o, key) ==
  LET n == bisect(o.vals, key, 0, Len(o.vals), TRUE) IN <<n > 0, n - 1>>

find_zero(o, key) == IF o.arr THEN find_internal_zero_array(o, key)
                     ELSE find_internal_zero(o.root, key)
omt_find(o, key, dir) ==
  CASE dir > 0 -> IF o.arr THEN find_internal_plus_array(o, key)
                  ELSE find_internal_plus(o.root, key)
    [] dir < 0 -> IF o.arr THEN find_internal_minus_array(o, key)
                  ELSE find_internal_minus(o.root, key)

RECURSIVE fetch_internal(_, _)
fetch_internal(t, i) ==
  LET w == nweight(Lt(t)) IN
  CASE i < w -> fetch_internal(Lt(t), i)
    [] i = w -> Val(t)
    [] i > w -> fetch_internal(Rt(t), i - w - 1)
fetch(o, i) == IF o.arr THEN o.vals[i + 1] ELSE fetch_internal(o.root, i)
\* The values the callback of an iteration over [left, right) is given.
RECURSIVE iterate_internal(_, _, _, _)
iterate_internal(t, left, right, idx) ==
  IF t = Null THEN <<>>
  ELSE LET root == idx + nweight(Lt(t)) IN
       (IF left < root THEN iterate_internal(Lt(t), left, right, idx) ELSE <<>>)
         \o (IF left <= root /\ root < right THEN <<Val(t)>> ELSE <<>>)
         \o (IF root + 1 < right THEN iterate_internal(Rt(t), left, right, root + 1)
             ELSE <<>>)
iterate_on_range(o, left, right) ==
  IF o.arr THEN SubSeq(o.vals, left + 1, right)
  ELSE iterate_internal(o.root, left, right, 0)

-----------------------------------------------------------------------------
(* Marks: a range is marked while it is visited, and deleted later.        *)

RECURSIVE iterate_and_mark_range_internal(_, _, _, _)
iterate_and_mark_range_internal(t, left, right, idx) ==
  LET root  == idx + nweight(Lt(t))
      goL   == left < root /\ Lt(t) # Null
      goR   == root + 1 < right /\ Rt(t) # Null
  IN  <<IF goL THEN iterate_and_mark_range_internal(Lt(t), left, right, idx) ELSE Lt(t),
        Val(t),
        IF goR THEN iterate_and_mark_range_internal(Rt(t), left, right, root + 1)
        ELSE Rt(t),
        t[4], t[5] \/ (left <= root /\ root < right), t[6] \/ goL \/ goR>>
RECURSIVE iterate_over_marked_internal(_)
iterate_over_marked_internal(t) ==
  IF t = Null THEN <<>>
  ELSE (IF t[6] THEN iterate_over_marked_internal(Lt(t)) ELSE <<>>)
         \o (IF t[5] THEN <<Val(t)>> ELSE <<>>)
         \o (IF t[6] THEN iterate_over_marked_internal(Rt(t)) ELSE <<>>)
RECURSIVE unmark_indexes(_, _)
unmark_indexes(t, idx) ==
  IF t = Null THEN <<>>
  ELSE LET root == idx + nweight(Lt(t)) IN
       (IF t[6] THEN unmark_indexes(Lt(t), idx) ELSE <<>>)
         \o (IF t[5] THEN <<root>> ELSE <<>>)
         \o (IF t[6] THEN unmark_indexes(Rt(t), root + 1) ELSE <<>>)
RECURSIVE unmark(_)
unmark(t) ==
  IF t = Null THEN Null
  ELSE <<IF t[6] THEN unmark(Lt(t)) ELSE Lt(t), Val(t),
         IF t[6] THEN unmark(Rt(t)) ELSE Rt(t), t[4], FALSE, FALSE>>
has_marks(o) == o.root # Null /\ (o.root[5] \/ o.root[6])
delete_all_marked(o) ==
  LET ix == unmark_indexes(o.root, 0) IN
  FoldLeft(LAMBDA p, i : delete_at(p, ix[i] - (i - 1), TRUE),
           [o EXCEPT !.root = unmark(@)], [i \in 1 .. Len(ix) |-> i])

-----------------------------------------------------------------------------
(* Cutting one in two, and joining the two again.                          *)

split_at(o, idx, marks) ==
  LET a == convert_to_array(o)
      l == maybe_resize_array([a EXCEPT !.vals = SubSeq(@, 1, idx)], idx)
      r == SubSeq(a.vals, idx + 1, Len(a.vals))
  IN  <<WithMarks(l, marks), WithMarks(create_internal(r, Len(r)), marks)>>
merge(l, r, marks) ==
  LET room == l.arr /\ l.cap - (l.start + Len(l.vals)) >= omt_size(r)
      new  == IF room THEN [l EXCEPT !.vals = @ \o Values(r)]
              ELSE create_internal(Values(l) \o Values(r), omt_size(l) + omt_size(r))
  IN  WithMarks(new, marks)

-----------------------------------------------------------------------------

OmtInit ==
  \E marks \in BOOLEAN :
    omt = [o |-> WithMarks(create_internal(<<>>, 2), marks), marks |-> marks,
           ref |-> <<>>, gone |-> {}]
Unmarked == ~has_marks(omt.o)

omt_insert ==
  /\ Unmarked
  /\ \E v \in OmtKeys : \E f \in {find_zero(omt.o, v)} :
       /\ ~f[1]
       /\ omt' = [omt EXCEPT !.o = insert_at(@, v, f[2], omt.marks),
                             !.ref = InsertAt(@, f[2] + 1, v)]
omt_delete ==
  /\ Unmarked
  /\ \E i \in 0 .. omt_size(omt.o) - 1 :
       omt' = [omt EXCEPT !.o = delete_at(@, i, omt.marks), !.ref = RemoveAt(@, i + 1)]
omt_split_merge ==
  /\ Unmarked
  /\ \E i \in 0 .. omt_size(omt.o) : \E p \in {split_at(omt.o, i, omt.marks)} :
       omt' = [omt EXCEPT !.o = merge(p[1], p[2], omt.marks)]
omt_mark ==
  /\ omt.marks /\ omt_size(omt.o) > 0
  /\ \E l, r \in 0 .. omt_size(omt.o) :
       /\ l < r
       /\ omt' = [omt EXCEPT
                    !.o.root = iterate_and_mark_range_internal(@, l, r, 0),
                    !.gone = @ \union {omt.ref[i] : i \in l + 1 .. r}]
omt_delete_all_marked ==
  /\ has_marks(omt.o)
  /\ omt' = [omt EXCEPT !.o = delete_all_marked(@), !.gone = {},
                        !.ref = SelectSeq(@, LAMBDA v : v \notin omt.gone)]

OmtNext == omt_insert \/ omt_delete \/ omt_split_merge \/ omt_mark
             \/ omt_delete_all_marked

-----------------------------------------------------------------------------
RECURSIVE Nodes(_)
Nodes(t) == IF t = Null THEN {} ELSE {t} \union Nodes(Lt(t)) \union Nodes(Rt(t))

\* A node says there are marks below it when there are, and only then.
verify_marks_consistent(root) ==
  \A t \in Nodes(root) :
    t[6] <=> \E u \in Nodes(Lt(t)) \union Nodes(Rt(t)) : u[5]

\* Whatever the form it is in, the structure holds the sorted sequence the
\* operations made, every search finds the place a scan of that sequence would,
\* an iteration visits a range of it, the marks are those that were set,
\* and no subtree is out of balance (insert_at, delete_at, the find functions
\* and the rebuilding of subtrees).
OmtIsSequence ==
  LET o == omt.o
      Count(P(_)) == Cardinality({i \in DOMAIN omt.ref : P(omt.ref[i])})
  IN  /\ Values(o) = omt.ref
      /\ \A i \in 1 .. Len(omt.ref) - 1 : omt.ref[i] < omt.ref[i + 1]
      /\ \A k \in OmtKeys :
           /\ find_zero(o, k) = <<k \in Range(omt.ref), Count(LAMBDA v : v < k)>>
           /\ \E p \in {omt_find(o, k, 1)} :
                IF p[1] THEN p[2] = Count(LAMBDA v : v <= k)
                ELSE Count(LAMBDA v : v > k) = 0
           /\ \E p \in {omt_find(o, k, -1)} :
                IF p[1] THEN p[2] = Count(LAMBDA v : v < k) - 1
                ELSE Count(LAMBDA v : v < k) = 0
      /\ \A i \in 0 .. Len(omt.ref) - 1 : fetch(o, i) = omt.ref[i + 1]
      /\ \A l, r \in 0 .. Len(omt.ref) :
           l < r => iterate_on_range(o, l, r) = SubSeq(omt.ref, l + 1, r)
      /\ verify_marks_consistent(o.root)
      /\ iterate_over_marked_internal(o.root)
           = SelectSeq(omt.ref, LAMBDA v : v \in omt.gone)
      /\ \A t \in Nodes(o.root) : /\ ~will_need_rebalance(t, 0, 0)
                                  /\ t[4] = Len(fill_array_with_subtree_values(t))

\* The array never runs past its end and no node is taken beyond the table,
\* although deleted nodes are not given back (node_malloc's invariant).
OmtWithinCapacity ==
  IF omt.o.arr THEN omt.o.start + Len(omt.o.vals) <= omt.o.cap /\ omt.o.start >= 0
  ELSE omt.o.free <= omt.o.cap
=============================================================================
