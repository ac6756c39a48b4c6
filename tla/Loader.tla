------------------------------- MODULE Loader -------------------------------
(***************************************************************************)
(* The bulk loader (src/loader.cc, ft/loader/loader.cc, callbacks.cc,      *)
(* pqueue.cc, util/queue.cc).  A client puts rows, in groups, on a queue;  *)
(* the extractor thread makes the rows of every dictionary from them and   *)
(* writes sorted temporary files; at the close these are merged, in as     *)
(* many passes as the fan-in asks for, into a queue from which a writer    *)
(* thread builds the file of the new dictionary from the leaves up.  Any   *)
(* read, write or allocation may fail, at most Faults times, and the       *)
(* client's poll function may stop the load.  A row is its key; sizes are  *)
(* numbers of rows; the content of a temporary file is read in order (the  *)
(* double buffering is in Dbufio).                                         *)
(***************************************************************************)
EXTENDS Integers, Sequences, FiniteSets

CONSTANTS
  Loads,       \* the loads: [puts, gen, ends, target], see Init
  Faults,      \* how many operations may fail
  RowBudget,   \* the rows that fit a rowset (memory_per_rowset_during_extract)
  Fanin,       \* merge_fanin, at least 2
  PerBlock,    \* n_per_block: the children of a nonleaf node, 15 in the code, at least 3
  MergeBase    \* below so many rows merge_row_arrays does not split, 10000 in the code; at least 2

VARIABLES load, client, bl, queue, extractor, merge, writer
vars == <<load, client, bl, queue, extractor, merge, writer>>

Dbs == DOMAIN load.gen
none == 0

-----------------------------------------------------------------------------
(* The sort of a rowset: the sequences it can return, none if a key is     *)
(* found twice.                                                            *)

RECURSIVE merge_row_arrays_base(_, _)
merge_row_arrays_base(a, b) ==
  IF a = <<>> \/ b = <<>> THEN {a \o b}
  ELSE IF Head(a) < Head(b) THEN {<<Head(a)>> \o m : m \in merge_row_arrays_base(Tail(a), b)}
  ELSE IF Head(a) > Head(b) THEN {<<Head(b)>> \o m : m \in merge_row_arrays_base(a, Tail(b))}
  ELSE {}

\* How many rows of the sorted a are below the key; nothing if a has the key.
RECURSIVE binary_search(_, _)
binary_search(key, a) ==
  IF a = <<>> THEN {0}
  ELSE LET a2 == Len(a) \div 2
       IN IF key = a[a2 + 1] THEN {}
          ELSE IF key < a[a2 + 1]
          THEN IF Len(a) = 1 THEN {0} ELSE binary_search(key, SubSeq(a, 1, a2))
          ELSE IF Len(a) = 1 THEN {1}
          ELSE {a2 + l : l \in binary_search(key, SubSeq(a, a2 + 1, Len(a)))}

RECURSIVE merge_row_arrays(_, _)
merge_row_arrays(a, b) ==
  IF Len(a) + Len(b) < MergeBase THEN merge_row_arrays_base(a, b)
  ELSE IF Len(a) < Len(b) THEN merge_row_arrays(b, a)
  ELSE LET a2 == Len(a) \div 2
       IN UNION {{x \o y : x \in merge_row_arrays(SubSeq(a, 1, a2), SubSeq(b, 1, b2)),
                           y \in merge_row_arrays(SubSeq(a, a2 + 1, Len(a)), SubSeq(b, b2 + 1, Len(b)))}
                 : b2 \in binary_search(a[a2 + 1], b)}

RECURSIVE mergesort_row_array(_)
mergesort_row_array(rows) ==
  IF Len(rows) <= 1 THEN {rows}
  ELSE LET mid == Len(rows) \div 2
       IN UNION {merge_row_arrays(a, b) : a \in mergesort_row_array(SubSeq(rows, 1, mid)),
                                          b \in mergesort_row_array(SubSeq(rows, mid + 1, Len(rows)))}

-----------------------------------------------------------------------------
(* The priority queue of a merge: a heap of [key, src], and dup, whether a *)
(* comparison has met two equal keys.                                      *)

pqueue_init == [d |-> <<>>, dup |-> FALSE]
exchange(d, i, j) == [d EXCEPT ![i] = d[j], ![j] = d[i]]
\* The two keys are compared: the queue, with what the comparison noticed.
pqueue_compare(pq, i, j) == [pq EXCEPT !.dup = @ \/ pq.d[i].key = pq.d[j].key]

RECURSIVE pqueue_bubble_up(_, _)
pqueue_bubble_up(pq, i) ==
  IF i = 1 THEN pq
  ELSE LET p == i \div 2
           c == pqueue_compare(pq, p, i)
       IN IF pq.d[p].key >= pq.d[i].key
          THEN pqueue_bubble_up([c EXCEPT !.d = exchange(@, p, i)], p) ELSE c
pqueue_insert(pq, node) ==
  pqueue_bubble_up([pq EXCEPT !.d = Append(@, node)], Len(pq.d) + 1)

RECURSIVE pqueue_percolate_down(_, _)
pqueue_percolate_down(pq, i) ==
  LET l == 2 * i
      two == l + 1 <= Len(pq.d)
  IN IF l > Len(pq.d) THEN pq
     ELSE LET seen == IF two THEN pqueue_compare(pq, l, l + 1) ELSE pq
              child == IF two /\ pq.d[l].key >= pq.d[l + 1].key THEN l + 1 ELSE l  \* pqueue_maxchild
              c == pqueue_compare(seen, i, child)
          IN IF pq.d[i].key >= pq.d[child].key
             THEN pqueue_percolate_down([c EXCEPT !.d = exchange(@, i, child)], child) ELSE c
\* What is left once the minimum, pq.d[1], is taken.
pqueue_pop(pq) ==
  LET n == Len(pq.d)
  IN pqueue_percolate_down([pq EXCEPT !.d = SubSeq([@ EXCEPT ![1] = pq.d[n]], 1, n - 1)], 1)

-----------------------------------------------------------------------------
(* Queues between two threads; Depth is the weight limit.                  *)

toku_queue_create == [items |-> <<>>, eof |-> FALSE, waiting |-> {}]
Depth == [primary |-> 2, fractal |-> 3]
signal(q) == IF q.waiting = {} THEN {q}
             ELSE {[q EXCEPT !.waiting = @ \ {w}] : w \in q.waiting}
\* The producer puts the item in and then waits while there is too much.
toku_queue_enq(q, item) == signal([q EXCEPT !.items = Append(@, item)])
\* The end is not signalled.
toku_queue_eofMut(q) == {[q EXCEPT !.eof = TRUE]}
toku_queue_eof(q) == signal([q EXCEPT !.eof = TRUE])
toku_queue_deq(q) == signal([q EXCEPT !.items = Tail(@)])

\* The thread that is blocked in toku_queue_enq: it waits (again), or returns by K.
enq_returns(n, K) ==
  /\ "producer" \notin queue[n].waiting
  /\ IF Depth[n] < Len(queue[n].items)
     THEN queue' = [queue EXCEPT ![n].waiting = @ \union {"producer"}] /\ UNCHANGED <<bl, client, merge>>
     ELSE K /\ UNCHANGED <<queue, bl>>
\* The consumer waits for an item or the end.
deq_waits(n) ==
  /\ "consumer" \notin queue[n].waiting /\ queue[n].items = <<>> /\ ~queue[n].eof
  /\ queue' = [queue EXCEPT ![n].waiting = @ \union {"consumer"}]
  /\ UNCHANGED <<load, client, bl, extractor, merge, writer>>

-----------------------------------------------------------------------------
(* Errors and files.  An operation on b, the loader, gives the set of what *)
(* can come of it: [b, r], r = "" without an error.                        *)

ok(b) == {[b |-> b, r |-> ""]}
\* An operation that may fail.
fallible(b, good) ==
  ok(good) \union (IF b.faults = 0 THEN {} ELSE {[b |-> [b EXCEPT !.faults = @ - 1], r |-> "io"]})

\* The last error is kept instead of the first.
ft_loader_set_errorMut(b, e) == [b EXCEPT !.error = e]
ft_loader_set_error(b, e) == IF b.error # "" THEN b ELSE [b EXCEPT !.error = e]
ft_loader_call_error_function(b) ==
  IF b.error # "" /\ b.has_function /\ ~b.did_callback
  THEN [b EXCEPT !.did_callback = TRUE, !.called = Append(@, b.error)] ELSE b
ft_loader_set_panic(b, e, callback) ==
  LET set == ft_loader_set_error(b, e)
  IN IF callback /\ b.error = "" THEN ft_loader_call_error_function(set) ELSE set
\* The poll function may stop the load; it is not called again then.
update_progress(b) ==
  IF b.stopped THEN {[b |-> b, r |-> "stop"]}
  ELSE ok(b) \union (IF b.faults = 0 \/ ~b.has_function THEN {}
                     ELSE {[b |-> [b EXCEPT !.faults = @ - 1, !.stopped = TRUE], r |-> "stop"]})

ft_loader_open_temp_file(b) ==
  fallible(b, [b EXCEPT !.files = Append(@, [open |-> TRUE, extant |-> TRUE, rows |-> <<>>])])
ft_loader_fi_reopen(b, f) == fallible(b, [b EXCEPT !.files[f].open = TRUE])
\* A close that fails closes all the same, and so does an unlink.
ft_loader_fi_close(b, f) ==
  {[b |-> [x.b EXCEPT !.files[f].open = FALSE], r |-> x.r] : x \in fallible(b, b)}
ft_loader_fi_unlink(b, f) ==
  {[b |-> [x.b EXCEPT !.files[f].extant = FALSE], r |-> x.r] : x \in fallible(b, b)}
ft_loader_fi_close_all(b) ==
  {[b |-> [x.b EXCEPT !.files = [f \in DOMAIN @ |-> [@[f] EXCEPT !.open = FALSE]]], r |-> x.r]
   : x \in fallible(b, b)}
write_rows(b, f, rows) == fallible(b, [b EXCEPT !.files[f].rows = @ \o rows])
\* Only the files that are open are unlinked.
toku_ft_loader_internal_destroyMut(b, is_error) ==
  [b EXCEPT !.files = [f \in DOMAIN @ |-> IF @[f].open THEN [@[f] EXCEPT !.open = FALSE, !.extant = FALSE] ELSE @[f]]]
toku_ft_loader_internal_destroy(b, is_error) ==
  IF is_error
  THEN [b EXCEPT !.files = [f \in DOMAIN @ |-> [@[f] EXCEPT !.open = FALSE, !.extant = FALSE]]]
  ELSE b

\* One operation after another, the second only if the first did well.
Then(xs, Op(_)) == UNION {IF x.r = "" THEN Op(x.b) ELSE {x} : x \in xs}
\* Both, and the first error of the two.
Both(xs, Op(_)) ==
  UNION {{[b |-> y.b, r |-> IF x.r = "" THEN y.r ELSE x.r] : y \in Op(x.b)} : x \in xs}

-----------------------------------------------------------------------------
(* The extractor.                                                          *)

\* sort_and_write_rows for the rows that dictionary i has so far.
new_file(b, i, rows) ==
  Then(Then(IF b.fs[i].sorted = none THEN ok(b)
            ELSE {[x EXCEPT !.b = [@ EXCEPT !.fs[i].sorted = none]]
                  : x \in ft_loader_fi_close(b, b.fs[i].sorted)},
            ft_loader_open_temp_file),
       LAMBDA c : LET f == Len(c.files)
                  IN {IF x.r = "" THEN [x EXCEPT !.b = [@ EXCEPT !.fs[i].sorted = f,
                                                          !.fs[i].prev = rows[Len(rows)]]] ELSE x
                      : x \in write_rows([c EXCEPT !.fs[i].files = Append(@, f)], f, rows)})
sort_and_write_rows(b, i) ==
  LET cleared == [b EXCEPT !.rows[i] = <<>>]
      sorted == mergesort_row_array(b.rows[i])
  IN IF b.rows[i] = <<>> THEN ok(b)
     ELSE IF sorted = {}
     THEN {[b |-> IF b.has_function THEN ft_loader_set_error(cleared, "dup") ELSE cleared, r |-> "dup"]}
     ELSE UNION {IF b.fs[i].sorted # none /\ b.fs[i].prev < Head(rows)
                 THEN {IF x.r = "" THEN [x EXCEPT !.b = [@ EXCEPT !.fs[i].prev = rows[Len(rows)]]] ELSE x
                       : x \in write_rows(cleared, b.fs[i].sorted, rows)}
                 ELSE new_file(cleared, i, rows)
                 : rows \in sorted}

\* The rows that one row of the client makes in dictionary i; generate_row_for_put may fail.
add_generated(b, i, key) ==
  LET make == load.gen[i][key]
      Add(j, xs) == Then(xs, LAMBDA c :
        {IF x.r = "" THEN [x EXCEPT !.b = [@ EXCEPT !.rows[i] = Append(@, make[j])]] ELSE x
         : x \in IF RowBudget < Len(c.rows[i]) + 1 THEN sort_and_write_rows(c, i) ELSE ok(c)})
      Upto[j \in 0 .. Len(make)] ==
        IF j = 0 THEN fallible(b, b) ELSE
        Add(j, {[x EXCEPT !.b = [@ EXCEPT !.extracted[i] = @ + (IF x.r = "" THEN 1 ELSE 0)]] : x \in Upto[j - 1]})
  IN Upto[Len(make)]
process_primary_rows(b, rows) ==
  LET n == Len(rows)
      all == n * Cardinality(Dbs)
      \* dictionary after dictionary, each with all the rows; the first error ends it
      Upto[j \in 0 .. all] ==
        IF j = 0 THEN ok(b)
        ELSE Then(Upto[j - 1], LAMBDA c : add_generated(c, ((j - 1) \div n) + 1, rows[((j - 1) % n) + 1]))
  IN {IF x.r = "" THEN x ELSE [x EXCEPT !.b = ft_loader_set_panic(@, x.r, FALSE)] : x \in Upto[all]}
\* Every dictionary's last rows are written; any of the errors is reported.
finish_primary_rows(b) ==
  LET Upto[i \in {0} \union Dbs] ==
        IF i = 0 THEN ok(b) ELSE Both(Upto[i - 1], LAMBDA c : sort_and_write_rows(c, i))
  IN {IF x.r = "" THEN x ELSE [x EXCEPT !.b = ft_loader_set_panic(@, x.r, FALSE)]
      : x \in Upto[Cardinality(Dbs)]}

extract ==
  /\ extractor.pc = "deq" /\ "consumer" \notin queue["primary"].waiting
  /\ queue["primary"].items # <<>>
  /\ \E q \in toku_queue_deq(queue["primary"]) : queue' = [queue EXCEPT !["primary"] = q]
  /\ \E x \in process_primary_rows(bl, Head(queue["primary"].items)) :
       bl' = x.b /\ extractor' = [extractor EXCEPT !.r = x.r]
  /\ UNCHANGED <<load, client, merge, writer>>
\* At the end of the queue; r is the result of the last group only.
extract_end ==
  /\ extractor.pc = "deq" /\ "consumer" \notin queue["primary"].waiting
  /\ queue["primary"].items = <<>> /\ queue["primary"].eof
  /\ \E x \in IF extractor.r = "" THEN finish_primary_rows(bl) ELSE ok(bl) : bl' = x.b
  /\ extractor' = [extractor EXCEPT !.pc = "ended"]
  /\ UNCHANGED <<load, client, queue, merge, writer>>
extractor_thread ==
  \/ extract \/ extract_end
  \/ extractor.pc = "deq" /\ deq_waits("primary")

-----------------------------------------------------------------------------
(* The merge of the temporary files of dictionary client.i, by the client  *)
(* thread inside toku_loader_close.                                        *)

NoMerge == [pc |-> "none", fs |-> <<>>, next |-> <<>>, srcs |-> <<>>, dest |-> none, heap |-> pqueue_init,
            at |-> <<>>, out |-> <<>>, from |-> none, to_queue |-> FALSE, result |-> ""]
others_of_merge == <<load, client, extractor, writer>>

\* A comparison of two equal keys sets the error and reports it.
noticed(b, dup) == IF dup THEN ft_loader_set_panic(b, "dup", TRUE) ELSE b

pass ==
  /\ merge.pc = "pass" /\ bl.workers = 1
  /\ merge' = IF merge.fs = <<>> THEN [merge EXCEPT !.pc = "eof"]
              ELSE [merge EXCEPT !.pc = "subpass", !.next = <<>>, !.to_queue = Len(merge.fs) <= Fanin]
  /\ UNCHANGED <<others_of_merge, bl, queue>>

\* The last files of the set are opened, and the destination; the heap gets the first row of each.
load_heap(b, srcs) ==
  LET Upto[j \in 0 .. Len(srcs)] ==
        IF j = 0 THEN pqueue_init
        ELSE IF Upto[j - 1].dup THEN Upto[j - 1]
        ELSE pqueue_insert(Upto[j - 1], [key |-> Head(b.files[srcs[j]].rows), src |-> j])
  IN Upto[Len(srcs)]
subpass ==
  /\ merge.pc = "subpass"
  /\ LET n == IF Fanin < Len(merge.fs) THEN Fanin ELSE Len(merge.fs)
         wanted == [i \in 1 .. n |-> merge.fs[Len(merge.fs) + 1 - i]]
         Opened[j \in 0 .. n] ==
           IF j = 0 THEN {[b |-> bl, r |-> "", n |-> 0]}
           ELSE UNION {IF x.r # "" THEN {x}
                       ELSE {[b |-> y.b, r |-> y.r, n |-> x.n + (IF y.r = "" THEN 1 ELSE 0)]
                             : y \in ft_loader_fi_reopen(x.b, wanted[j])} : x \in Opened[j - 1]}
     IN \E x \in Opened[n] :
        \E y \in IF x.r = "" /\ ~merge.to_queue THEN ft_loader_open_temp_file(x.b) ELSE {[b |-> x.b, r |-> x.r]} :
        \E z \in IF y.r = "" THEN fallible(y.b, y.b) ELSE {y} :  \* the double buffers, the rows read
          LET srcs == SubSeq(wanted, 1, x.n)
              dest == IF y.r = "" /\ ~merge.to_queue THEN Len(y.b.files) ELSE none
              heap == IF z.r = "" THEN load_heap(z.b, srcs) ELSE pqueue_init
              result == IF heap.dup THEN "dup" ELSE z.r
          IN /\ bl' = noticed(z.b, heap.dup)
             /\ merge' = [merge EXCEPT !.fs = SubSeq(@, 1, Len(@) - n), !.srcs = srcs, !.dest = dest, !.heap = heap,
                            !.next = IF dest = none THEN @ ELSE Append(@, dest),
                            !.at = IF y.r = "" THEN [j \in 1 .. n |-> 2] ELSE <<>>, !.result = result,
                            !.pc = IF result = "" THEN "pop" ELSE "close"]
  /\ UNCHANGED <<others_of_merge, queue>>

\* The next row of the file that the minimum came from is put on the heap.
read_next(b, m, src) ==
  IF Len(b.files[m.srcs[src]].rows) < m.at[src] THEN {[b |-> b, m |-> m]}
  ELSE {LET heap == pqueue_insert(m.heap, [key |-> b.files[m.srcs[src]].rows[m.at[src]], src |-> src])
        IN IF x.r # "" THEN [b |-> x.b, m |-> [m EXCEPT !.result = x.r, !.pc = "close"]]
           ELSE IF heap.dup THEN [b |-> noticed(x.b, TRUE), m |-> [m EXCEPT !.result = "dup", !.pc = "close"]]
           ELSE [b |-> x.b, m |-> [m EXCEPT !.heap = heap, !.at[src] = @ + 1]]
        : x \in fallible(b, b)}
\* One row of toku_merge_some_files_using_dbufio.
pop ==
  /\ merge.pc = "pop" /\ merge.heap.d # <<>>
  /\ LET min == merge.heap.d[1]
         left == pqueue_pop(merge.heap)
         m == [merge EXCEPT !.heap = left]
     IN IF left.dup
        THEN bl' = [noticed(bl, TRUE) EXCEPT !.crashed = "pqueue_pop"] /\ UNCHANGED <<merge, queue>>
        ELSE IF merge.to_queue /\ RowBudget < Len(merge.out) + 1
        THEN /\ \E q \in toku_queue_enq(queue["fractal"], merge.out) : queue' = [queue EXCEPT !["fractal"] = q]
             /\ merge' = [m EXCEPT !.pc = "full", !.out = <<min.key>>, !.from = min.src] /\ UNCHANGED bl
        ELSE /\ \E x \in IF merge.to_queue THEN ok(bl) ELSE write_rows(bl, merge.dest, <<min.key>>) :
                  IF x.r # "" THEN bl' = x.b /\ merge' = [m EXCEPT !.result = x.r, !.pc = "close"]
                  ELSE \E y \in read_next(x.b, [m EXCEPT !.out = IF merge.to_queue THEN Append(@, min.key) ELSE @],
                                          min.src) :
                         bl' = y.b /\ merge' = y.m
             /\ UNCHANGED queue
  /\ UNCHANGED others_of_merge
full ==
  /\ merge.pc = "full" /\ UNCHANGED others_of_merge
  /\ "producer" \notin queue["fractal"].waiting
  /\ IF Depth["fractal"] < Len(queue["fractal"].items)
     THEN queue' = [queue EXCEPT !["fractal"].waiting = @ \union {"producer"}] /\ UNCHANGED <<bl, merge>>
     ELSE /\ \E y \in read_next(bl, [merge EXCEPT !.pc = "pop", !.from = none], merge.from) :
               bl' = y.b /\ merge' = y.m
          /\ UNCHANGED queue
\* All the rows are merged: the last rowset, full or not, is sent.
merged ==
  /\ merge.pc = "pop" /\ merge.heap.d = <<>>
  /\ IF merge.to_queue
     THEN /\ \E q \in toku_queue_enq(queue["fractal"], merge.out) : queue' = [queue EXCEPT !["fractal"] = q]
          /\ merge' = [merge EXCEPT !.pc = "last", !.out = <<>>]
     ELSE merge' = [merge EXCEPT !.pc = "close"] /\ UNCHANGED queue
  /\ UNCHANGED <<others_of_merge, bl>>
last ==
  /\ merge.pc = "last" /\ UNCHANGED others_of_merge
  /\ enq_returns("fractal", merge' = [merge EXCEPT !.pc = "close"] /\ UNCHANGED <<client, bl>>)

\* The progress; then the sources are closed and unlinked, and the destination closed.
close_sources ==
  /\ merge.pc = "close"
  /\ LET n == Len(merge.srcs)
         Closed[j \in 0 .. n] ==
           IF j = 0 THEN IF merge.at = <<>> THEN {[b |-> bl, r |-> merge.result]}
                         ELSE Both({[b |-> bl, r |-> merge.result]}, update_progress)
           ELSE Both(Both(Closed[j - 1], LAMBDA b : ft_loader_fi_close(b, merge.srcs[j])),
                     LAMBDA b : ft_loader_fi_unlink(b, merge.srcs[j]))
     IN \E x \in IF merge.dest = none THEN Closed[n] ELSE Both(Closed[n], LAMBDA b : ft_loader_fi_close(b, merge.dest)) :
          /\ bl' = IF x.r = "" THEN x.b ELSE ft_loader_set_panic(x.b, x.r, TRUE)
          /\ merge' = [merge EXCEPT !.result = x.r, !.srcs = <<>>, !.dest = none, !.out = <<>>, !.at = <<>>,
                         !.heap = pqueue_init,
                         !.fs = IF @ = <<>> THEN merge.next ELSE @,
                         !.pc = IF x.r # "" THEN "eof" ELSE IF merge.fs = <<>> THEN "pass" ELSE "subpass"]
  /\ UNCHANGED <<others_of_merge, queue>>
merge_ends ==
  /\ merge.pc = "eof"
  /\ \E q \in toku_queue_eof(queue["fractal"]) : queue' = [queue EXCEPT !["fractal"] = q]
  /\ \E x \in Both({[b |-> bl, r |-> merge.result]}, update_progress) :
       bl' = x.b /\ merge' = [merge EXCEPT !.result = x.r, !.pc = "join", !.fs = <<>>, !.next = <<>>]
  /\ UNCHANGED others_of_merge
merge_files == pass \/ subpass \/ pop \/ full \/ merged \/ last \/ close_sources \/ merge_ends

-----------------------------------------------------------------------------
(* The writer thread: the rowsets of the queue become leaves, and the      *)
(* levels above them are made from the pivots, which wait in temporary     *)
(* files.  A node is [rows, kids, pivots].                                 *)

leaf_node(rows) == [rows |-> rows, kids |-> <<>>, pivots |-> <<>>]
NoWriter == [pc |-> "none", leaf |-> <<>>, used |-> 0, subtrees |-> <<>>, pivots |-> none, result |-> ""]
others_of_writer == <<load, client, extractor, merge>>
lastOf(s) == s[Len(s)]

fractal_thread_starts ==
  /\ writer.pc = "start"
  /\ \E x \in ft_loader_open_temp_file([bl EXCEPT !.workers = 1]) :
       /\ bl' = x.b
       /\ writer' = IF x.r = "" THEN [writer EXCEPT !.pc = "rows", !.pivots = Len(x.b.files)]
                    ELSE [writer EXCEPT !.pc = "drain", !.result = x.r]
  /\ UNCHANGED <<others_of_writer, queue>>

\* The error of a node is only in the loader's error.
finish_leafnode(b) ==
  {IF x.r = "" THEN x.b ELSE ft_loader_set_panic(x.b, x.r, TRUE) : x \in Then(fallible(b, b), update_progress)}
\* A leaf is full when the row would not fit, or when what is left would not
\* fit and is less than what the leaf has.
leaf_is_full(w, remaining) ==
  /\ w.leaf # <<>>
  /\ \/ Len(w.leaf) + 1 >= load.target
     \/ Len(w.leaf) + remaining >= load.target /\ Len(w.leaf) > remaining
add_pair_to_leafnode(w, key) == [w EXCEPT !.leaf = Append(@, key), !.used = @ + 1]
\* The outcomes of one row.
write_row(b, w, key) ==
  IF ~leaf_is_full(w, b.extracted[client.i] - (w.used + 1))
  THEN {[b |-> b, w |-> add_pair_to_leafnode(w, key)]}
  ELSE LET started == [w EXCEPT !.subtrees = Append(@, leaf_node(w.leaf)), !.leaf = <<>>]
       IN UNION {IF x.r = ""
                 THEN {[b |-> c, w |-> add_pair_to_leafnode(started, key)] : c \in finish_leafnode(x.b)}
                 ELSE {[b |-> ft_loader_set_panic(x.b, x.r, TRUE), w |-> [started EXCEPT !.result = x.r]]}
                 : x \in write_rows(b, w.pivots, <<lastOf(w.leaf)>>)}
write_rowset ==
  /\ writer.pc = "rows" /\ "consumer" \notin queue["fractal"].waiting
  /\ queue["fractal"].items # <<>>
  /\ \E q \in toku_queue_deq(queue["fractal"]) : queue' = [queue EXCEPT !["fractal"] = q]
  /\ LET rows == Head(queue["fractal"].items)
         Upto[j \in 0 .. Len(rows)] ==
           IF j = 0 THEN {[b |-> bl, w |-> writer]}
           ELSE UNION {IF x.w.result = "" THEN write_row(x.b, x.w, rows[j]) ELSE {x} : x \in Upto[j - 1]}
     IN \E x \in Upto[Len(rows)] :
          LET result == IF x.w.result = "" THEN x.b.error ELSE x.w.result
          IN bl' = x.b /\ writer' = [x.w EXCEPT !.result = result, !.pc = IF result = "" THEN "rows" ELSE "finish"]
  /\ UNCHANGED others_of_writer
rows_end ==
  /\ writer.pc = "rows" /\ "consumer" \notin queue["fractal"].waiting
  /\ queue["fractal"].items = <<>> /\ queue["fractal"].eof
  /\ writer' = [writer EXCEPT !.pc = "finish"]
  /\ UNCHANGED <<others_of_writer, bl, queue>>
\* The last leaf, and an extra pivot for it.
finish_leaves ==
  /\ writer.pc = "finish" /\ UNCHANGED <<others_of_writer, queue>>
  /\ \E b \in finish_leafnode(bl) :
       LET w == [writer EXCEPT !.subtrees = Append(@, leaf_node(writer.leaf)), !.leaf = <<>>]
           result == IF w.result = "" THEN b.error ELSE w.result
       IN IF result # "" THEN bl' = b /\ writer' = [w EXCEPT !.result = result, !.pc = "error"]
          ELSE IF w.used # b.extracted[client.i]
          THEN bl' = [b EXCEPT !.crashed = "used_estimate"] /\ writer' = w
          ELSE \E x \in write_rows(b, w.pivots, <<none>>) :
                 bl' = x.b /\ writer' = [w EXCEPT !.result = x.r, !.pc = IF x.r = "" THEN "nonleaves" ELSE "error"]

\* How many children the nodes over n nodes get.
RECURSIVE children(_)
children(n) ==
  IF n >= 2 * PerBlock THEN <<PerBlock>> \o children(n - PerBlock)
  ELSE IF n > PerBlock THEN <<n \div 2, n - n \div 2>> ELSE <<n>>
\* One node: its pivots are read, the last one goes to the next file of pivots.
\* The pivots are taken one too late.
setup_nonleaf_blockMut(b, w, first, n, next) ==
  LET pivots == SubSeq(b.files[w.pivots].rows, first, first + n - 1)
      node == [rows |-> <<>>, kids |-> SubSeq(w.subtrees, first, first + n - 1), pivots |-> SubSeq(pivots, 2, n)]
  IN {[b |-> x.b, r |-> x.r, node |-> node] : x \in write_rows(b, next, <<lastOf(pivots)>>)}
setup_nonleaf_block(b, w, first, n, next) ==
  LET pivots == SubSeq(b.files[w.pivots].rows, first, first + n - 1)
      node == [rows |-> <<>>, kids |-> SubSeq(w.subtrees, first, first + n - 1), pivots |-> SubSeq(pivots, 1, n - 1)]
  IN {[b |-> x.b, r |-> x.r, node |-> node] : x \in write_rows(b, next, <<lastOf(pivots)>>)}
write_nonleaf_node(b) ==
  {IF x.r = "" THEN x.b ELSE ft_loader_set_panic(x.b, x.r, TRUE) : x \in fallible(b, b)}
\* One level of write_nonleaves.
write_level ==
  /\ writer.pc = "nonleaves" /\ Len(writer.subtrees) > 1
  /\ \E o \in ft_loader_open_temp_file(bl) :
       LET next == Len(o.b.files)
           ns == children(Len(writer.subtrees))
           \* after j nodes: those made, and how many of the subtrees they used
           Upto[j \in 0 .. Len(ns)] ==
             IF j = 0 THEN {[b |-> o.b, r |-> "", nodes |-> <<>>, used |-> 0]}
             ELSE UNION {IF x.r # "" THEN {x}
                         ELSE UNION {{[b |-> c, r |-> y.r, nodes |-> Append(x.nodes, y.node), used |-> x.used + ns[j]]
                                      : c \in IF y.r = "" THEN write_nonleaf_node(y.b) ELSE {y.b}}
                                     : y \in setup_nonleaf_block(x.b, writer, x.used + 1, ns[j], next)}
                         : x \in Upto[j - 1]}
       IN IF o.r # ""
          THEN bl' = o.b /\ writer' = [writer EXCEPT !.result = o.r, !.pc = "closing"]
          ELSE \E x \in Upto[Len(ns)] :
               \E y \in Both(Both({[b |-> x.b, r |-> IF x.r = "" THEN x.b.error ELSE x.r]},
                                  LAMBDA b : ft_loader_fi_close(b, writer.pivots)),
                             LAMBDA b : ft_loader_fi_unlink(b, writer.pivots)) :
                 /\ bl' = y.b
                 /\ writer' = [writer EXCEPT !.subtrees = x.nodes, !.pivots = next, !.result = y.r,
                                 !.pc = IF y.r = "" THEN @ ELSE "closing"]
  /\ UNCHANGED <<others_of_writer, queue>>
\* The last file of pivots goes.
levels_end ==
  /\ writer.pc = "closing" \/ (writer.pc = "nonleaves" /\ Len(writer.subtrees) = 1)
  /\ \E x \in Both(Both({[b |-> bl, r |-> writer.result]}, LAMBDA b : ft_loader_fi_close(b, writer.pivots)),
                   LAMBDA b : ft_loader_fi_unlink(b, writer.pivots)) :
       bl' = x.b /\ writer' = [writer EXCEPT !.result = x.r, !.pc = IF x.r = "" THEN "header" ELSE "error"]
  /\ UNCHANGED <<others_of_writer, queue>>
\* The descriptor, the translation table and the header are written, and synced.
write_header ==
  /\ writer.pc = "header"
  /\ \E x \in Then(Then(fallible(bl, bl), update_progress), LAMBDA b : fallible(b, b)) :
       bl' = x.b /\ writer' = [writer EXCEPT !.result = x.r, !.pc = "error"]
  /\ UNCHANGED <<others_of_writer, queue>>
\* With an error or without, the file is closed and the queue drained.
close_fd ==
  /\ writer.pc = "error"
  /\ \E x \in fallible(bl, bl) :
       bl' = x.b /\ writer' = [writer EXCEPT !.pc = "drain", !.result = IF x.r = "" THEN @ ELSE x.r]
  /\ UNCHANGED <<others_of_writer, queue>>
drain_writer_q ==
  /\ writer.pc = "drain" /\ "consumer" \notin queue["fractal"].waiting
  /\ IF queue["fractal"].items # <<>>
     THEN (\E q \in toku_queue_deq(queue["fractal"]) : queue' = [queue EXCEPT !["fractal"] = q]) /\ UNCHANGED writer
     ELSE queue["fractal"].eof /\ writer' = [writer EXCEPT !.pc = "done"] /\ UNCHANGED queue
  /\ UNCHANGED <<others_of_writer, bl>>
toku_loader_write_ft_from_q ==
  \/ fractal_thread_starts \/ write_rowset \/ rows_end \/ finish_leaves \/ write_level \/ levels_end
  \/ write_header \/ close_fd \/ drain_writer_q
  \/ writer.pc \in {"rows", "drain"} /\ deq_waits("fractal")

-----------------------------------------------------------------------------
(* The client: DB_LOADER's put, close and abort.                           *)

others_of_client == <<load, extractor>>
\* The rowset goes to the extractor.
enqueue_for_extraction(pc) ==
  /\ \E q \in toku_queue_enq(queue["primary"], client.rows) : queue' = [queue EXCEPT !["primary"] = q]
  /\ client' = [client EXCEPT !.rows = <<>>, !.pc = pc]
  /\ UNCHANGED <<others_of_client, merge, writer>>

\* A put after an error of the loader only remembers that it failed.
put_refused ==
  /\ client.pc = "puts" /\ client.at <= Len(load.puts) /\ (client.err_errno # "" \/ bl.error # "")
  /\ client' = [client EXCEPT !.at = @ + 1, !.err_errno = IF @ = "" THEN "EINVAL" ELSE @]
  /\ UNCHANGED <<others_of_client, merge, writer, bl, queue>>
toku_loader_put ==
  /\ client.pc = "puts" /\ client.at <= Len(load.puts) /\ client.err_errno = "" /\ bl.error = ""
  /\ \E x \in fallible(bl, bl) :
       /\ bl' = x.b
       /\ client' = IF x.r = "" THEN [client EXCEPT !.at = @ + 1, !.rows = Append(@, load.puts[client.at]),
                                        !.pc = IF Len(client.rows) + 1 > RowBudget THEN "enq" ELSE "puts"]
                    ELSE [client EXCEPT !.at = @ + 1, !.err_errno = x.r]
  /\ UNCHANGED <<others_of_client, merge, writer, queue>>
put_enqueues ==
  /\ client.pc = "enq" /\ enqueue_for_extraction("enq_waits") /\ UNCHANGED bl
put_returns ==
  /\ client.pc = "enq_waits"
  /\ enq_returns("primary", client' = [client EXCEPT !.pc = "puts"])
  /\ UNCHANGED <<others_of_client, merge, writer>>

\* toku_loader_close and toku_loader_abort up to finish_extractor.  The loader
\* knows the client's error function only if the close goes on with the load.
ends ==
  /\ client.pc = "puts" /\ client.at > Len(load.puts)
  /\ bl' = [bl EXCEPT !.called = IF client.err_errno = "" THEN @ ELSE Append(@, client.err_errno),
                      !.has_function = client.err_errno = "" /\ load.ends = "close"]
  /\ client' = [client EXCEPT !.pc = "finish_extractor"]
  /\ UNCHANGED <<others_of_client, merge, writer, queue>>
finish_extractor ==
  /\ client.pc = "finish_extractor" /\ UNCHANGED bl
  /\ IF client.rows # <<>> THEN enqueue_for_extraction("fin_waits")
     ELSE client' = [client EXCEPT !.pc = "eof"] /\ UNCHANGED <<others_of_client, merge, writer, queue>>
finish_waits ==
  /\ client.pc = "fin_waits"
  /\ enq_returns("primary", client' = [client EXCEPT !.pc = "eof"])
  /\ UNCHANGED <<others_of_client, merge, writer>>
extractor_eof ==
  /\ client.pc = "eof"
  /\ \E q \in toku_queue_eof(queue["primary"]) : queue' = [queue EXCEPT !["primary"] = q]
  /\ client' = [client EXCEPT !.pc = "join"]
  /\ UNCHANGED <<others_of_client, merge, writer, bl>>

fails(b, r) ==
  /\ bl' = toku_ft_loader_internal_destroy(b, TRUE)
  /\ client' = [client EXCEPT !.pc = "empty", !.rval = r]
\* The extractor is joined; a close goes on unless there is an error.
extractor_joined ==
  /\ client.pc = "join" /\ extractor.pc = "ended"
  /\ \E x \in ft_loader_fi_close_all(bl) :
       LET told == ft_loader_call_error_function(x.b)
       IN IF queue["primary"].items # <<>>
          THEN bl' = [x.b EXCEPT !.crashed = "queue"] /\ UNCHANGED client
          ELSE IF ~bl.has_function
          THEN IF x.r # "" /\ load.ends = "abort"
               THEN bl' = [x.b EXCEPT !.crashed = "abort"] /\ UNCHANGED client
               ELSE fails(x.b, x.r)
          ELSE IF x.r # "" THEN fails(x.b, x.r)
          ELSE IF told.error # "" THEN fails(told, told.error)
          ELSE bl' = told /\ client' = [client EXCEPT !.pc = "do_i", !.i = 1]
  /\ UNCHANGED <<others_of_client, merge, writer, queue>>

loader_do_i ==
  /\ client.pc = "do_i" /\ client.i \in Dbs /\ UNCHANGED others_of_client
  /\ \E x \in fallible(bl, bl) :
       IF x.r # "" THEN fails(x.b, x.r) /\ UNCHANGED <<merge, writer, queue>>
       ELSE /\ bl' = [x.b EXCEPT !.fs[client.i].files = <<>>]
            /\ client' = [client EXCEPT !.pc = "do_i_joins"]
            /\ queue' = [queue EXCEPT !["fractal"] = toku_queue_create]
            /\ merge' = [NoMerge EXCEPT !.pc = "pass", !.fs = bl.fs[client.i].files]
            /\ writer' = [NoWriter EXCEPT !.pc = "start"]
writer_joined ==
  /\ client.pc = "do_i_joins" /\ merge.pc = "join" /\ writer.pc = "done"
  /\ merge' = NoMerge /\ writer' = NoWriter /\ UNCHANGED <<others_of_client, queue>>
  /\ LET r == IF merge.result # "" THEN merge.result ELSE writer.result
     IN IF queue["fractal"].items # <<>>
        THEN bl' = [bl EXCEPT !.crashed = "queue"] /\ UNCHANGED client
        ELSE IF r # "" THEN fails(bl, r)
        ELSE /\ client' = [client EXCEPT !.pc = "do_i", !.i = @ + 1, !.made = Append(@, writer.subtrees[1])]
             /\ UNCHANGED bl
\* All the dictionaries are made: the directory is synced, they are put in place.
close_internal_ends ==
  /\ client.pc = "do_i" /\ client.i \notin Dbs
  /\ \E x \in fallible(bl, bl) :
       IF x.r # "" THEN fails(x.b, x.r)
       ELSE IF \E f \in DOMAIN bl.files : bl.files[f].open \/ bl.files[f].extant
       THEN bl' = [x.b EXCEPT !.crashed = "files"] /\ UNCHANGED client
       ELSE /\ bl' = toku_ft_loader_internal_destroy(x.b, FALSE)
            /\ client' = [client EXCEPT !.pc = "redirect", !.i = 1]
  /\ UNCHANGED <<others_of_client, merge, writer, queue>>
toku_dictionary_redirect ==
  /\ client.pc = "redirect"
  /\ client' = IF client.i \in Dbs THEN [client EXCEPT !.dict[client.i] = client.made[client.i], !.i = @ + 1]
               ELSE [client EXCEPT !.pc = "closed", !.made = <<>>]
  /\ UNCHANGED <<others_of_client, merge, writer, bl, queue>>
redirect_loader_to_empty_dictionaries ==
  /\ client.pc = "empty"
  /\ client' = [client EXCEPT !.pc = "closed", !.dict = [i \in Dbs |-> leaf_node(<<>>)], !.made = <<>>]
  /\ UNCHANGED <<others_of_client, merge, writer, bl, queue>>
toku_loader_close ==
  \/ put_refused \/ toku_loader_put \/ put_enqueues \/ put_returns \/ ends \/ finish_extractor \/ finish_waits
  \/ extractor_eof \/ extractor_joined \/ loader_do_i \/ writer_joined \/ close_internal_ends
  \/ toku_dictionary_redirect \/ redirect_loader_to_empty_dictionaries

-----------------------------------------------------------------------------
Init ==
  /\ load \in Loads
  /\ client = [pc |-> "puts", at |-> 1, rows |-> <<>>, err_errno |-> "", i |-> 1, rval |-> "",
               made |-> <<>>, dict |-> [i \in Dbs |-> leaf_node(<<>>)]]
  /\ bl = [error |-> "", has_function |-> FALSE, did_callback |-> FALSE, called |-> <<>>, stopped |-> FALSE,
           crashed |-> "", workers |-> 0, faults |-> Faults, files |-> <<>>,
           fs |-> [i \in Dbs |-> [files |-> <<>>, sorted |-> none, prev |-> none]],
           rows |-> [i \in Dbs |-> <<>>], extracted |-> [i \in Dbs |-> 0]]
  /\ queue = [n \in {"primary", "fractal"} |-> toku_queue_create]
  /\ extractor = [pc |-> "deq", r |-> ""]
  /\ merge = NoMerge /\ writer = NoWriter

Alive == bl.crashed = ""
Next ==
  \/ Alive /\ toku_loader_close
  \/ Alive /\ extractor_thread
  \/ Alive /\ merge_files
  \/ Alive /\ toku_loader_write_ft_from_q
\* The threads run.
Fairness == WF_vars(Next)
Spec == Init /\ [][Next]_vars /\ Fairness

-----------------------------------------------------------------------------
closed == client.pc = "closed"
\* The rows of a tree from left to right, and the search for a key along the pivots.
RECURSIVE RowsOf(_)
RowsOf(n) ==
  LET Upto[j \in 0 .. Len(n.kids)] == IF j = 0 THEN n.rows ELSE Upto[j - 1] \o RowsOf(n.kids[j])
  IN Upto[Len(n.kids)]
RECURSIVE Finds(_, _)
Finds(n, key) ==
  IF n.kids = <<>> THEN \E j \in DOMAIN n.rows : n.rows[j] = key
  ELSE LET below == {j \in DOMAIN n.pivots : n.pivots[j] < key} IN Finds(n.kids[Cardinality(below) + 1], key)
RECURSIVE Balanced(_)
Balanced(n) ==
  /\ \A j \in DOMAIN n.kids : Balanced(n.kids[j]) /\ (n.kids[j].kids = <<>>) = (n.kids[1].kids = <<>>)
  /\ n.kids # <<>> => Len(n.kids) >= 2 /\ Len(n.pivots) = Len(n.kids) - 1
Generated(i) == LET Upto[j \in 0 .. Len(load.puts)] ==
                      IF j = 0 THEN <<>> ELSE Upto[j - 1] \o load.gen[i][load.puts[j]]
                IN Upto[Len(load.puts)]

\* A close without an error, after puts without one, leaves in every dictionary
\* exactly the rows its generator made, in order, each of them found by a search
\* of the tree (and none was made twice); any other end leaves them all empty.
Loaded ==
  closed =>
    \A i \in Dbs :
      LET rows == RowsOf(client.dict[i])
          made == Generated(i)
      IN IF load.ends = "close" /\ client.rval = "" /\ client.err_errno = ""
         THEN /\ Len(rows) = Len(made) /\ {rows[j] : j \in DOMAIN rows} = {made[j] : j \in DOMAIN made}
              /\ \A j \in 1 .. Len(rows) - 1 : rows[j] < rows[j + 1]
              /\ \A j \in DOMAIN rows : Finds(client.dict[i], rows[j])
              /\ Balanced(client.dict[i])
         ELSE rows = <<>>
\* After the loader no temporary file is left, open or on the disk.
TempFilesGone == closed => \A f \in DOMAIN bl.files : ~bl.files[f].open /\ ~bl.files[f].extant
\* The client hears of at most one error, the first.
ErrorOnce == Len(bl.called) <= 1 /\ \A j \in DOMAIN bl.called : bl.called[j] \in {bl.error, client.err_errno}
\* The loader ends by returning, or by one of the two assertions that can fail:
\* a duplicate that the heap meets in a pop, and the close of the files in an abort.
\* The assertions on the queues, the files and the sizes hold.
Finishes == <>(closed \/ bl.crashed \in {"pqueue_pop", "abort"})
\* No assertion fails.
NoAssertFails == Alive
=============================================================================
