--------------------------- MODULE ConcurrentTree ---------------------------
(***************************************************************************)
(* The tree of row locks of locktree/concurrent_tree.cc and                *)
(* locktree/treenode.cc: a binary tree of disjoint ranges with a mutex in  *)
(* every node.  A thread walks down to the subtree that holds all that     *)
(* overlaps its range, handing over the mutex from parent to child and     *)
(* rotating on the way; then it reads, removes and inserts below the node  *)
(* it holds.  The calls are those of a request for a lock and of a release *)
(* (locktree/locktree.cc).  Each wait for a mutex is a step.               *)
(***************************************************************************)
EXTENDS Integers, Sequences, FiniteSets, SequencesExt

CONSTANTS
  RowTxns,             \* the threads, each with a transaction of its own
  TreeNodes,           \* the nodes there is memory for; 0 is the root
  RowPrograms,         \* records [build, ops]: the calls made before and by the threads
  IMBALANCE_THRESHOLD

VARIABLES
  rowprog,   \* the program that runs
  treenode,  \* the nodes: children, the depths they were last known to have, lock
  mutex,     \* <<>> or the thread that holds the node's mutex
  worker,    \* the threads
  rowlocks   \* history: the locks inserted and not removed
ctvars == <<rowprog, treenode, mutex, worker, rowlocks>>

Nil == -1
Root == 0
Sides == {"l", "r"}
Other(s) == IF s = "l" THEN "r" ELSE "l"
FreeNode == [kid |-> [l |-> Nil, r |-> Nil], est |-> [l |-> 0, r |-> 0], lock |-> <<>>]
m_range(n) == treenode[n].lock[1]
is_empty(n) == treenode[n].lock = <<>>
Hull(a, b) == <<IF b[1] < a[1] THEN b[1] ELSE a[1], IF b[2] > a[2] THEN b[2] ELSE a[2]>>

\* keyrange::compare
compare(a, b) == CASE a[2] < b[1] -> "less"
                   [] a[1] > b[2] -> "greater"
                   [] a = b -> "equals"
                   [] OTHER -> "overlaps"
overlaps(a, b) == compare(a, b) \in {"equals", "overlaps"}
SideOf(a, b) == IF compare(a, b) = "less" THEN "l" ELSE "r"

get_depth_estimate(nd, n) ==
  IF n = Nil THEN 0
  ELSE 1 + IF nd[n].est.l > nd[n].est.r THEN nd[n].est.l ELSE nd[n].est.r
set(nd, n, s, c) ==
  [nd EXCEPT ![n].kid[s] = c, ![n].est[s] = get_depth_estimate(nd, c)]
assign(nd, n, s, m, x) ==
  [nd EXCEPT ![n].kid[s] = nd[m].kid[x], ![n].est[s] = nd[m].est[x]]
imbalanced(nd, n, s, threshold) ==
  nd[n].kid[s] # Nil /\ nd[n].est[s] > threshold + nd[n].est[Other(s)]

\* The node's mutex is free and the thread takes it; the parent notes the depth.
Free(n) == mutex[n] = <<>>
Locked(mx, n, t) == [mx EXCEPT ![n] = <<t>>]
Unlocked(mx, ns) == [n \in TreeNodes |-> IF n \in ns THEN <<>> ELSE mx[n]]
get_locked(nd, n, s) == set(nd, n, s, nd[n].kid[s])

\* A node is freed: the root only becomes empty.
free(nd, n) == IF n = Root THEN [nd EXCEPT ![n].lock = <<>>] ELSE [nd EXCEPT ![n] = FreeNode]

Op(t) == rowprog.ops[t][worker[t].op]
Top(t) == worker[t].path[Len(worker[t].path)]
At(t) == Top(t)[1]
Goto(t, pc) == worker' = [worker EXCEPT ![t].pc = pc]

-----------------------------------------------------------------------------
CTInit ==
  /\ rowprog \in RowPrograms
  /\ treenode = [n \in TreeNodes |-> FreeNode]
  /\ mutex = [n \in TreeNodes |-> <<>>]
  /\ worker = [t \in RowTxns |->
                 [op |-> 1, pc |-> "idle", range |-> <<>>, sub |-> Nil, path |-> <<>>,
                  kid |-> Nil, spine |-> <<>>, found |-> <<>>, todo |-> <<>>]]
  /\ rowlocks = {}

\* locked_keyrange::prepare and the start of acquire.  The thread that builds the
\* tree makes its first calls alone.
Built == \A t \in RowTxns : worker[t].op > rowprog.build[t]
prepare(t) ==
  LET r == Op(t)[2] IN
  /\ worker[t].pc = "idle" /\ worker[t].op <= Len(rowprog.ops[t])
  /\ Built \/ worker[t].op <= rowprog.build[t]
  /\ Free(Root)
  /\ mutex' = Locked(mutex, Root, t)
  /\ worker' = [worker EXCEPT ![t] =
       [@ EXCEPT !.range = r, !.found = <<>>, !.path = <<<<Root, "enter">>>>, !.sub = Root,
                 !.pc = IF is_empty(Root) \/ overlaps(m_range(Root), r)
                        THEN "iterate" ELSE "find"]]
  /\ UNCHANGED <<rowprog, treenode, rowlocks>>

\* The child c, at side s of n, is locked and balanced, its mutexes are in mx: the
\* search stops at n when c overlaps, else goes on in c without n; an insertion
\* goes on in c and keeps n.
arrive(t, nd, mx, n, s, c) ==
  LET stop == overlaps(worker[t].range, nd[c].lock[1])
      find == worker[t].pc \in {"find", "find_rotate", "find_rotate2"}
  IN  /\ treenode' = set(nd, n, s, c)
      /\ IF find
         THEN /\ mutex' = Unlocked(mx, {IF stop THEN c ELSE n})
              /\ worker' = [worker EXCEPT ![t] =
                   [@ EXCEPT !.pc = IF stop THEN "iterate" ELSE "find",
                             !.sub = IF stop THEN n ELSE c,
                             !.path = <<<<IF stop THEN n ELSE c, "enter">>>>]]
         ELSE /\ mutex' = mx
              /\ worker' = [worker EXCEPT ![t] =
                   [@ EXCEPT !.pc = "insert", !.path = Append(@, <<c, "">>)]]

\* lock_and_rebalance_left and _right: the child is locked; when it leans too much
\* to side x its child there is locked as well, and then maybe that one's.
lock_and_rebalance(t) ==
  /\ worker[t].pc \in {"find", "insert"} /\ ~is_empty(At(t))
  /\ \E n \in {At(t)} : \E s \in {SideOf(worker[t].range, m_range(n))} :
     \E c \in {treenode[n].kid[s]} :
       /\ c # Nil /\ Free(c)
       /\ IF \E x \in Sides : imbalanced(treenode, c, x, IMBALANCE_THRESHOLD)
          THEN /\ treenode' = get_locked(treenode, n, s)
               /\ mutex' = Locked(mutex, c, t)
               /\ worker' = [worker EXCEPT ![t].kid = c,
                    ![t].pc = IF @ = "find" THEN "find_rotate" ELSE "insert_rotate"]
          ELSE arrive(t, treenode, Locked(mutex, c, t), n, s, c)
  /\ UNCHANGED <<rowprog, rowlocks>>

rotate(nd, n, x, c) == set(assign(nd, n, x, c, Other(x)), c, Other(x), n)
rotate2(nd, n, x, c, g) ==
  set(assign(set(assign(nd, c, Other(x), g, x), g, x, c), n, x, g, Other(x)),
      g, Other(x), n)

maybe_rebalance(t) ==
  /\ worker[t].pc \in {"find_rotate", "insert_rotate"}
  /\ \E n \in {worker[t].kid} :
     \E x \in {y \in Sides : imbalanced(treenode, n, y, IMBALANCE_THRESHOLD)} :
     \E c \in {treenode[n].kid[x]} : \E s \in {SideOf(worker[t].range, m_range(At(t)))} :
     \E nd \in {get_locked(treenode, n, x)} :
       /\ Free(c)
       /\ IF imbalanced(nd, c, Other(x), 0)
          THEN /\ treenode' = nd /\ mutex' = Locked(mutex, c, t)
               /\ worker' = [worker EXCEPT ![t].pc =
                    IF @ = "find_rotate" THEN "find_rotate2" ELSE "insert_rotate2"]
          ELSE arrive(t, rotate(nd, n, x, c), Unlocked(Locked(mutex, c, t), {n}), At(t), s, c)
  /\ UNCHANGED <<rowprog, rowlocks>>
maybe_rebalance2(t) ==
  /\ worker[t].pc \in {"find_rotate2", "insert_rotate2"}
  /\ \E n \in {worker[t].kid} :
     \E x \in {y \in Sides : treenode[n].kid[y] # Nil /\ mutex[treenode[n].kid[y]] = <<t>>} :
     \E c \in {treenode[n].kid[x]} : \E g \in {treenode[c].kid[Other(x)]} :
     \E s \in {SideOf(worker[t].range, m_range(At(t)))} :
       /\ Free(g)
       /\ arrive(t, rotate2(get_locked(treenode, c, Other(x)), n, x, c, g),
                 Unlocked(Locked(mutex, g, t), {n, c}), At(t), s, g)
  /\ UNCHANGED <<rowprog, rowlocks>>

\* The search would lead to an empty subtree.
find_node_with_overlapping_child(t) ==
  /\ worker[t].pc = "find"
  /\ treenode[At(t)].kid[SideOf(worker[t].range, m_range(At(t)))] = Nil
  /\ worker' = [worker EXCEPT ![t].pc = "iterate"]
  /\ UNCHANGED <<rowprog, treenode, mutex, rowlocks>>

-----------------------------------------------------------------------------
(* treenode::traverse_overlaps.  The path holds the nodes being visited,   *)
(* each with how far the visit has come.                                   *)

\* The visit of the last node ends, and with it those of the nodes above that
\* were in their right child.
returned(w, mx, found) ==
  LET lefts == {i \in 1 .. Len(w.path) - 1 : w.path[i][2] = "left"}
      k     == IF lefts = {} THEN 0 ELSE CHOOSE i \in lefts : \A j \in lefts : j <= i
      done  == {w.path[i][1] : i \in {j \in 2 .. Len(w.path) : j > k}}
  IN  <<[w EXCEPT !.found = found,
                  !.pc = IF k = 0 THEN "decide" ELSE @,
                  !.path = IF k = 0 THEN <<>>
                           ELSE [SubSeq(@, 1, k) EXCEPT ![k][2] = "mid"]],
        Unlocked(mx, done)>>
\* Mutant: the mutex of a child that is visited is not waited for.
descendMut(t, n, s, w, phase) ==
  LET c == treenode[n].kid[s]
      skip == compare(w.range, m_range(n)) = (IF s = "l" THEN "greater" ELSE "less")
      in == [w EXCEPT !.path = Append([@ EXCEPT ![Len(@)][2] = phase], <<c, "enter">>)]
      out == IF s = "l" THEN <<[w EXCEPT !.path[Len(w.path)][2] = "mid"], mutex>>
             ELSE returned(w, mutex, w.found)
  IN  /\ treenode' = get_locked(treenode, n, s)
      /\ worker' = [worker EXCEPT ![t] = IF skip THEN out[1] ELSE in]
      /\ mutex' = IF skip THEN out[2] ELSE Locked(mutex, c, t)
\* The child at side s is locked: visited, or let go when nothing there can overlap.
descend(t, n, s, w, phase) ==
  LET c == treenode[n].kid[s]
      skip == compare(w.range, m_range(n)) = (IF s = "l" THEN "greater" ELSE "less")
      in == [w EXCEPT !.path = Append([@ EXCEPT ![Len(@)][2] = phase], <<c, "enter">>)]
      out == IF s = "l" THEN <<[w EXCEPT !.path[Len(w.path)][2] = "mid"], mutex>>
             ELSE returned(w, mutex, w.found)
  IN  /\ Free(c)
      /\ treenode' = get_locked(treenode, n, s)
      /\ worker' = [worker EXCEPT ![t] = IF skip THEN out[1] ELSE in]
      /\ mutex' = IF skip THEN out[2] ELSE Locked(mutex, c, t)
Return(t, w, found) ==
  \E x \in {returned(w, mutex, found)} :
    worker' = [worker EXCEPT ![t] = x[1]] /\ mutex' = x[2] /\ UNCHANGED treenode

traverse_left(t) ==
  /\ worker[t].pc = "iterate" /\ Top(t)[2] = "enter"
  /\ \E n \in {At(t)} :
       CASE is_empty(n) -> Return(t, worker[t], <<>>)
         [] ~is_empty(n) /\ compare(worker[t].range, m_range(n)) = "equals" ->
              Return(t, worker[t], Append(worker[t].found, treenode[n].lock))
         [] OTHER -> IF treenode[n].kid.l = Nil
                     THEN /\ worker' = [worker EXCEPT ![t].path[Len(worker[t].path)][2] = "mid"]
                          /\ UNCHANGED <<treenode, mutex>>
                     ELSE descend(t, n, "l", worker[t], "left")
  /\ UNCHANGED <<rowprog, rowlocks>>
traverse_right(t) ==
  /\ worker[t].pc = "iterate" /\ Top(t)[2] = "mid"
  /\ \E n \in {At(t)} :
     \E found \in {IF overlaps(worker[t].range, m_range(n))
                   THEN Append(worker[t].found, treenode[n].lock) ELSE worker[t].found} :
       IF treenode[n].kid.r = Nil THEN Return(t, worker[t], found)
       ELSE descend(t, n, "r", [worker[t] EXCEPT !.found = found], "right")
  /\ UNCHANGED <<rowprog, rowlocks>>

\* acquire_lock_consolidated and remove_overlapping_locks_for_txnid, once they
\* have the locks that overlap.
decide(t) ==
  LET found == worker[t].found
      mine  == SelectSeq(found, LAMBDA l : l[2] = t)
      acq   == Op(t)[1] = "acquire"
      todo  == IF acq /\ Len(mine) < Len(found) THEN <<>> ELSE mine
  IN  /\ worker[t].pc = "decide"
      /\ worker' = [worker EXCEPT ![t] =
           [@ EXCEPT !.todo = todo, !.path = <<<<worker[t].sub, "">>>>,
                     !.range = IF acq THEN FoldLeft(LAMBDA r, l : Hull(r, l[1]), @, todo) ELSE @,
                     !.pc = CASE todo # <<>> -> "remove"
                              [] acq /\ found = <<>> -> "insert"
                              [] OTHER -> "release"]]
      /\ UNCHANGED <<rowprog, treenode, mutex, rowlocks>>

-----------------------------------------------------------------------------
\* The nodes of the path take their child again, from the last one, which is
\* replaced by new, upwards; all but the first are unlocked.
unwind(nd, path, new) ==
  FoldLeft(LAMBDA d, i :
             LET p == path[i][1]
                 s == IF d[p].kid.l = path[i + 1][1] THEN "l" ELSE "r"
             IN  set(d, p, s, IF i + 1 = Len(path) THEN new ELSE path[i + 1][1]),
           nd, [i \in 1 .. Len(path) - 1 |-> Len(path) - i])
removed(t, nd, new, mx) ==
  LET w == worker[t] IN
  /\ treenode' = free(unwind(nd, w.path, IF new = Nil THEN Nil ELSE At(t)),
                      IF new = Nil THEN At(t) ELSE new)
  /\ mutex' = Unlocked(mx, {w.path[i][1] : i \in 2 .. Len(w.path)})
  /\ rowlocks' = rowlocks \ {Head(w.todo)}
  /\ worker' = [worker EXCEPT ![t] =
       [@ EXCEPT !.todo = Tail(@), !.path = <<w.path[1]>>, !.spine = <<>>,
                 !.pc = CASE Len(w.todo) > 1 -> "remove"
                          [] Len(w.todo) = 1 /\ Op(t)[1] = "acquire" -> "insert"
                          [] OTHER -> "release"]]

\* treenode::remove: the child on the way to the range is locked.
remove_descend(t) ==
  /\ worker[t].pc = "remove"
  /\ \E n \in {At(t)} : \E r \in {Head(worker[t].todo)[1]} :
       /\ r # m_range(n)
       /\ \E s \in {SideOf(r, m_range(n))} : \E c \in {treenode[n].kid[s]} :
            /\ Free(c)
            /\ treenode' = get_locked(treenode, n, s)
            /\ mutex' = Locked(mutex, c, t)
            /\ worker' = [worker EXCEPT ![t].path = Append(@, <<c, "">>)]
  /\ UNCHANGED <<rowprog, rowlocks>>
\* remove_root_of_subtree: a node without children is freed; else a child is
\* locked, on the left if there is one.
Chosen(n) == IF treenode[n].kid.l # Nil THEN "l" ELSE "r"
remove_root_of_subtree(t) ==
  /\ worker[t].pc = "remove" /\ Head(worker[t].todo)[1] = m_range(At(t))
  /\ \E n \in {At(t)} : \E c \in {treenode[n].kid[Chosen(n)]} :
       IF c = Nil THEN removed(t, treenode, Nil, mutex)
       ELSE /\ Free(c)
            /\ treenode' = get_locked(treenode, n, Chosen(n))
            /\ mutex' = Locked(mutex, c, t)
            /\ worker' = [worker EXCEPT ![t].pc = "extreme", ![t].spine = <<c>>]
            /\ UNCHANGED rowlocks
  /\ UNCHANGED rowprog
\* find_child_at_extreme: the mutexes of the nodes passed are given back, all but
\* the child's, before the replacement is detached.
find_child_at_extreme(t) ==
  /\ worker[t].pc = "extreme"
  /\ \E sp \in {worker[t].spine} : \E m \in {sp[Len(sp)]} :
     \E o \in {Other(Chosen(At(t)))} : \E c \in {treenode[m].kid[o]} :
       IF c = Nil
       THEN /\ mutex' = Unlocked(mutex, {sp[i] : i \in 2 .. Len(sp)})
            /\ Goto(t, "detach")
            /\ UNCHANGED treenode
       ELSE /\ Free(c)
            /\ treenode' = get_locked(treenode, m, o)
            /\ mutex' = Locked(mutex, c, t)
            /\ worker' = [worker EXCEPT ![t].spine = Append(@, c)]
  /\ UNCHANGED <<rowprog, rowlocks>>
\* Mutant: the children of the replacement are not handed to its parent.
detachMut(t) ==
  /\ worker[t].pc = "detach"
  /\ \E sp \in {worker[t].spine} : \E rep \in {sp[Len(sp)]} : \E n \in {At(t)} :
     \E s \in {Chosen(n)} :
     \E nd \in {IF Len(sp) = 1 THEN assign(treenode, n, s, rep, s)
                ELSE set(treenode, sp[Len(sp) - 1], Other(s), Nil)} :
       removed(t, [nd EXCEPT ![n].lock = treenode[rep].lock], rep,
               Unlocked(mutex, {sp[1]}))
  /\ UNCHANGED rowprog
\* The replacement leaves its parent, gives the node its range and is freed.
detach(t) ==
  /\ worker[t].pc = "detach"
  /\ \E sp \in {worker[t].spine} : \E rep \in {sp[Len(sp)]} : \E n \in {At(t)} :
     \E s \in {Chosen(n)} :
     \E nd \in {IF Len(sp) = 1 THEN assign(treenode, n, s, rep, s)
                ELSE assign(treenode, sp[Len(sp) - 1], Other(s), rep, s)} :
       removed(t, [nd EXCEPT ![n].lock = treenode[rep].lock], rep,
               Unlocked(mutex, {sp[1]}))
  /\ UNCHANGED rowprog

\* locked_keyrange::insert and treenode::insert, at the empty place.
insert(t) ==
  LET w    == worker[t]
      lock == <<w.range, t>>
      new  == CHOOSE n \in TreeNodes \ {Root} :
                /\ treenode[n] = FreeNode
                /\ \A m \in TreeNodes \ {Root} : treenode[m] = FreeNode => n <= m
  IN  /\ w.pc = "insert"
      /\ IF is_empty(At(t)) THEN treenode' = [treenode EXCEPT ![At(t)].lock = lock]
         ELSE /\ treenode[At(t)].kid[SideOf(w.range, m_range(At(t)))] = Nil
              /\ treenode' = set([treenode EXCEPT ![new].lock = lock], At(t),
                                 SideOf(w.range, m_range(At(t))), new)
      /\ mutex' = Unlocked(mutex, {w.path[i][1] : i \in 2 .. Len(w.path)})
      /\ rowlocks' = rowlocks \union {lock}
      /\ Goto(t, "release")
      /\ UNCHANGED rowprog
release(t) ==
  /\ worker[t].pc = "release"
  /\ mutex' = Unlocked(mutex, {worker[t].sub})
  /\ worker' = [worker EXCEPT ![t] =
       [@ EXCEPT !.pc = "idle", !.op = @ + 1, !.sub = Nil, !.path = <<>>, !.kid = Nil,
                 !.found = <<>>, !.range = <<>>]]
  /\ UNCHANGED <<rowprog, treenode, rowlocks>>

CTFinished ==
  /\ \A t \in RowTxns : worker[t].pc = "idle" /\ worker[t].op > Len(rowprog.ops[t])
  /\ UNCHANGED ctvars
CTNext ==
  \/ \E t \in RowTxns :
       \/ prepare(t) \/ lock_and_rebalance(t) \/ maybe_rebalance(t) \/ maybe_rebalance2(t)
       \/ find_node_with_overlapping_child(t) \/ traverse_left(t) \/ traverse_right(t)
       \/ decide(t) \/ remove_descend(t) \/ remove_root_of_subtree(t)
       \/ find_child_at_extreme(t) \/ detach(t) \/ insert(t) \/ release(t)
  \/ CTFinished

-----------------------------------------------------------------------------
RECURSIVE InOrder(_)
InOrder(n) == IF n = Nil \/ is_empty(n) THEN <<>>
              ELSE InOrder(treenode[n].kid.l) \o <<treenode[n].lock>>
                     \o InOrder(treenode[n].kid.r)

\* Whoever is on the way down, rotating or removing, the tree holds the locks that
\* were inserted and not removed, each once, in order and disjoint (the rotations
\* of maybe_rebalance, remove_root_of_subtree, which changes a node whose mutex it
\* has given back, and swap_in_place).
TreeHoldsLocks ==
  LET s == InOrder(Root) IN
  /\ {s[i] : i \in DOMAIN s} = rowlocks
  /\ Len(s) = Cardinality(rowlocks)
  /\ \A i \in 1 .. Len(s) - 1 : s[i][1][2] < s[i + 1][1][1]

\* "Exclusive access to read and write operations that occur on any keys in that
\* range": what a thread has read is what the tree holds until the thread changes
\* it, and nothing overlaps the range that it is about to insert, although others
\* may be at work below the node it holds (locked_keyrange::acquire, iterate).
ExclusiveRange ==
  \A t \in RowTxns :
    LET w == worker[t]
        now == {l \in rowlocks : overlaps(l[1], w.range)}
    IN  /\ w.pc = "decide" => {w.found[i] : i \in DOMAIN w.found} = now
        /\ w.pc \in {"remove", "extreme", "detach"} =>
             now \ {l \in now : l[2] # t} = {w.todo[i] : i \in DOMAIN w.todo}
        /\ w.pc \in {"insert", "insert_rotate", "insert_rotate2"} => now = {}
=============================================================================
