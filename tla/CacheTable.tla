----------------------------- MODULE CacheTable -----------------------------
(***************************************************************************)
(* The pairs of one cachefile: pinning with and without waiting, the       *)
(* pending bits that cut a change of several nodes off from the checkpoint *)
(* under way, clones, eviction, prefetch, removal and the close.           *)
(*                                                                         *)
(* The clients run what the flusher and the queries do to a root and its   *)
(* leaves.  A node's contents are its children and a set of messages; to   *)
(* which child a message belongs is left out, a flush moves them all.      *)
(* The value lock of a pair is a reader-writer lock whose waiters are      *)
(* served in any order, except where the code counts on their order.       *)
(***************************************************************************)
EXTENDS Naturals, Sequences, FiniteSets

CONSTANTS Root, Leaves,   \* the nodes
          Cloneable,      \* those that have a clone callback
          Clients, Works, \* the threads; the leaves at first and what each thread runs
          Tokens,         \* the messages that may be injected
          MaxCheckpoints, MaxEvictions

Jobs == {"inject", "flush", "query", "clean"}

\* The root is no leaf, and the names of the other threads are none of the clients'.
ASSUME CacheTableAssumption ==
  /\ Root \notin Leaves /\ IsFiniteSet(Leaves) /\ IsFiniteSet(Clients)
  /\ Clients \cap {"cp", "ev", "rd"} = {}
  /\ \A w \in Works : w.kids \subseteq Leaves /\ w.ops \in [Clients -> Seq(Jobs)]

VARIABLES
  pair,      \* for each node [st, val, dirty, pend, clone]
  lock,      \* the value lock of each pair: [w, r], the threads that hold it
  dm,        \* who holds the disk mutex of each pair
  disk,      \* what the current translation of each block reads, <<>> if free
  ckpt,      \* the same for the translation of the checkpoint under way
  plist,     \* the list of pending pairs
  cp,        \* the checkpoint thread: [ph, cur, n]
  ev,        \* how far the eviction of each pair is
  mo,        \* clients that hold the multi-operation lock
  th,        \* client threads
  evictions, \* evictions done
  closing,   \* progress of the close
  injected,  \* history: messages in the tree
  before     \* history: those in the tree when the checkpoint began

vars == <<pair, lock, dm, disk, ckpt, plist, cp, ev, mo, th, evictions, closing,
          injected, before>>
history == <<injected, before>>

Keys == {Root} \cup Leaves
Node(kids, toks) == [kids |-> kids, toks |-> toks]
NoPair == [st |-> "none", val |-> <<>>, dirty |-> FALSE, pend |-> FALSE, clone |-> <<>>]

\* pair_init: a pair in the table whose value is yet to be read (<<>>) or given.
pair_init(val, dirty) == [NoPair EXCEPT !.st = "table", !.val = val, !.dirty = dirty]

Thread == [pc |-> "idle", ph |-> "go", todo |-> {}, x |-> Root, y |-> Root,
           fl |-> {}, mod |-> {}, work |-> <<>>]

Init ==
  /\ pair = [k \in Keys |-> NoPair]
  /\ lock = [k \in Keys |-> [w |-> {}, r |-> {}]]
  /\ dm = [k \in Keys |-> "free"]
  /\ ckpt = [k \in Keys |-> <<>>]
  /\ plist = {} /\ cp = [ph |-> "idle", cur |-> Root, n |-> 0]
  /\ ev = [k \in Keys |-> "no"] /\ mo = {} /\ evictions = 0 /\ closing = "no"
  /\ \E w \in Works :
       /\ disk = [k \in Keys |-> CASE k = Root -> <<Node(w.kids, {})>>
                                   [] k \in w.kids -> <<Node({}, {})>> [] OTHER -> <<>>]
       /\ th = [t \in Clients |-> [Thread EXCEPT !.work = w.ops[t]]]
  /\ injected = {} /\ before = {}

\* -------------------------------------------------------------- pin requests

\* The pins of the operations: which node, with which nodes pinned before it
\* whose pending bits are read in the same instant, for reading or writing and how.
Pin(k, deps, mode, way, next) ==
  [k |-> k, deps |-> deps, mode |-> mode, way |-> way, next |-> next]

Pins ==
  [inject_root |-> Pin("root", {}, "w", "block", "inject_put"),
   bg_child    |-> Pin("x", {}, "w", "maybe", "bg_detach"),
   flush_root  |-> Pin("root", {}, "w", "block", "flush_pick"),
   flush_child |-> Pin("x", {"root"}, "w", "block", "flush_detach"),
   split_put   |-> Pin("y", {"root", "x"}, "w", "put", "split_do"),
   merge_a     |-> Pin("x", {"root"}, "w", "block", "merge_b"),
   merge_b     |-> Pin("y", {"root", "x"}, "w", "block", "merge_do"),
   clean_pick  |-> Pin("root", {}, "w", "clean", "flush_pick"),
   query_root  |-> Pin("root", {}, "r", "nonblock", "query_pick"),
   query_child |-> Pin("x", {}, "r", "nonblock", "query_unpin")]

Role(t, r) == CASE r = "root" -> Root [] r = "x" -> th[t].x [] r = "y" -> th[t].y
Pinning(t) == th[t].pc \in DOMAIN Pins
Want(t) == Pins[th[t].pc]
Key(t) == Role(t, Want(t).k)
Deps(t) == {Role(t, r) : r \in Want(t).deps}

\* Threads that hold the value lock of k or wait for it: value_rwlock.users().
Waiting(t, k) == \/ Pinning(t) /\ Key(t) = k /\ th[t].ph \in {"wait", "try_again"}
Waiters(k) == {t \in Clients : Waiting(t, k)}
                \cup (IF cp.ph = "wait" /\ cp.cur = k THEN {"cp"} ELSE {})
users(k) == lock[k].w \cup lock[k].r \cup Waiters(k)
refcount(k) == {t \in Clients : Pinning(t) /\ Key(t) = k /\ th[t].ph = "ref"}

CanLock(k, mode) == lock[k].w = {} /\ (mode = "w" => lock[k].r = {})
Lock(k, t, mode) == IF mode = "w" THEN [lock EXCEPT ![k].w = {t}]
                    ELSE [lock EXCEPT ![k].r = @ \cup {t}]
Unlocked(l, ks, t) ==
  [k \in Keys |-> IF k \in ks THEN [w |-> l[k].w \ {t}, r |-> l[k].r \ {t}] ELSE l[k]]
Held(t) == {k \in Keys : t \in lock[k].w \cup lock[k].r}

Goto(t, pc) == [th EXCEPT ![t].pc = pc, ![t].ph = "go"]
Phase(t, ph) == [th EXCEPT ![t].ph = ph]

\* find_pair: the pair is in the table; the client queues for its lock.
get_and_pin(t) ==
  /\ Pinning(t) /\ th[t].ph = "go" /\ Want(t).way = "block"
  /\ pair[Key(t)].st = "table"
  /\ th' = Phase(t, "wait")
  /\ UNCHANGED <<pair, lock, dm, disk, ckpt, plist, cp, ev, mo, evictions, closing, history>>

\* The lock is granted.  A writer has the pending bits to see to.
try_pin_pair(t) ==
  /\ Pinning(t) /\ th[t].ph = "wait" /\ CanLock(Key(t), Want(t).mode)
  /\ lock' = Lock(Key(t), t, Want(t).mode)
  /\ th' = IF Want(t).mode = "w" THEN Phase(t, "bits") ELSE Goto(t, Want(t).next)
  /\ UNCHANGED <<pair, dm, disk, ckpt, plist, cp, ev, mo, evictions, closing, history>>

BitsOfMut(t, ks, p) ==
  LET own == ks \ Deps(t)
      marked == [k \in Keys |-> [p[k] EXCEPT !.dirty = @ \/ k \in Deps(t) \cap th[t].mod]]
  IN [todo |-> {k \in own : marked[k].pend /\ marked[k].dirty},
      pair |-> [k \in Keys |-> IF k \in own THEN [marked[k] EXCEPT !.pend = FALSE]
                               ELSE marked[k]]]

\* Under the cheap pending lock the bits of the pair and of the pairs it depends on
\* are read and cleared; a dependent pair is dirty if its owner says so.  todo: the
\* pairs that have to be written for the checkpoint.
BitsOf(t, ks, p) ==
  LET marked == [k \in Keys |-> [p[k] EXCEPT !.dirty = @ \/ k \in Deps(t) \cap th[t].mod]]
  IN [todo |-> {k \in ks : marked[k].pend /\ marked[k].dirty},
      pair |-> [k \in Keys |-> IF k \in ks THEN [marked[k] EXCEPT !.pend = FALSE]
                               ELSE marked[k]]]
get_checkpoint_pending(t) ==
  /\ Pinning(t) /\ th[t].ph = "bits"
  /\ LET b == BitsOf(t, {Key(t)} \cup Deps(t), pair)
     IN /\ pair' = b.pair
        /\ th' = IF b.todo = {} THEN Goto(t, Want(t).next)
                 ELSE [th EXCEPT ![t].ph = "resolve", ![t].todo = b.todo]
  /\ UNCHANGED <<lock, dm, disk, ckpt, plist, cp, ev, mo, evictions, closing, history>>

\* clone_pair and the job on a writer thread; the writer releases the disk mutex.
clone_pair(k, owner) ==
  /\ dm[k] = "free"
  /\ pair' = [pair EXCEPT ![k].clone = pair[k].val, ![k].dirty = FALSE]
  /\ dm' = [dm EXCEPT ![k] = owner]
  /\ UNCHANGED <<disk, ckpt>>

WriteBlock(k, v, for_checkpoint) ==
  /\ disk' = [disk EXCEPT ![k] = v]
  /\ ckpt' = IF for_checkpoint THEN [ckpt EXCEPT ![k] = v] ELSE ckpt

\* cachetable_write_locked_pair: waits for the clone that is being written, then
\* writes the pair if it is dirty.
cachetable_write_locked_pair(k, for_checkpoint) ==
  /\ dm[k] = "free"
  /\ WriteBlock(k, pair[k].val, for_checkpoint)
  /\ pair' = [pair EXCEPT ![k].dirty = FALSE]
  /\ UNCHANGED dm

\* write_locked_pair_for_checkpoint on the thread that pins, for one pair of todo.
\* The node is clean once it is cloned or written.
write_locked_pair_for_checkpoint(t) ==
  /\ th[t].ph \in {"resolve", "insert"} /\ th[t].todo # {}
  /\ \E k \in th[t].todo :
       /\ IF k \in Cloneable THEN clone_pair(k, "bg") ELSE cachetable_write_locked_pair(k, TRUE)
       /\ LET left == th[t].todo \ {k}
              next == IF left = {} /\ th[t].ph = "resolve" THEN Goto(t, Want(t).next) ELSE th
          IN th' = [next EXCEPT ![t].todo = left, ![t].mod = @ \ {k}]
  /\ UNCHANGED <<lock, plist, cp, ev, mo, evictions, closing, history>>

\* The pair is not in the table: it is put there locked, the bits of the dependent
\* pairs are read in the same hold of the list lock, and then it is fetched.
cachetable_insert_at(t) ==
  LET k == Key(t)
      b == BitsOf(t, Deps(t), [pair EXCEPT ![k] = pair_init(<<>>, FALSE)])
  IN /\ Pinning(t) /\ th[t].ph = "go" /\ Want(t).way = "block" /\ pair[k].st = "none"
     /\ pair' = b.pair
     /\ lock' = Lock(k, t, "w")
     /\ th' = [th EXCEPT ![t].ph = "insert", ![t].todo = b.todo]
     /\ UNCHANGED <<dm, disk, ckpt, plist, cp, ev, mo, evictions, closing, history>>

Fetched(k) == [pair EXCEPT ![k].val = disk[k]]

\* The value is read from disk under the disk mutex.
cachetable_fetch_pair(t) ==
  /\ Pinning(t) /\ th[t].ph = "insert" /\ th[t].todo = {} /\ dm[Key(t)] = "free"
  /\ pair' = Fetched(Key(t))
  /\ th' = Goto(t, Want(t).next)
  /\ UNCHANGED <<lock, dm, disk, ckpt, plist, cp, ev, mo, evictions, closing, history>>

\* toku_cachetable_put_with_dep_pairs: a new node, dirty and locked.
put_with_dep_pairs(t) ==
  /\ th[t].pc = "split_put" /\ th[t].ph = "go"
  /\ \E y \in Leaves :
       /\ pair[y].st = "none" /\ disk[y] = <<>>
       /\ LET b == BitsOf(t, Deps(t), [pair EXCEPT ![y] = pair_init(<<Node({}, {})>>, TRUE)])
              next == IF b.todo = {} THEN Goto(t, Want(t).next) ELSE Phase(t, "resolve")
          IN /\ pair' = b.pair
             /\ th' = [next EXCEPT ![t].y = y, ![t].todo = b.todo]
       /\ lock' = Lock(y, t, "w")
  /\ UNCHANGED <<dm, disk, ckpt, plist, cp, ev, mo, evictions, closing, history>>

\* toku_cachetable_maybe_get_and_pin_clean.  A lock that is not free may be cheap to
\* wait for; otherwise, and for a pair not in the table, the parent goes to a
\* background thread still locked.
maybe_get_and_pin_clean(t) ==
  LET k == Key(t)
  IN /\ Pinning(t) /\ th[t].ph = "go" /\ Want(t).way = "maybe"
     /\ \/ /\ pair[k].st = "table" /\ users(k) = {}
           /\ lock' = Lock(k, t, "w") /\ th' = Phase(t, "bits")
        \/ /\ pair[k].st = "table" /\ users(k) # {}
           /\ th' = Phase(t, "wait") /\ UNCHANGED lock
        \/ /\ pair[k].st = "none" \/ users(k) # {}
           /\ th' = Goto(t, "bg_fail") /\ UNCHANGED lock
     /\ UNCHANGED <<pair, dm, disk, ckpt, plist, cp, ev, mo, evictions, closing, history>>

\* toku_cachetable_get_and_pin_nonblocking.  What the query holds is released by the
\* unlockers before it waits for a lock that is expensive or reads from disk, and
\* then the query starts over.
get_and_pin_nonblocking(t) ==
  LET k == Key(t)
  IN /\ Pinning(t) /\ th[t].ph = "go" /\ Want(t).way = "nonblock"
     /\ \/ /\ pair[k].st = "none"
           /\ pair' = [pair EXCEPT ![k] = pair_init(<<>>, FALSE)]
           /\ lock' = [Unlocked(lock, Held(t), t) EXCEPT ![k].w = {t}]
           /\ th' = Phase(t, "fetch_again")
        \/ /\ pair[k].st = "table"
           /\ th' = Phase(t, "wait") /\ UNCHANGED <<pair, lock>>
        \/ /\ pair[k].st = "table" /\ ~CanLock(k, "r")
           /\ lock' = Unlocked(lock, Held(t), t)
           /\ th' = Phase(t, "ref") /\ UNCHANGED pair
     /\ UNCHANGED <<dm, disk, ckpt, plist, cp, ev, mo, evictions, closing, history>>

\* The pair is read and left unlocked: TOKUDB_TRY_AGAIN.
FetchAgain(t) ==
  /\ Pinning(t) /\ th[t].ph = "fetch_again" /\ dm[Key(t)] = "free"
  /\ pair' = Fetched(Key(t))
  /\ lock' = Unlocked(lock, {Key(t)}, t)
  /\ th' = Goto(t, "query_root")
  /\ UNCHANGED <<dm, disk, ckpt, plist, cp, ev, mo, evictions, closing, history>>

\* maybe_pin_pair when the lock is expensive: the reference is given up for a place in
\* the queue; once granted the lock is released at once.
maybe_pin_pair(t) ==
  /\ Pinning(t)
  /\ \/ th[t].ph = "ref" /\ th' = Phase(t, "try_again")
     \/ th[t].ph = "try_again" /\ CanLock(Key(t), "r") /\ th' = Goto(t, "query_root")
  /\ UNCHANGED <<pair, lock, dm, disk, ckpt, plist, cp, ev, mo, evictions, closing, history>>

\* --------------------------------------------------------- unpin and remove

UnpinMut(t, k, next) ==
  /\ lock' = Unlocked(lock, {k}, t)
  /\ th' = [Goto(t, next) EXCEPT ![t].mod = @ \ {k}]
  /\ UNCHANGED <<pair, dm, disk, ckpt, plist, cp, ev, mo, evictions, closing, history>>

\* cachetable_unpin_internal: what the owner dirtied is dirty from now on.
Unpin(t, k, next) ==
  /\ pair' = [pair EXCEPT ![k].dirty = @ \/ k \in th[t].mod]
  /\ lock' = Unlocked(lock, {k}, t)
  /\ th' = [Goto(t, next) EXCEPT ![t].mod = @ \ {k}]
  /\ UNCHANGED <<dm, disk, ckpt, plist, cp, ev, mo, evictions, closing, history>>

\* toku_cachetable_unpin_and_remove.  A clone must be written out first; the block is
\* freed for the checkpoint too if the pair is still pending, and the pair leaves
\* the table in the same hold of the list lock.
unpin_and_remove(t) ==
  LET k == th[t].y
  IN /\ th[t].pc = "merge_remove" /\ th[t].ph = "go" /\ dm[k] = "free"
     /\ disk' = [disk EXCEPT ![k] = <<>>]
     /\ ckpt' = IF pair[k].pend THEN [ckpt EXCEPT ![k] = <<>>] ELSE ckpt
     /\ pair' = [pair EXCEPT ![k].st = "removed", ![k].pend = FALSE, ![k].dirty = FALSE]
     /\ plist' = plist \ {k}
     /\ lock' = Unlocked(lock, {k}, t)
     /\ th' = [Phase(t, "leave") EXCEPT ![t].mod = @ \ {k}]
     /\ UNCHANGED <<dm, cp, ev, mo, evictions, closing, history>>

DesertedMut(k) == refcount(k) = {} /\ lock[k].w \cup lock[k].r = {}

\* It is freed when no thread refers to it and every thread that waited for its lock
\* has come and gone.
Deserted(k) == refcount(k) = {} /\ users(k) = {}
FreeRemoved(t) ==
  /\ th[t].pc = "merge_remove" /\ th[t].ph = "leave" /\ Deserted(th[t].y)
  /\ pair' = [pair EXCEPT ![th[t].y] = NoPair]
  /\ th' = Goto(t, "unpin_both")
  /\ UNCHANGED <<lock, dm, disk, ckpt, plist, cp, ev, mo, evictions, closing, history>>

\* ----------------------------------------------------- operations of clients

Val(k) == pair[k].val[1]
Toks(k) == Val(k).toks
Kids == Val(Root).kids
SetToks(k, ts) == [pair EXCEPT ![k].val = <<Node(Val(k).kids, ts)>>]
Idle(t) == th[t].pc = "idle"
At(t, pc) == th[t].pc = pc /\ th[t].ph = "go"
OnlyThread == UNCHANGED <<pair, lock, dm, disk, ckpt, plist, cp, ev, evictions, closing, history>>
OnlyNodes == UNCHANGED <<lock, dm, disk, ckpt, plist, cp, ev, mo, evictions, closing, before>>

FirstStep == [inject |-> "inject_mo", flush |-> "flush_root", query |-> "query_root",
              clean |-> "clean_pick"]

Start(t) ==
  /\ Idle(t) /\ th[t].work # <<>>
  /\ th' = [Goto(t, FirstStep[Head(th[t].work)]) EXCEPT ![t].work = Tail(@)]
  /\ UNCHANGED mo /\ OnlyThread

\* A client that logs its change takes the multi-operation lock around it.
MultiOpLock(t) ==
  /\ At(t, "inject_mo") /\ mo' = mo \cup {t}
  /\ th' = Goto(t, "inject_root") /\ OnlyThread
MultiOpUnlock(t, pc, next) ==
  /\ At(t, pc) /\ mo' = mo \ {t}
  /\ th' = Goto(t, next) /\ OnlyThread

\* The message goes to the root; if that makes it gorged, the client sets up a flush.
Inject(t) ==
  /\ At(t, "inject_put")
  /\ \E m \in Tokens \ injected :
       /\ pair' = SetToks(Root, Toks(Root) \cup {m})
       /\ injected' = injected \cup {m}
  /\ \/ th' = [Goto(t, "inject_unpin") EXCEPT ![t].mod = @ \cup {Root}]
     \/ \E x \in Kids : th' = [Goto(t, "bg_child") EXCEPT ![t].mod = @ \cup {Root}, ![t].x = x]
  /\ OnlyNodes

\* The buffer is detached from the locked root: the messages are with the thread.
Detach(t, next) ==
  /\ th' = [Goto(t, next) EXCEPT ![t].fl = Toks(Root), ![t].mod = @ \cup {Root}]
  /\ pair' = SetToks(Root, {})
  /\ UNCHANGED injected /\ OnlyNodes

\* toku_ft_flush_node_on_background_thread once the child is locked: the buffer is
\* detached and the child goes to a background thread, or, if the child may have to
\* be split or merged, it is unlocked and the root goes there.
BackgroundFlush(t) ==
  \/ At(t, "bg_detach") /\ Detach(t, "bg_unpin")
  \/ At(t, "bg_detach") /\ Unpin(t, th[t].x, "bg_fail")
  \/ At(t, "bg_unpin") /\ Unpin(t, Root, "bg_mo")
  \/ MultiOpUnlock(t, "bg_mo", "flush_give")
  \/ MultiOpUnlock(t, "bg_fail", "flush_pick")

\* toku_ft_flush_some_child, with the root locked.
PickChild(t) ==
  /\ At(t, "flush_pick")
  /\ \E x \in Kids : th' = [Goto(t, "flush_child") EXCEPT ![t].x = x]
  /\ UNCHANGED mo /\ OnlyThread

flush_to_child(t, next) ==
  /\ pair' = SetToks(th[t].x, Toks(th[t].x) \cup th[t].fl)
  /\ th' = [Goto(t, next) EXCEPT ![t].fl = {}, ![t].mod = @ \cup {th[t].x}]
  /\ UNCHANGED injected /\ OnlyNodes

flush_some_child(t) ==
  \/ PickChild(t)
  \/ At(t, "flush_detach") /\ (Detach(t, "flush_unpin") \/ Detach(t, "flush_give_both"))
  \/ At(t, "flush_unpin") /\ Unpin(t, Root, "flush_give")
  \/ At(t, "flush_give") /\ flush_to_child(t, "unpin_x")
  \/ /\ At(t, "flush_give_both")
     /\ \/ flush_to_child(t, "unpin_both")
        \/ (\E y \in Leaves : pair[y].st = "none" /\ disk[y] = <<>>) /\ flush_to_child(t, "split_put")
        \/ Cardinality(Kids) > 1 /\ flush_to_child(t, "merge_unpin")
  \/ At(t, "unpin_both") /\ Unpin(t, Root, "unpin_x")
  \/ At(t, "unpin_x") /\ Unpin(t, th[t].x, "idle")

\* ft_split_child once the new node is there.
ft_split_child(t) ==
  LET x == th[t].x  y == th[t].y
  IN \/ /\ At(t, "split_do")
        /\ \E ts \in SUBSET Toks(x) :
             pair' = [pair EXCEPT ![x].val = <<Node(Val(x).kids, Toks(x) \ ts)>>,
                                  ![y].val = <<Node(Val(y).kids, ts)>>,
                                  ![Root].val = <<Node(Kids \cup {y}, Toks(Root))>>]
        /\ th' = [Goto(t, "split_unpin") EXCEPT ![t].mod = @ \cup {Root, x, y}]
        /\ UNCHANGED injected /\ OnlyNodes
     \/ At(t, "split_unpin") /\ Unpin(t, Root, "split_unpin_y")
     \/ At(t, "split_unpin_y") /\ Unpin(t, y, "unpin_x")

\* ft_merge_child: the children are pinned anew, both buffers are flushed, and the
\* second child goes.
ft_merge_child(t) ==
  LET x == th[t].x  y == th[t].y
  IN \/ /\ At(t, "merge_unpin")
        /\ \E a, b \in Kids :
             /\ a # b
             /\ pair' = [pair EXCEPT ![x].dirty = @ \/ x \in th[t].mod]
             /\ lock' = Unlocked(lock, {x}, t)
             /\ th' = [Goto(t, "merge_a") EXCEPT ![t].mod = @ \ {x}, ![t].x = a, ![t].y = b]
        /\ UNCHANGED <<dm, disk, ckpt, plist, cp, ev, mo, evictions, closing, history>>
     \/ /\ At(t, "merge_do")
        /\ pair' = [pair EXCEPT ![x].val = <<Node(Val(x).kids, Toks(x) \cup Toks(y) \cup Toks(Root))>>,
                                ![Root].val = <<Node(Kids \ {y}, {})>>]
        /\ th' = [Goto(t, "merge_remove") EXCEPT ![t].mod = @ \cup {Root, x, y}]
        /\ UNCHANGED injected /\ OnlyNodes

\* A query goes from the root to a leaf holding the lock of the root.
Query(t) ==
  \/ /\ At(t, "query_pick")
     /\ \E x \in Kids : th' = [Goto(t, "query_child") EXCEPT ![t].x = x]
     /\ UNCHANGED mo /\ OnlyThread
  \/ At(t, "query_unpin") /\ Unpin(t, th[t].x, "query_unpin_root")
  \/ At(t, "query_unpin_root") /\ Unpin(t, Root, "idle")

\* run_cleaner: a node with messages that nobody uses is locked and flushed.
run_cleaner(t) ==
  LET chosen == /\ pair[Root].st = "table" /\ pair[Root].val # <<>>
                /\ users(Root) = {} /\ Toks(Root) # {}
  IN /\ At(t, "clean_pick")
     /\ IF chosen THEN lock' = Lock(Root, t, "w") /\ th' = Phase(t, "bits")
        ELSE th' = Goto(t, "idle") /\ UNCHANGED lock
     /\ UNCHANGED <<pair, dm, disk, ckpt, plist, cp, ev, mo, evictions, closing, history>>

\* toku_cachefile_prefetch by a query that holds the root: the pair is put in the
\* table locked, and a background thread reads and unlocks it.
toku_cachefile_prefetch(t) ==
  /\ At(t, "query_pick")
  /\ \E k \in Kids :
       /\ pair[k].st = "none"
       /\ pair' = [pair EXCEPT ![k] = pair_init(<<>>, FALSE)]
       /\ lock' = Lock(k, "rd", "w")
  /\ UNCHANGED <<dm, disk, ckpt, plist, cp, ev, mo, th, evictions, closing, history>>
cachetable_reader(k) ==
  /\ lock[k].w = {"rd"} /\ dm[k] = "free"
  /\ pair' = Fetched(k) /\ lock' = Unlocked(lock, {k}, "rd")
  /\ UNCHANGED <<dm, disk, ckpt, plist, cp, ev, mo, th, evictions, closing, history>>

\* ------------------------------------------------------------ the checkpoint

InTable == {k \in Keys : pair[k].st = "table"}
Cp(ph) == [cp EXCEPT !.ph = ph]

\* checkpointer::begin_checkpoint holds the multi-operation lock, the list lock and
\* both pending locks: no client is in an operation, no evicter writes.
begin_checkpoint ==
  /\ cp.ph = "idle" /\ cp.n < MaxCheckpoints /\ closing = "no"
  /\ mo = {} /\ \A k \in Keys : ev[k] \in {"no", "queued", "remove"}
  /\ pair' = [k \in Keys |-> IF k \in InTable THEN [pair[k] EXCEPT !.pend = TRUE] ELSE pair[k]]
  /\ plist' = InTable
  /\ ckpt' = disk /\ before' = injected
  /\ cp' = [cp EXCEPT !.ph = "pairs", !.n = @ + 1]
  /\ UNCHANGED <<lock, dm, disk, ev, mo, th, evictions, closing, injected>>

\* checkpoint_pending_pairs: the head of the list is taken off it and locked; when
\* the list is empty the clones must be written.
checkpoint_pending_pairs ==
  /\ cp.ph = "pairs"
  /\ \/ \E k \in plist : plist' = plist \ {k} /\ cp' = [cp EXCEPT !.ph = "wait", !.cur = k]
     \/ plist = {} /\ (\A k \in Keys : dm[k] # "bg") /\ cp' = Cp("done") /\ UNCHANGED plist
  /\ UNCHANGED <<pair, lock, dm, disk, ckpt, ev, mo, th, evictions, closing, history>>

\* write_pair_for_checkpoint_thread: with the lock, the bit is only cleared ...
ClearPending ==
  LET k == cp.cur
  IN /\ cp.ph = "wait" /\ CanLock(k, "w")
     /\ IF pair[k].pend /\ pair[k].dirty
        THEN /\ lock' = Lock(k, "cp", "w") /\ cp' = Cp("write") /\ UNCHANGED pair
        ELSE /\ pair' = [pair EXCEPT ![k].pend = FALSE] /\ cp' = Cp("pairs")
             /\ UNCHANGED lock
     /\ UNCHANGED <<dm, disk, ckpt, plist, ev, mo, th, evictions, closing, history>>

\* ... or the pair is cloned and unlocked before the clone is written, or written.
write_pair_for_checkpoint_thread ==
  LET k == cp.cur
  IN /\ cp.ph = "write" /\ dm[k] = "free"
     /\ pair' = [pair EXCEPT ![k].pend = FALSE, ![k].dirty = FALSE,
                             ![k].clone = IF k \in Cloneable THEN pair[k].val ELSE <<>>]
     /\ lock' = Unlocked(lock, {k}, "cp")
     /\ IF k \in Cloneable
        THEN dm' = [dm EXCEPT ![k] = "cp"] /\ cp' = Cp("clone") /\ UNCHANGED <<disk, ckpt>>
        ELSE WriteBlock(k, pair[k].val, TRUE) /\ cp' = Cp("pairs") /\ UNCHANGED dm
     /\ UNCHANGED <<plist, ev, mo, th, evictions, closing, history>>

\* A clone is written, by the checkpoint thread or by a writer thread.
checkpoint_cloned_pair(k) ==
  /\ dm[k] = "bg" \/ dm[k] = "cp"
  /\ WriteBlock(k, pair[k].clone, TRUE)
  /\ pair' = [pair EXCEPT ![k].clone = <<>>]
  /\ dm' = [dm EXCEPT ![k] = "free"]
  /\ cp' = IF dm[k] = "cp" THEN Cp("pairs") ELSE cp
  /\ UNCHANGED <<lock, plist, ev, mo, th, evictions, closing, history>>

\* The headers and the end of the checkpoint are logged.
end_checkpoint ==
  /\ cp.ph = "done" /\ cp' = Cp("idle")
  /\ UNCHANGED <<pair, lock, dm, disk, ckpt, plist, ev, mo, th, evictions, closing, history>>

\* ----------------------------------------------------------------- eviction

Ev(k, ph) == [ev EXCEPT ![k] = ph]

\* run_eviction_on_pair and try_evict_pair: nobody uses the pair, refers to it or
\* writes its clone.  A clean pair is evicted at once, a dirty one on a thread.
run_eviction_on_pair(k) ==
  /\ evictions < MaxEvictions /\ closing = "no" /\ pair[k].st = "table"
  /\ users(k) = {} /\ refcount(k) = {} /\ dm[k] = "free"
  /\ lock' = Lock(k, "ev", "w")
  /\ ev' = Ev(k, IF pair[k].dirty THEN "queued" ELSE "remove")
  /\ evictions' = evictions + 1
  /\ UNCHANGED <<pair, dm, disk, ckpt, plist, cp, mo, th, closing, history>>

\* cachetable_evicter: the expensive pending lock is held to the end.
cachetable_evicter(k) ==
  /\ ev[k] = "queued"
  /\ ev' = Ev(k, IF pair[k].pend THEN "write_ckpt" ELSE "write")
  /\ pair' = [pair EXCEPT ![k].pend = FALSE]
  /\ UNCHANGED <<lock, dm, disk, ckpt, plist, cp, mo, th, evictions, closing, history>>

evict_write(k) ==
  /\ ev[k] \in {"write", "write_ckpt"}
  /\ cachetable_write_locked_pair(k, ev[k] = "write_ckpt")
  /\ ev' = Ev(k, "written")
  /\ UNCHANGED <<lock, plist, cp, mo, th, evictions, closing, history>>


\* evict_pair with the list lock: it goes only if nobody came for it meanwhile.
Unused(k) == users(k) = {"ev"} /\ refcount(k) = {}
evict_pair(k) ==
  /\ ev[k] \in {"written", "remove"} /\ dm[k] = "free"
  /\ lock' = Unlocked(lock, {k}, "ev")
  /\ ev' = Ev(k, "no")
  /\ IF Unused(k) THEN pair' = [pair EXCEPT ![k] = NoPair] /\ plist' = plist \ {k}
     ELSE UNCHANGED <<pair, plist>>
  /\ UNCHANGED <<dm, disk, ckpt, cp, mo, th, evictions, closing, history>>

\* ---------------------------------------------------------------- the close

Finished == \A t \in Clients : Idle(t) /\ th[t].work = <<>>

\* toku_cachefile_close: no client and no checkpoint uses the file; background jobs
\* are refused and waited for, the dirty pairs are written and all are removed.
toku_cachefile_close ==
  \/ /\ closing = "no" /\ Finished /\ cp.ph = "idle"
     /\ closing' = "jobs" /\ UNCHANGED <<pair, disk, ckpt>>
  \/ /\ closing = "jobs" /\ \A k \in Keys : ev[k] = "no" /\ lock[k].w = {}
     /\ closing' = "write" /\ UNCHANGED <<pair, disk, ckpt>>
  \/ /\ closing = "write"
     /\ \E k \in Keys : /\ pair[k].dirty
                        /\ WriteBlock(k, pair[k].val, FALSE)
                        /\ pair' = [pair EXCEPT ![k].dirty = FALSE]
     /\ UNCHANGED closing
  \/ /\ closing = "write" /\ \A k \in Keys : ~pair[k].dirty
     /\ pair' = [k \in Keys |-> NoPair] /\ closing' = "closed"
     /\ UNCHANGED <<disk, ckpt>>
Close == toku_cachefile_close /\ UNCHANGED <<lock, dm, plist, cp, ev, mo, th, evictions, history>>

Done == closing = "closed" /\ UNCHANGED vars

PinStep(t) ==
  \/ get_and_pin(t) \/ try_pin_pair(t) \/ get_checkpoint_pending(t)
  \/ write_locked_pair_for_checkpoint(t) \/ cachetable_insert_at(t)
  \/ cachetable_fetch_pair(t) \/ put_with_dep_pairs(t) \/ maybe_get_and_pin_clean(t)
  \/ get_and_pin_nonblocking(t) \/ FetchAgain(t) \/ maybe_pin_pair(t)
  \/ unpin_and_remove(t) \/ FreeRemoved(t)

Operation(t) ==
  \/ Start(t) \/ MultiOpLock(t) \/ Inject(t) \/ BackgroundFlush(t)
  \/ At(t, "inject_unpin") /\ Unpin(t, Root, "inject_done")
  \/ MultiOpUnlock(t, "inject_done", "idle")
  \/ flush_some_child(t) \/ ft_split_child(t) \/ ft_merge_child(t)
  \/ Query(t) \/ run_cleaner(t) \/ toku_cachefile_prefetch(t)

Background ==
  \/ begin_checkpoint \/ checkpoint_pending_pairs \/ ClearPending
  \/ write_pair_for_checkpoint_thread \/ end_checkpoint
  \/ \E k \in Keys : \/ checkpoint_cloned_pair(k) \/ run_eviction_on_pair(k)
                     \/ cachetable_evicter(k) \/ evict_write(k) \/ evict_pair(k)
                     \/ cachetable_reader(k)

Next == (\E t \in Clients : PinStep(t) \/ Operation(t)) \/ Background \/ Close \/ Done
Spec == Init /\ [][Next]_vars

\* --------------------------------------------------------------- properties

\* The nodes of a tree whose blocks are read by c, and the messages in it once.
Reachable(c) == {Root} \cup (IF c[Root] = <<>> THEN {} ELSE c[Root][1].kids)
HasOnce(c, m, held) ==
  Cardinality({k \in Reachable(c) : m \in c[k][1].toks})
    + Cardinality({t \in held : m \in th[t].fl}) = 1

\* What the checkpoint has on disk when its headers are written is the tree at one
\* instant, its begin: every message that was in the tree then, once, in nodes that
\* are all there, and none that came later, whatever flushes, splits, merges,
\* evictions and queries did to the nodes meanwhile.
CheckpointIsConsistent ==
  cp.ph = "done" =>
    /\ \A k \in Reachable(ckpt) : ckpt[k] # <<>>
    /\ \A m \in Tokens : IF m \in before THEN HasOnce(ckpt, m, {})
                         ELSE \A k \in Reachable(ckpt) : m \notin ckpt[k][1].toks

\* At every moment the tree in memory, with the blocks on disk for the nodes that are
\* not, has every message once; one that is being flushed is with the thread that
\* moves it.  After the close that is the tree on disk.
NothingLost ==
  LET now == [k \in Keys |-> IF pair[k].st = "table" /\ pair[k].val # <<>> THEN pair[k].val
                             ELSE disk[k]]
  IN /\ \A k \in Reachable(now) : now[k] # <<>>
     /\ \A m \in injected : HasOnce(now, m, Clients)

\* A pair that a thread holds, waits for, refers to or writes the clone of has not
\* been freed, and outside a checkpoint nothing is pending and no clone is left: the
\* next checkpoint and the writers' job counter assert it.
NoDangling ==
  /\ \A k \in Keys : \/ users(k) = {} /\ refcount(k) = {} /\ dm[k] = "free"
                     \/ pair[k].st # "none"
  /\ cp.ph \in {"idle", "done"} =>
       \A k \in Keys : ~pair[k].pend /\ pair[k].clone = <<>>

\* Neither a message nor a pair in use is lost.
NodesKept == NothingLost /\ NoDangling

\* ------------------------------------------------- the inductive invariant

\* What a thread whose record is s has locked: the root, its first leaf and its second
\* for writing, and the root and the first leaf for reading.
Pinned(s) == s.ph \in {"bits", "resolve", "insert"}
HasRoot(s) ==
  \/ s.pc \in {"inject_put", "inject_unpin", "bg_child", "bg_detach", "bg_unpin", "bg_fail",
               "flush_pick", "flush_child", "flush_detach", "flush_unpin",
               "flush_give_both", "unpin_both", "split_put", "split_do", "split_unpin",
               "merge_unpin", "merge_a", "merge_b", "merge_do", "merge_remove"}
  \/ s.pc \in {"inject_root", "flush_root", "clean_pick"} /\ Pinned(s)
  \/ s.pc = "query_root" /\ s.ph = "fetch_again"
HasX(s) ==
  \/ s.pc \in {"bg_detach", "bg_unpin", "bg_mo", "flush_detach", "flush_unpin", "flush_give",
               "flush_give_both", "unpin_both", "unpin_x", "split_put", "split_do",
               "split_unpin", "split_unpin_y", "merge_unpin", "merge_b", "merge_do",
               "merge_remove"}
  \/ s.pc \in {"bg_child", "flush_child", "merge_a"} /\ Pinned(s)
  \/ s.pc = "query_child" /\ s.ph = "fetch_again"
HasY(s) ==
  \/ s.pc \in {"split_do", "split_unpin", "split_unpin_y", "merge_do"}
  \/ s.pc \in {"split_put", "merge_b"} /\ Pinned(s)
  \/ s.pc = "merge_remove" /\ s.ph = "go"
Writes(s, k) == \/ HasRoot(s) /\ k = Root
                \/ HasX(s) /\ k = s.x
                \/ HasY(s) /\ k = s.y
ReadsRoot(s) == \/ s.pc \in {"query_pick", "query_unpin", "query_unpin_root"}
                \/ s.pc = "query_child" /\ s.ph \in {"go", "wait"}
Reads(s, k) == \/ ReadsRoot(s) /\ k = Root
               \/ s.pc = "query_unpin" /\ k = s.x

\* The node a thread pins, waits for, refers to, fetches or has just merged away.
KeyOf(s) ==
  IF s.pc \in {"inject_root", "flush_root", "clean_pick", "query_root"} THEN Root
  ELSE IF s.pc \in {"split_put", "merge_b"} THEN s.y ELSE s.x
Awaits(s, k) == s.ph = "wait" /\ KeyOf(s) = k
Refers(s, k) == s.ph \in {"ref", "try_again"} /\ KeyOf(s) = k
Fetches(s, k) == s.ph \in {"insert", "fetch_again"} /\ KeyOf(s) = k
Departs(s, k) == s.ph = "leave" /\ s.y = k

Phases(pc) ==
  CASE pc \in {"inject_root", "flush_root", "flush_child", "merge_a", "merge_b"}
         -> {"go", "wait", "bits", "resolve", "insert"}
    [] pc = "bg_child" -> {"go", "wait", "bits", "resolve"}
    [] pc = "split_put" -> {"go", "resolve"}
    [] pc = "clean_pick" -> {"go", "bits", "resolve"}
    [] pc \in {"query_root", "query_child"} -> {"go", "wait", "ref", "try_again", "fetch_again"}
    [] pc = "merge_remove" -> {"go", "leave"}
    [] OTHER -> {"go"}

Pcs == DOMAIN Pins \cup
  {"idle", "inject_mo", "inject_put", "inject_unpin", "inject_done", "bg_detach", "bg_unpin",
   "bg_mo", "bg_fail", "flush_pick", "flush_detach", "flush_unpin", "flush_give",
   "flush_give_both", "unpin_both", "unpin_x", "split_do", "split_unpin", "split_unpin_y",
   "merge_unpin", "merge_do", "merge_remove", "query_pick", "query_unpin", "query_unpin_root"}
Vals == {<<>>} \cup {<<n>> : n \in [kids : SUBSET Leaves, toks : SUBSET Tokens]}
Pairs == [st : {"none", "table", "removed"}, val : Vals, dirty : BOOLEAN, pend : BOOLEAN,
          clone : Vals]
Threads == [pc : Pcs,
            ph : {"go", "wait", "bits", "resolve", "insert", "ref", "try_again", "fetch_again",
                  "leave"},
            todo : SUBSET Keys, x : Keys, y : Keys, fl : SUBSET Tokens, mod : SUBSET Keys,
            work : Seq(Jobs)]

TypeOK ==
  /\ pair \in [Keys -> Pairs]
  /\ lock \in [Keys -> [w : SUBSET (Clients \cup {"cp", "ev", "rd"}), r : SUBSET Clients]]
  /\ dm \in [Keys -> {"free", "bg", "cp"}]
  /\ disk \in [Keys -> Vals] /\ ckpt \in [Keys -> Vals]
  /\ plist \in SUBSET Keys
  /\ cp \in [ph : {"idle", "pairs", "wait", "write", "clone", "done"}, cur : Keys, n : Nat]
  /\ ev \in [Keys -> {"no", "queued", "remove", "write", "write_ckpt", "written"}]
  /\ mo \in SUBSET Clients
  /\ th \in [Clients -> Threads]
  /\ evictions \in Nat /\ closing \in {"no", "jobs", "write", "closed"}
  /\ injected \in SUBSET Tokens /\ before \in SUBSET Tokens

MoPcs == {"inject_root", "inject_put", "inject_unpin", "inject_done", "bg_child", "bg_detach",
          "bg_unpin", "bg_mo", "bg_fail"}
FlPcs == {"bg_unpin", "bg_mo", "flush_unpin", "flush_give", "flush_give_both"}
UsesX(s) == \/ HasX(s)
            \/ s.pc \in {"bg_child", "flush_child", "merge_a", "query_child", "query_unpin"}
UsesY(s) == HasY(s) \/ s.pc \in {"merge_a", "merge_b", "merge_remove"}

\* A thread is in a phase of its step, names leaves, changes only what it has locked and
\* not the node it is pinning, and writes for the checkpoint what it has locked.
ThreadOK(s) ==
  /\ s.ph \in Phases(s.pc)
  /\ UsesX(s) => s.x \in Leaves
  /\ UsesY(s) => s.y \in Leaves /\ s.y # s.x
  /\ s.fl # {} => s.pc \in FlPcs
  /\ s.todo # {} => s.ph \in {"resolve", "insert"}
  /\ \A k \in s.todo : Writes(s, k) /\ ~Fetches(s, k)
  /\ \A k \in s.mod : Writes(s, k)
  /\ Pinned(s) \/ s.ph = "fetch_again" => KeyOf(s) \notin s.mod
ThreadsOK == \A t \in Clients : ThreadOK(th[t]) /\ (t \in mo <=> th[t].pc \in MoPcs)

\* A lock has one writer or readers, and they are those who believe they have it.
Exclusive(l) == \A a \in l.w : l.w = {a} /\ l.r = {}
LocksOK ==
  /\ \A k \in Keys : Exclusive(lock[k])
  /\ \A k \in Keys, t \in Clients : /\ t \in lock[k].w <=> Writes(th[t], k)
                                    /\ t \in lock[k].r <=> Reads(th[t], k)
  /\ \A k \in Keys : "cp" \in lock[k].w <=> cp.ph = "write" /\ cp.cur = k
  /\ \A k \in Keys : "ev" \in lock[k].w <=> ev[k] # "no"

ClosingOK ==
  /\ closing # "no" => /\ cp.ph = "idle"
                       /\ \A t \in Clients : th[t].pc = "idle" /\ th[t].work = <<>>
  /\ closing \in {"write", "closed"} => \A k \in Keys : lock[k].w = {}

InMemory(k) == pair[k].st = "table" /\ pair[k].val # <<>>
Fetching(k) == "rd" \in lock[k].w \/ \E t \in Clients : Fetches(th[t], k)
Leaving(k) == \E t \in Clients : Departs(th[t], k)
AtStake(k) == k \in plist \/ (cp.ph \in {"wait", "write"} /\ cp.cur = k)
InTodo(k) == \E t \in Clients : k \in th[t].todo
Modified(k) == \E t \in Clients : k \in th[t].mod

\* A pair that is locked, awaited or referred to is there, ...
PairThere(k) ==
  /\ pair[k].st = "none" =>
       /\ pair[k] = NoPair /\ ~AtStake(k)
       /\ lock[k].w = {} /\ lock[k].r = {} /\ \A t \in Clients : ~Refers(th[t], k)
  /\ pair[k].st = "removed" <=> Leaving(k)
  /\ pair[k].st = "removed" =>
       /\ lock[k].w = {} /\ lock[k].r = {} /\ k \notin plist
       /\ ~pair[k].dirty /\ ~pair[k].pend /\ pair[k].clone = <<>>
  /\ \A t \in Clients : Awaits(th[t], k) => pair[k].st = "table"
\* ... has a value unless it is being read from disk, ...
PairValue(k) ==
  /\ pair[k].st = "table" => (pair[k].val = <<>> <=> Fetching(k))
  /\ pair[k].val = <<>> => ~pair[k].dirty /\ pair[k].clone = <<>>
  /\ ev[k] # "no" => InMemory(k)
  /\ ev[k] \in {"remove", "written"} => ~pair[k].dirty
\* ... and has a clone as long as somebody writes it.
PairClone(k) ==
  /\ dm[k] # "free" <=> pair[k].clone # <<>>
  /\ dm[k] = "cp" <=> cp.ph = "clone" /\ cp.cur = k
  /\ pair[k].clone # <<>> => InMemory(k)

\* What is owed to the checkpoint keeps the checkpoint from its end.
PairPend(k) ==
  /\ pair[k].pend \/ InTodo(k) \/ ev[k] = "write_ckpt" => AtStake(k) /\ dm[k] = "free"
  /\ pair[k].pend => ~InTodo(k) /\ ev[k] \in {"no", "queued", "remove"}
PendOK ==
  /\ plist # {} => cp.ph \notin {"idle", "done"}
  /\ cp.ph = "write" => pair[cp.cur].pend /\ pair[cp.cur].dirty
  /\ cp.ph \in {"idle", "done"} => \A k \in Keys : dm[k] # "bg"
  /\ \A k \in Keys : PairPend(k)
PairsOK == \A k \in Keys : PairThere(k) /\ PairValue(k) /\ PairClone(k)

ControlOK == TypeOK /\ ThreadsOK /\ LocksOK /\ ClosingOK /\ PairsOK /\ PendOK

\* What the nodes hold, in memory or else on disk, and what the threads are moving.
Now == [k \in Keys |-> IF InMemory(k) THEN pair[k].val ELSE disk[k]]
InFlight == [t \in Clients |-> th[t].fl]

\* A tree with contents c and the messages f in flight has the messages ms, each in one
\* place, and no others.
KidsOf(c) == c[Root][1].kids
Whole(c) == \A k \in Reachable(c) : c[k] # <<>>
In(c, k, m) == k \in Reachable(c) /\ m \in c[k][1].toks
Once(c, f, m) ==
  /\ (\E k \in Keys : In(c, k, m)) \/ (\E t \in Clients : m \in f[t])
  /\ \A k, l \in Keys : In(c, k, m) /\ In(c, l, m) => k = l
  /\ \A t, u \in Clients : m \in f[t] /\ m \in f[u] => t = u
  /\ \A k \in Keys, t \in Clients : ~(In(c, k, m) /\ m \in f[t])
Nowhere(c, f, m) == (\A k \in Keys : ~In(c, k, m)) /\ (\A t \in Clients : m \notin f[t])
Holds(c, f, ms) == \A m \in Tokens : IF m \in ms THEN Once(c, f, m) ELSE Nowhere(c, f, m)

\* The leaf k that a thread is splitting off or has merged away; the children of the
\* root that it works on.
Unlinked(s, k) ==
  /\ s.y = k
  /\ \/ s.pc = "split_put" /\ s.ph = "resolve"
     \/ s.pc = "split_do"
     \/ s.pc = "merge_remove" /\ s.ph = "go"
KidX(s) == \/ HasX(s)
           \/ s.pc \in {"bg_child", "flush_child", "merge_a", "query_unpin"}
           \/ s.pc = "query_child" /\ s.ph \in {"go", "wait"}
KidY(s) == s.pc \in {"merge_a", "merge_b", "merge_do"}
LinksOK(s, kids) == /\ KidX(s) => s.x \in kids
                    /\ KidY(s) => s.y \in kids
                    /\ \A k \in Leaves : Unlinked(s, k) => k \notin kids

\* A node in memory that nobody has changed since it was read or written is what its
\* clone has, or its block; a leaf in memory is a child of the root but for the above.
Clean(k) == InMemory(k) /\ ~pair[k].dirty /\ ~Modified(k)
ValueOK(k) == Clean(k) => pair[k].val = IF pair[k].clone = <<>> THEN disk[k] ELSE pair[k].clone
LeafOK(k) == \/ pair[k].st # "table" \/ k \in KidsOf(Now)
             \/ \E t \in Clients : Unlinked(th[t], k)
TreeOK == /\ \A k \in Keys : ValueOK(k)
          /\ Whole(Now) /\ Holds(Now, InFlight, injected)
          /\ \A k \in Leaves : LeafOK(k)
          /\ \A t \in Clients : LinksOK(th[t], KidsOf(Now))

\* What the checkpoint under way has of each node or will have, and what it will have of
\* the messages in flight: they arrive at a leaf that is still to be written for it.
Owed(k) == pair[k].pend \/ InTodo(k) \/ ev[k] = "write_ckpt"
Image == [k \in Keys |-> IF Owed(k) /\ InMemory(k) THEN pair[k].val
                         ELSE IF pair[k].clone # <<>> THEN pair[k].clone ELSE ckpt[k]]
ImageInFlight == [t \in Clients |-> IF pair[th[t].x].pend THEN th[t].fl ELSE {}]

\* A logged change is of nodes that are not pending, and what a thread changes together
\* is pending together.
Synced(s) == \/ s.pc \in {"flush_child", "merge_b", "split_put"} /\ s.ph \in {"resolve", "insert"}
             \/ s.pc \in {"flush_detach", "bg_detach", "split_do", "merge_do"}
             \/ s.pc = "merge_remove" /\ s.ph = "go"
BitsOK(s) ==
  /\ s.pc \in MoPcs =>
       /\ HasRoot(s) /\ ~(s.pc = "inject_root" /\ s.ph = "bits") => ~pair[Root].pend
       /\ HasX(s) /\ s.ph # "bits" => ~pair[s.x].pend
  /\ Synced(s) => /\ pair[Root].pend = pair[s.x].pend
                  /\ HasY(s) => pair[Root].pend = pair[s.y].pend
ImageLeafOK(k) == \/ ~pair[k].pend \/ k \in KidsOf(Image)
                  \/ \E t \in Clients : Unlinked(th[t], k)
ImageOK == /\ \A k \in Keys : pair[k].pend => ckpt[k] = disk[k]
           /\ \A t \in Clients : BitsOK(th[t])
           /\ cp.ph # "idle" => /\ Whole(Image) /\ Holds(Image, ImageInFlight, before)
                                /\ \A k \in Leaves : ImageLeafOK(k)

\* The inductive invariant.
CacheTableInvariant == ControlOK /\ TreeOK /\ ImageOK

=============================================================================
