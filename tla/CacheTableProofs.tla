-------------------------- MODULE CacheTableProofs --------------------------
(***************************************************************************)
(* Proofs about the pairs of a cachefile, for any nodes, clients,          *)
(* workloads and any number of checkpoints and evictions: the part of the  *)
(* inductive invariant that is about control.  Threads have the locks they *)
(* believe they have, pairs in use are there, values are there unless they *)
(* are being read, and what is owed to the checkpoint keeps the checkpoint *)
(* from its end.                                                           *)
(*                                                                         *)
(* Each step has a lemma of its own, named after it; the lemmas before     *)
(* them say what the helpers of the model do to a thread, a lock and a     *)
(* pair.  CacheTreeProofs has the nodes and the checkpoint's image.        *)
(***************************************************************************)
EXTENDS CacheTable, FiniteSetTheorems, TLAPS

\* --------------------------------------------------------- steps of a thread

\* What becomes of the threads when t takes a step: g has t's record with these fields
\* and leaves the other threads alone.
Stepped(g, t, pc, ph, todo, x, y, fl, mod) ==
  /\ g \in [Clients -> Threads]
  /\ \A u \in Clients : u # t => g[u] = th[u]
  /\ g[t].pc = pc /\ g[t].ph = ph /\ g[t].todo = todo
  /\ g[t].x = x /\ g[t].y = y /\ g[t].fl = fl /\ g[t].mod = mod

LEMMA GotoSteps ==
  ASSUME TypeOK, NEW t \in Clients, NEW pc \in Pcs
  PROVE  Stepped(Goto(t, pc), t, pc, "go", th[t].todo, th[t].x, th[t].y, th[t].fl, th[t].mod)
<1>1. th \in [Clients -> Threads]
  BY DEF TypeOK
<1> QED BY ONLY <1>1, t \in Clients, pc \in Pcs DEF Stepped, Goto, Threads

LEMMA PhaseSteps ==
  ASSUME TypeOK, NEW t \in Clients,
         NEW ph \in {"go", "wait", "bits", "resolve", "insert", "ref", "try_again",
                     "fetch_again", "leave"}
  PROVE  Stepped(Phase(t, ph), t, th[t].pc, ph, th[t].todo, th[t].x, th[t].y, th[t].fl, th[t].mod)
<1>1. th \in [Clients -> Threads]
  BY DEF TypeOK
<1> QED BY ONLY <1>1, t \in Clients, ph \in {"go", "wait", "bits", "resolve", "insert", "ref",
                  "try_again", "fetch_again", "leave"} DEF Stepped, Phase, Threads

LEMMA ThreadsTyped ==
  ASSUME TypeOK, NEW t \in Clients
  PROVE  /\ th[t] \in Threads /\ th[t].pc \in Pcs /\ th[t].todo \in SUBSET Keys
         /\ th[t].x \in Keys /\ th[t].y \in Keys /\ th[t].fl \in SUBSET Tokens
         /\ th[t].mod \in SUBSET Keys /\ th[t].work \in Seq(Jobs)
BY DEF TypeOK, Threads

LEMMA SteppedPhTodo ==
  ASSUME TypeOK, NEW t \in Clients, NEW todo \in SUBSET Keys, NEW ph \in {"resolve", "insert"}
  PROVE  Stepped([th EXCEPT ![t].ph = ph, ![t].todo = todo],
                 t, th[t].pc, ph, todo, th[t].x, th[t].y, th[t].fl, th[t].mod)
<1>1. th \in [Clients -> Threads]
  BY DEF TypeOK
<1> QED BY ONLY <1>1, t \in Clients, todo \in SUBSET Keys, ph \in {"resolve", "insert"}
        DEF Stepped, Threads

LEMMA SteppedTodoMod ==
  ASSUME NEW g, NEW t \in Clients, NEW todo \in SUBSET Keys, NEW K, NEW pc, NEW ph,
         NEW td, NEW x, NEW y, NEW fl, NEW mod, Stepped(g, t, pc, ph, td, x, y, fl, mod)
  PROVE  Stepped([g EXCEPT ![t].todo = todo, ![t].mod = @ \ K],
                 t, pc, ph, todo, x, y, fl, mod \ K)
BY DEF Stepped, Threads

LEMMA SteppedYTodo ==
  ASSUME NEW g, NEW t \in Clients, NEW todo \in SUBSET Keys, NEW z \in Keys, NEW pc, NEW ph,
         NEW td, NEW x, NEW y, NEW fl, NEW mod, Stepped(g, t, pc, ph, td, x, y, fl, mod)
  PROVE  Stepped([g EXCEPT ![t].y = z, ![t].todo = todo], t, pc, ph, todo, x, z, fl, mod)
BY DEF Stepped, Threads

LEMMA SteppedLess ==
  ASSUME NEW g, NEW t \in Clients, NEW K, NEW pc, NEW ph,
         NEW td, NEW x, NEW y, NEW fl, NEW mod, Stepped(g, t, pc, ph, td, x, y, fl, mod)
  PROVE  Stepped([g EXCEPT ![t].mod = @ \ K], t, pc, ph, td, x, y, fl, mod \ K)
BY DEF Stepped, Threads

LEMMA SteppedMore ==
  ASSUME NEW g, NEW t \in Clients, NEW K \in SUBSET Keys, NEW pc, NEW ph,
         NEW td, NEW x, NEW y, NEW fl, NEW mod, Stepped(g, t, pc, ph, td, x, y, fl, mod)
  PROVE  Stepped([g EXCEPT ![t].mod = @ \cup K], t, pc, ph, td, x, y, fl, mod \cup K)
BY DEF Stepped, Threads

LEMMA SteppedMoreX ==
  ASSUME NEW g, NEW t \in Clients, NEW K \in SUBSET Keys, NEW z \in Keys, NEW pc, NEW ph,
         NEW td, NEW x, NEW y, NEW fl, NEW mod, Stepped(g, t, pc, ph, td, x, y, fl, mod)
  PROVE  Stepped([g EXCEPT ![t].mod = @ \cup K, ![t].x = z], t, pc, ph, td, z, y, fl, mod \cup K)
BY DEF Stepped, Threads

LEMMA SteppedFl ==
  ASSUME NEW g, NEW t \in Clients, NEW K \in SUBSET Keys, NEW f \in SUBSET Tokens, NEW pc, NEW ph,
         NEW td, NEW x, NEW y, NEW fl, NEW mod, Stepped(g, t, pc, ph, td, x, y, fl, mod)
  PROVE  Stepped([g EXCEPT ![t].fl = f, ![t].mod = @ \cup K], t, pc, ph, td, x, y, f, mod \cup K)
BY DEF Stepped, Threads

LEMMA SteppedX ==
  ASSUME NEW g, NEW t \in Clients, NEW z \in Keys, NEW pc, NEW ph,
         NEW td, NEW x, NEW y, NEW fl, NEW mod, Stepped(g, t, pc, ph, td, x, y, fl, mod)
  PROVE  Stepped([g EXCEPT ![t].x = z], t, pc, ph, td, z, y, fl, mod)
BY DEF Stepped, Threads

LEMMA SteppedLessXY ==
  ASSUME NEW g, NEW t \in Clients, NEW K, NEW a \in Keys, NEW b \in Keys, NEW pc, NEW ph,
         NEW td, NEW x, NEW y, NEW fl, NEW mod, Stepped(g, t, pc, ph, td, x, y, fl, mod)
  PROVE  Stepped([g EXCEPT ![t].mod = @ \ K, ![t].x = a, ![t].y = b],
                 t, pc, ph, td, a, b, fl, mod \ K)
<1>1. PICK h : h = [g EXCEPT ![t].mod = @ \ K]
  OBVIOUS
<1>2. Stepped(h, t, pc, ph, td, x, y, fl, mod \ K)
  BY <1>1, SteppedLess
<1>3. [g EXCEPT ![t].mod = @ \ K, ![t].x = a, ![t].y = b] = [h EXCEPT ![t].x = a, ![t].y = b]
  BY <1>1 DEF Stepped, Threads
<1>4. Stepped([h EXCEPT ![t].x = a, ![t].y = b], t, pc, ph, td, a, b, fl, mod \ K)
  BY ONLY <1>2, t \in Clients, a \in Keys, b \in Keys DEF Stepped, Threads
<1> QED BY <1>3, <1>4

LEMMA SteppedWork ==
  ASSUME NEW g, NEW t \in Clients, NEW pc, NEW ph, g[t].work # <<>>,
         NEW td, NEW x, NEW y, NEW fl, NEW mod, Stepped(g, t, pc, ph, td, x, y, fl, mod)
  PROVE  Stepped([g EXCEPT ![t].work = Tail(@)], t, pc, ph, td, x, y, fl, mod)
<1>1. g[t].work \in Seq(Jobs)
  BY DEF Stepped, Threads
<1>2. Tail(g[t].work) \in Seq(Jobs)
  BY <1>1
<1>3. PICK w \in Seq(Jobs) : w = Tail(g[t].work)
  BY <1>2
<1>4. Stepped([g EXCEPT ![t].work = w], t, pc, ph, td, x, y, fl, mod)
  BY ONLY Stepped(g, t, pc, ph, td, x, y, fl, mod), w \in Seq(Jobs), t \in Clients DEF Stepped, Threads
<1> QED BY <1>3, <1>4

\* ------------------------------------------------------------- pin requests

LEMMA PinTable ==
  /\ DOMAIN Pins = {"inject_root", "bg_child", "flush_root", "flush_child", "split_put",
                    "merge_a", "merge_b", "clean_pick", "query_root", "query_child"}
  /\ Pins["inject_root"] = Pin("root", {}, "w", "block", "inject_put")
  /\ Pins["bg_child"] = Pin("x", {}, "w", "maybe", "bg_detach")
  /\ Pins["flush_root"] = Pin("root", {}, "w", "block", "flush_pick")
  /\ Pins["flush_child"] = Pin("x", {"root"}, "w", "block", "flush_detach")
  /\ Pins["split_put"] = Pin("y", {"root", "x"}, "w", "put", "split_do")
  /\ Pins["merge_a"] = Pin("x", {"root"}, "w", "block", "merge_b")
  /\ Pins["merge_b"] = Pin("y", {"root", "x"}, "w", "block", "merge_do")
  /\ Pins["clean_pick"] = Pin("root", {}, "w", "clean", "flush_pick")
  /\ Pins["query_root"] = Pin("root", {}, "r", "nonblock", "query_pick")
  /\ Pins["query_child"] = Pin("x", {}, "r", "nonblock", "query_unpin")
BY DEF Pins

\* Which node a request is for, with which nodes, and where it leads.
PinIs(t, pc, k, deps, mode, way, next) ==
  /\ th[t].pc = pc /\ Key(t) = k /\ Deps(t) = deps
  /\ Want(t).mode = mode /\ Want(t).way = way /\ Want(t).next = next
LEMMA PinCases ==
  ASSUME NEW t, Pinning(t)
  PROVE  \/ PinIs(t, "inject_root", Root, {}, "w", "block", "inject_put")
         \/ PinIs(t, "bg_child", th[t].x, {}, "w", "maybe", "bg_detach")
         \/ PinIs(t, "flush_root", Root, {}, "w", "block", "flush_pick")
         \/ PinIs(t, "flush_child", th[t].x, {Root}, "w", "block", "flush_detach")
         \/ PinIs(t, "split_put", th[t].y, {Root, th[t].x}, "w", "put", "split_do")
         \/ PinIs(t, "merge_a", th[t].x, {Root}, "w", "block", "merge_b")
         \/ PinIs(t, "merge_b", th[t].y, {Root, th[t].x}, "w", "block", "merge_do")
         \/ PinIs(t, "clean_pick", Root, {}, "w", "clean", "flush_pick")
         \/ PinIs(t, "query_root", Root, {}, "r", "nonblock", "query_pick")
         \/ PinIs(t, "query_child", th[t].x, {}, "r", "nonblock", "query_unpin")
<1> DEFINE P == th[t].pc
<1>1. P \in {"inject_root", "bg_child", "flush_root", "flush_child", "split_put",
             "merge_a", "merge_b", "clean_pick", "query_root", "query_child"}
  BY PinTable DEF Pinning
<1>2. CASE P \in {"inject_root", "flush_root", "clean_pick", "query_root"}
  <2>1. Want(t).k = "root" /\ Want(t).deps = {}
    BY <1>2, PinTable DEF Want, Pin
  <2>2. Key(t) = Root /\ Deps(t) = {}
    BY <2>1 DEF Key, Deps, Role
  <2> QED BY <1>2, <2>2, PinTable DEF PinIs, Want, Pin
<1>3. CASE P \in {"bg_child", "query_child"}
  <2>1. Want(t).k = "x" /\ Want(t).deps = {}
    BY <1>3, PinTable DEF Want, Pin
  <2>2. Key(t) = th[t].x /\ Deps(t) = {}
    BY <2>1 DEF Key, Deps, Role
  <2> QED BY <1>3, <2>2, PinTable DEF PinIs, Want, Pin
<1>4. CASE P \in {"flush_child", "merge_a"}
  <2>1. Want(t).k = "x" /\ Want(t).deps = {"root"}
    BY <1>4, PinTable DEF Want, Pin
  <2>2. Key(t) = th[t].x /\ Deps(t) = {Root}
    BY <2>1 DEF Key, Deps, Role
  <2> QED BY <1>4, <2>2, PinTable DEF PinIs, Want, Pin
<1>5. CASE P \in {"split_put", "merge_b"}
  <2>1. Want(t).k = "y" /\ Want(t).deps = {"root", "x"}
    BY <1>5, PinTable DEF Want, Pin
  <2>2. Key(t) = th[t].y /\ Deps(t) = {Root, th[t].x}
    BY <2>1 DEF Key, Deps, Role
  <2> QED BY <1>5, <2>2, PinTable DEF PinIs, Want, Pin
<1> QED BY <1>1, <1>2, <1>3, <1>4, <1>5

LEMMA PinsAt ==
  ASSUME NEW t, th[t].pc \in {"inject_root", "bg_child", "flush_root", "flush_child", "split_put",
             "merge_a", "merge_b", "clean_pick", "query_root", "query_child"}
  PROVE  Pinning(t)
BY PinTable DEF Pinning

LEMMA KeyIsKeyOf ==
  ASSUME NEW t, Pinning(t)
  PROVE  Key(t) = KeyOf(th[t])
BY PinCases DEF PinIs, KeyOf

\* -------------------------------------------------------------------- locks

Agents == Clients \cup {"cp", "ev", "rd"}
LockType == [w : SUBSET (Clients \cup {"cp", "ev", "rd"}), r : SUBSET Clients]

\* In this step agent a takes the locks aw for writing and ar for reading and gives up
\* the locks rel.
LocksMove(a, aw, ar, rel) ==
  /\ lock' \in [Keys -> LockType]
  /\ \A k \in Keys : Exclusive(lock'[k])
  /\ \A k \in Keys : k \notin aw \cup ar \cup rel => lock'[k] = lock[k]
  /\ \A k \in Keys, b \in Agents : b # a => /\ b \in lock'[k].w <=> b \in lock[k].w
                                            /\ b \in lock'[k].r <=> b \in lock[k].r
  /\ \A k \in Keys : /\ a \in lock'[k].w <=> k \in aw \/ (a \in lock[k].w /\ k \notin rel)
                     /\ a \in lock'[k].r <=> k \in ar \/ (a \in lock[k].r /\ k \notin rel)

LEMMA LocksKept ==
  ASSUME TypeOK, LocksOK, lock' = lock, NEW a \in Agents
  PROVE  LocksMove(a, {}, {}, {})
BY DEF TypeOK, LocksOK, LocksMove, LockType

LEMMA LockedForWriting ==
  ASSUME TypeOK, LocksOK, NEW a \in Agents, NEW k \in Keys,
         lock[k].w = {}, lock[k].r = {}, lock' = Lock(k, a, "w")
  PROVE  LocksMove(a, {k}, {}, {})
<1>1. lock \in [Keys -> LockType] /\ \A j \in Keys : Exclusive(lock[j])
  BY DEF TypeOK, LocksOK, LockType
<1>2. lock' = [lock EXCEPT ![k].w = {a}]
  BY DEF Lock
<1>3. /\ lock' \in [Keys -> LockType]
      /\ \A j \in Keys : j # k => lock'[j] = lock[j]
      /\ lock'[k].w = {a} /\ lock'[k].r = {}
  BY ONLY <1>1, <1>2, a \in Agents, k \in Keys, lock[k].r = {} DEF LockType, Agents
<1> QED BY ONLY <1>1, <1>3, a \in Agents, k \in Keys, lock[k].w = {}, lock[k].r = {}
        DEF LocksMove, LockType, Agents, Exclusive

LEMMA LockedForReading ==
  ASSUME TypeOK, LocksOK, NEW a \in Clients, NEW k \in Keys,
         lock[k].w = {}, lock' = Lock(k, a, "r")
  PROVE  LocksMove(a, {}, {k}, {})
<1>1. lock \in [Keys -> LockType] /\ \A j \in Keys : Exclusive(lock[j])
  BY DEF TypeOK, LocksOK, LockType
<1>2. lock' = [lock EXCEPT ![k].r = @ \cup {a}]
  BY DEF Lock
<1>3. /\ lock' \in [Keys -> LockType]
      /\ \A j \in Keys : j # k => lock'[j] = lock[j]
      /\ lock'[k].w = {} /\ lock'[k].r = lock[k].r \cup {a}
  BY ONLY <1>1, <1>2, a \in Clients, k \in Keys, lock[k].w = {} DEF LockType, Agents
<1> QED BY ONLY <1>1, <1>3, a \in Clients, k \in Keys, lock[k].w = {}
        DEF LocksMove, LockType, Agents, Exclusive

LEMMA LocksReleased ==
  ASSUME TypeOK, LocksOK, NEW a \in Agents, NEW ks \in SUBSET Keys,
         lock' = Unlocked(lock, ks, a)
  PROVE  LocksMove(a, {}, {}, ks)
<1>1. lock \in [Keys -> LockType] /\ \A j \in Keys : Exclusive(lock[j])
  BY DEF TypeOK, LocksOK, LockType
<1>2. /\ lock' \in [Keys -> LockType]
      /\ \A j \in Keys : j \notin ks => lock'[j] = lock[j]
      /\ \A j \in ks : lock'[j].w = lock[j].w \ {a} /\ lock'[j].r = lock[j].r \ {a}
  BY ONLY <1>1, lock' = Unlocked(lock, ks, a), ks \in SUBSET Keys DEF Unlocked, LockType
<1> QED BY ONLY <1>1, <1>2, a \in Agents, ks \in SUBSET Keys
        DEF LocksMove, LockType, Agents, Exclusive

\* A step that leaves what the others have locked alone and gives t the locks its record
\* says keeps the locks right.
LEMMA LocksFollow ==
  ASSUME LocksOK, CacheTableAssumption, NEW t \in Clients, cp' = cp, ev' = ev,
         \A u \in Clients : u # t => th'[u] = th[u],
         NEW aw, NEW ar, NEW rel, LocksMove(t, aw, ar, rel),
         \A k \in Keys : /\ t \in lock'[k].w <=> Writes(th'[t], k)
                         /\ t \in lock'[k].r <=> Reads(th'[t], k)
  PROVE  LocksOK'
<1> USE DEF LocksOK, LocksMove, Agents, CacheTableAssumption
<1>1. \A k \in Keys : Exclusive(lock[k])'
  BY DEF Exclusive
<1>2. \A k \in Keys, u \in Clients : /\ u \in lock'[k].w <=> Writes(th'[u], k)
                                     /\ u \in lock'[k].r <=> Reads(th'[u], k)
  OBVIOUS
<1>3. \A k \in Keys : /\ "cp" \in lock'[k].w <=> cp'.ph = "write" /\ cp'.cur = k
                      /\ "ev" \in lock'[k].w <=> ev'[k] # "no"
  OBVIOUS
<1> QED BY <1>1, <1>2, <1>3 DEF Writes, Reads, HasRoot, HasX, HasY, ReadsRoot, Pinned

\* ----------------------------------------------------------- what is locked

LEMMA ControlParts ==
  ASSUME ControlOK
  PROVE  TypeOK /\ ThreadsOK /\ LocksOK /\ ClosingOK /\ PairsOK /\ PendOK
BY DEF ControlOK

LEMMA FetchesWrites ==
  ASSUME NEW s, NEW k, ThreadOK(s), Fetches(s, k)
  PROVE  Writes(s, k)
BY DEF ThreadOK, Phases, Fetches, KeyOf, Writes, HasRoot, HasX, HasY, Pinned

\* Two threads that have the same pair locked, one of them for writing, are one.
LEMMA WritersAlone ==
  ASSUME LocksOK, NEW t \in Clients, NEW u \in Clients, NEW k \in Keys,
         Writes(th[t], k), Writes(th[u], k) \/ Reads(th[u], k)
  PROVE  t = u /\ ~Reads(th[t], k)
BY DEF LocksOK, Exclusive

\* What a thread has locked is in the table, with its value unless it is fetching it.
LEMMA WrittenThere ==
  ASSUME ControlOK, CacheTableAssumption, NEW t \in Clients, NEW k \in Keys, Writes(th[t], k)
  PROVE  /\ lock[k].w = {t} /\ lock[k].r = {}
         /\ pair[k].st = "table" /\ ev[k] = "no" /\ ~(cp.ph = "write" /\ cp.cur = k)
         /\ ~Fetches(th[t], k) => InMemory(k)
<1>1. lock[k].w = {t} /\ lock[k].r = {}
  BY ControlParts DEF LocksOK, Exclusive
<1>2. pair[k].st = "table"
  <2>1. pair[k] \in Pairs
    BY ControlParts DEF TypeOK
  <2> QED BY <1>1, <2>1, ControlParts DEF PairsOK, PairThere, Pairs
<1>3. ev[k] = "no" /\ ~(cp.ph = "write" /\ cp.cur = k)
  BY <1>1, ControlParts DEF LocksOK, CacheTableAssumption
<1>4. ASSUME ~Fetches(th[t], k) PROVE InMemory(k)
  <2>1. "rd" \notin lock[k].w
    BY <1>1 DEF CacheTableAssumption
  <2>2. ASSUME NEW u \in Clients, Fetches(th[u], k) PROVE FALSE
    <3>1. Writes(th[u], k)
      BY <2>2, FetchesWrites, ControlParts DEF ThreadsOK
    <3> QED BY <3>1, <2>2, <1>4, WritersAlone, ControlParts
  <2>3. ~Fetching(k)
    BY <2>1, <2>2 DEF Fetching
  <2> QED BY <1>2, <2>3, ControlParts DEF PairsOK, PairValue, InMemory
<1> QED BY <1>1, <1>2, <1>3, <1>4

LEMMA ReadThere ==
  ASSUME ControlOK, CacheTableAssumption, NEW t \in Clients, NEW k \in Keys, Reads(th[t], k)
  PROVE  /\ lock[k].w = {} /\ InMemory(k) /\ ev[k] = "no"
<1>1. lock[k].w = {} /\ t \in lock[k].r
  BY ControlParts DEF LocksOK, Exclusive
<1>2. pair[k].st = "table"
  <2>1. pair[k] \in Pairs
    BY ControlParts DEF TypeOK
  <2> QED BY <1>1, <2>1, ControlParts DEF PairsOK, PairThere, Pairs
<1>3. ev[k] = "no"
  BY <1>1, ControlParts DEF LocksOK
<1>4. ~Fetching(k)
  <2>1. ASSUME NEW u \in Clients, Fetches(th[u], k) PROVE FALSE
    <3>1. Writes(th[u], k)
      BY <2>1, FetchesWrites, ControlParts DEF ThreadsOK
    <3> QED BY <3>1, <1>1, ControlParts DEF LocksOK
  <2> QED BY <1>1, <2>1 DEF Fetching
<1> QED BY <1>1, <1>2, <1>3, <1>4, ControlParts DEF PairsOK, PairValue, InMemory

\* A pair that nobody has locked for writing has its value.
LEMMA UnlockedThere ==
  ASSUME ControlOK, NEW k \in Keys, lock[k].w = {}, pair[k].st = "table"
  PROVE  InMemory(k)
<1>1. ~Fetching(k)
  <2>1. ASSUME NEW u \in Clients, Fetches(th[u], k) PROVE FALSE
    <3>1. Writes(th[u], k)
      BY <2>1, FetchesWrites, ControlParts DEF ThreadsOK
    <3> QED BY <3>1, ControlParts DEF LocksOK
  <2> QED BY <2>1 DEF Fetching
<1> QED BY <1>1, ControlParts DEF PairsOK, PairValue, InMemory

\* ------------------------------------------- steps that change no pair's state

\* The record of t after the step is one a thread can have, and the multi-operation
\* lock is t's just when its record says so.
LocalOK(t) ==
  /\ ThreadOK(th'[t]) /\ mo' \in SUBSET Clients
  /\ t \in mo' <=> th'[t].pc \in MoPcs
  /\ \A u \in Clients : u # t => (u \in mo' <=> u \in mo)
  /\ \A k \in Keys : /\ t \in lock'[k].w <=> Writes(th'[t], k)
                     /\ t \in lock'[k].r <=> Reads(th'[t], k)
\* A pair changes at most its value and its dirty bit, and these only while t has it locked.
PairKept(t, k) ==
  /\ pair'[k].st = pair[k].st /\ pair'[k].pend = pair[k].pend /\ pair'[k].clone = pair[k].clone
  /\ pair'[k] = pair[k] \/ Writes(th[t], k)
  /\ pair'[k].val = <<>> <=> pair[k].val = <<>>
  /\ pair'[k].val = <<>> => ~pair'[k].dirty
  /\ pair[k].dirty => pair'[k].dirty
\* What the others can see of the step, besides the locks.
ThreadQuiet(t) ==
  /\ \A k \in Keys : /\ Awaits(th'[t], k) => pair[k].st = "table"
                     /\ Refers(th'[t], k) => pair[k].st # "none"
                     /\ Fetches(th'[t], k) <=> Fetches(th[t], k)
                     /\ Departs(th'[t], k) <=> Departs(th[t], k)
  /\ th'[t].todo = th[t].todo

LEMMA ControlStep ==
  ASSUME ControlOK, CacheTableAssumption, NEW t \in Clients, closing = "no",
         th' \in [Clients -> Threads], \A u \in Clients : u # t => th'[u] = th[u],
         UNCHANGED <<dm, plist, cp, ev, evictions, closing, disk, ckpt, before>>,
         injected' \in SUBSET Tokens,
         NEW aw, NEW ar, NEW rel, LocksMove(t, aw, ar, rel),
         \A k \in Keys : k \in aw \cup ar => pair[k].st = "table",
         LocalOK(t), ThreadQuiet(t),
         pair' \in [Keys -> Pairs], \A k \in Keys : PairKept(t, k)
  PROVE  ControlOK'
<1>1. TypeOK'
  BY ControlParts DEF TypeOK, LocksMove, LocalOK, LockType
<1>2. ThreadsOK'
  <2>1. ASSUME NEW u \in Clients PROVE ThreadOK(th'[u]) /\ (u \in mo' <=> th'[u].pc \in MoPcs)
    BY ControlParts DEF ThreadsOK, LocalOK
  <2> QED BY <2>1 DEF ThreadsOK, ThreadOK, Phases, UsesX, UsesY, FlPcs, Writes, HasRoot, HasX,
                      HasY, Pinned, KeyOf, MoPcs
<1>3. LocksOK'
  BY LocksFollow, ControlParts DEF LocalOK
<1>4. ClosingOK'
  BY DEF ClosingOK
<1>5. ASSUME NEW k \in Keys
      PROVE  (Fetching(k)' <=> Fetching(k)) /\ (Leaving(k)' <=> Leaving(k)) /\ (InTodo(k)' <=> InTodo(k))
             /\ (AtStake(k)' <=> AtStake(k))
  <2>1. "rd" \in lock'[k].w <=> "rd" \in lock[k].w
    BY DEF LocksMove, Agents, CacheTableAssumption
  <2>2. \A u \in Clients : /\ Fetches(th'[u], k) <=> Fetches(th[u], k)
                           /\ Departs(th'[u], k) <=> Departs(th[u], k)
                           /\ k \in th'[u].todo <=> k \in th[u].todo
    BY DEF ThreadQuiet
  <2>3. Fetching(k)' <=> Fetching(k)
    BY <2>1, <2>2 DEF Fetching, Fetches, KeyOf
  <2>4. Leaving(k)' <=> Leaving(k)
    BY <2>2 DEF Leaving, Departs
  <2> QED BY <2>2, <2>3, <2>4 DEF InTodo, AtStake
<1>6. ASSUME NEW k \in Keys
      PROVE  PairThere(k)' /\ PairValue(k)' /\ PairClone(k)' /\ PairPend(k)'
  <2>1. PairThere(k) /\ PairValue(k) /\ PairClone(k) /\ PairPend(k) /\ PairKept(t, k)
    BY ControlParts DEF PairsOK, PendOK
  <2>2. ASSUME pair[k].st # "table" PROVE pair'[k] = pair[k]
    BY <2>2, WrittenThere, <2>1 DEF PairKept
  <2>3. ASSUME pair[k].st # "table", lock[k].w = {}, lock[k].r = {}
        PROVE  lock'[k].w = {} /\ lock'[k].r = {}
    <3>1. k \notin aw \cup ar
      BY <2>3
    <3>2. \A b \in Agents : b \notin lock'[k].w /\ b \notin lock'[k].r
      BY <2>3, <3>1, t \in Clients DEF LocksMove, Agents
    <3> QED BY <3>2 DEF LocksMove, LockType, Agents
  <2>4. \A u \in Clients : /\ Awaits(th'[u], k) => pair[k].st = "table"
                           /\ Refers(th'[u], k) => pair[k].st # "none"
    <3>1. \A u \in Clients : /\ Awaits(th[u], k) => pair[k].st = "table"
                             /\ Refers(th[u], k) => pair[k].st # "none"
      BY <2>1 DEF PairThere
    <3> QED BY <3>1 DEF ThreadQuiet
  <2>5. PairThere(k)'
    <3>1. pair'[k].st = "none" => /\ pair'[k] = NoPair /\ ~AtStake(k)'
                                  /\ lock'[k].w = {} /\ lock'[k].r = {}
                                  /\ \A u \in Clients : ~Refers(th'[u], k)
      BY <2>1, <2>2, <2>3, <2>4, <1>5 DEF PairThere, PairKept
    <3>2. pair'[k].st = "removed" <=> Leaving(k)'
      BY <2>1, <1>5 DEF PairThere, PairKept
    <3>3. pair'[k].st = "removed" =>
            /\ lock'[k].w = {} /\ lock'[k].r = {} /\ k \notin plist'
            /\ ~pair'[k].dirty /\ ~pair'[k].pend /\ pair'[k].clone = <<>>
      BY <2>1, <2>2, <2>3 DEF PairThere, PairKept
    <3>4. \A u \in Clients : Awaits(th'[u], k) => pair'[k].st = "table"
      BY <2>1, <2>4 DEF PairKept
    <3> QED BY <3>1, <3>2, <3>3, <3>4 DEF PairThere, NoPair, Refers, Awaits, KeyOf
  <2>6. PairValue(k)'
    <3>1. ev[k] # "no" => pair'[k] = pair[k]
      BY <2>1, WrittenThere DEF PairKept
    <3> QED BY <2>1, <3>1, <1>5 DEF PairValue, PairKept, InMemory
  <2>7. PairClone(k)' /\ PairPend(k)'
    BY <2>1, <1>5 DEF PairClone, PairPend, PairKept, InMemory
  <2> QED BY <2>5, <2>6, <2>7
<1>7. PairsOK'
  BY <1>6 DEF PairsOK
<1>8. PendOK'
  <2>1. cp.ph = "write" => pair'[cp.cur].pend /\ pair'[cp.cur].dirty
    <3>1. cp.cur \in Keys
      BY ControlParts DEF TypeOK
    <3> QED BY <3>1, ControlParts DEF PendOK, PairKept
  <2> QED BY <2>1, <1>6, ControlParts DEF PendOK
<1> QED BY <1>1, <1>2, <1>3, <1>4, <1>7, <1>8 DEF ControlOK

LEMMA PairsSame ==
  ASSUME ControlOK, pair' = pair, NEW t
  PROVE  pair' \in [Keys -> Pairs] /\ \A k \in Keys : PairKept(t, k)
BY ControlParts DEF TypeOK, PairKept, PairsOK, PairValue

\* What the record of t and its place in the multi-operation lock are, by the invariant.
LEMMA ThreadParts ==
  ASSUME ControlOK, NEW t \in Clients
  PROVE  /\ ThreadOK(th[t]) /\ (t \in mo <=> th[t].pc \in MoPcs)
         /\ \A k \in Keys : /\ t \in lock[k].w <=> Writes(th[t], k)
                            /\ t \in lock[k].r <=> Reads(th[t], k)
BY ControlParts DEF ThreadsOK, LocksOK

LEMMA NotClosing ==
  ASSUME ControlOK, NEW t \in Clients, th[t].pc # "idle" \/ th[t].work # <<>>
  PROVE  closing = "no"
BY ControlParts DEF ClosingOK

\* A step with the same locks, or with those its record says.
LEMMA LocalFromRecord ==
  ASSUME ControlOK, NEW t \in Clients, mo' = mo, ThreadOK(th'[t]),
         th'[t].pc \in MoPcs <=> th[t].pc \in MoPcs,
         NEW aw, NEW ar, NEW rel, LocksMove(t, aw, ar, rel),
         \A k \in Keys : /\ Writes(th'[t], k) <=> k \in aw \/ (Writes(th[t], k) /\ k \notin rel)
                         /\ Reads(th'[t], k) <=> k \in ar \/ (Reads(th[t], k) /\ k \notin rel)
  PROVE  LocalOK(t)
BY ControlParts, ThreadParts DEF LocalOK, LocksMove, TypeOK

\* A thread that queues for the lock of a pair in the table.
LEMMA WaitingKeeps ==
  ASSUME ControlOK, CacheTableAssumption, NEW t \in Clients, th[t].ph = "go",
         th[t].pc \in {"inject_root", "flush_root", "flush_child", "merge_a", "merge_b",
                       "bg_child", "query_root", "query_child"},
         pair[KeyOf(th[t])].st = "table",
         Stepped(th', t, th[t].pc, "wait", th[t].todo, th[t].x, th[t].y, th[t].fl, th[t].mod),
         UNCHANGED <<pair, lock, dm, disk, ckpt, plist, cp, ev, mo, evictions, closing, injected,
                     before>>
  PROVE  ControlOK'
<1>1. TypeOK /\ ThreadOK(th[t])
  BY ControlParts, ThreadParts
<1>2. LocksMove(t, {}, {}, {})
  BY <1>1, LocksKept, ControlParts DEF Agents
<1>3. ThreadOK(th'[t]) /\ closing = "no"
  BY <1>1, NotClosing
     DEF Stepped, ThreadOK, Phases, UsesX, UsesY, HasX, HasY, HasRoot, Writes, Pinned, KeyOf, FlPcs
<1>4. \A k \in Keys : /\ Writes(th'[t], k) <=> Writes(th[t], k)
                      /\ Reads(th'[t], k) <=> Reads(th[t], k)
  BY DEF Stepped, Writes, HasRoot, HasX, HasY, Pinned, Reads, ReadsRoot
<1>5. LocalOK(t)
  BY <1>2, <1>3, <1>4, LocalFromRecord DEF Stepped
<1>6. ThreadQuiet(t)
  BY DEF ThreadQuiet, Stepped, Awaits, Refers, Fetches, Departs, KeyOf
<1>7. /\ th' \in [Clients -> Threads] /\ \A u \in Clients : u # t => th'[u] = th[u]
      /\ injected' \in SUBSET Tokens
  BY <1>1 DEF Stepped, TypeOK
<1> QED BY <1>2, <1>3, <1>5, <1>6, <1>7, PairsSame, ControlStep

\* A thread that is given the lock of the pair it wants, for writing.
LEMMA GrantedKeeps ==
  ASSUME ControlOK, CacheTableAssumption, NEW t \in Clients, th[t].ph \in {"go", "wait"},
         th[t].pc \in {"inject_root", "flush_root", "flush_child", "merge_a", "merge_b",
                       "bg_child", "clean_pick"},
         NEW k \in Keys, k = KeyOf(th[t]), pair[k].st = "table",
         lock[k].w = {}, lock[k].r = {}, lock' = Lock(k, t, "w"),
         Stepped(th', t, th[t].pc, "bits", th[t].todo, th[t].x, th[t].y, th[t].fl, th[t].mod),
         UNCHANGED <<pair, dm, disk, ckpt, plist, cp, ev, mo, evictions, closing, injected, before>>
  PROVE  ControlOK'
<1>1. TypeOK /\ LocksOK /\ ThreadOK(th[t]) /\ t \in Agents /\ closing = "no"
  BY ControlParts, ThreadParts, NotClosing DEF Agents
<1>2. LocksMove(t, {k}, {}, {})
  BY <1>1, LockedForWriting
<1>3. \A j \in Keys : /\ Writes(th'[t], j) <=> j \in {k} \/ Writes(th[t], j)
                      /\ Reads(th'[t], j) <=> Reads(th[t], j)
  BY DEF Stepped, Writes, HasRoot, HasX, HasY, Pinned, Reads, ReadsRoot, KeyOf
<1>4. KeyOf(th'[t]) = k /\ k \notin th[t].mod
  <2>1. ~Writes(th[t], k)
    BY <1>1, ThreadParts
  <2> QED BY <2>1, <1>1 DEF Stepped, KeyOf, ThreadOK
<1>5. ThreadOK(th'[t])
  <2>1. \A j \in th[t].mod : j \in Keys /\ Writes(th[t], j)
    BY <1>1, ThreadsTyped DEF ThreadOK
  <2>2. th[t].todo = {}
    BY <1>1 DEF ThreadOK
  <2>3. /\ th'[t].ph \in Phases(th'[t].pc)
        /\ UsesX(th'[t]) => th'[t].x \in Leaves
        /\ UsesY(th'[t]) => th'[t].y \in Leaves /\ th'[t].y # th'[t].x
        /\ th'[t].fl # {} => th'[t].pc \in FlPcs
    BY <1>1 DEF Stepped, ThreadOK, Phases, UsesX, UsesY, HasX, HasY, Pinned, FlPcs
  <2>4. /\ th'[t].todo = {} /\ \A j \in th'[t].mod : Writes(th'[t], j)
        /\ KeyOf(th'[t]) \notin th'[t].mod
    BY <1>3, <1>4, <2>1, <2>2 DEF Stepped
  <2> QED BY <2>3, <2>4 DEF ThreadOK
<1>6. LocalOK(t)
  <2>1. \A j \in Keys : /\ Writes(th'[t], j) <=> j \in {k} \/ (Writes(th[t], j) /\ j \notin {})
                        /\ Reads(th'[t], j) <=> j \in {} \/ (Reads(th[t], j) /\ j \notin {})
    BY <1>3
  <2>2. th'[t].pc = th[t].pc /\ mo' = mo
    BY DEF Stepped
  <2> QED BY ONLY ControlOK, t \in Clients, <1>2, <1>5, <2>1, <2>2, LocalFromRecord
<1>7. ThreadQuiet(t)
  BY DEF ThreadQuiet, Stepped, Awaits, Refers, Fetches, Departs, KeyOf
<1>8. /\ th' \in [Clients -> Threads] /\ \A u \in Clients : u # t => th'[u] = th[u]
      /\ injected' \in SUBSET Tokens
  BY <1>1 DEF Stepped, TypeOK
<1>9. \A j \in Keys : j \in {k} \cup {} => pair[j].st = "table"
  OBVIOUS
<1> QED BY <1>1, <1>2, <1>6, <1>7, <1>8, <1>9, PairsSame, ControlStep

LEMMA get_and_pinStep ==
  ASSUME ControlOK, NEW t \in Clients, get_and_pin(t)
  PROVE  /\ th[t].pc \in {"inject_root", "flush_root", "flush_child", "merge_a", "merge_b"}
         /\ th[t].ph = "go" /\ pair[KeyOf(th[t])].st = "table"
         /\ Stepped(th', t, th[t].pc, "wait", th[t].todo, th[t].x, th[t].y, th[t].fl, th[t].mod)
<1>1. /\ th[t].pc \in {"inject_root", "flush_root", "flush_child", "merge_a", "merge_b"}
      /\ th[t].ph = "go" /\ Key(t) = KeyOf(th[t]) /\ pair[Key(t)].st = "table"
  BY PinCases, KeyIsKeyOf DEF PinIs, get_and_pin
<1> QED BY <1>1, PhaseSteps, ControlParts DEF get_and_pin

LEMMA get_and_pinKeeps ==
  ASSUME ControlOK, CacheTableAssumption, NEW t \in Clients, get_and_pin(t)
  PROVE  ControlOK'
BY get_and_pinStep, WaitingKeeps DEF get_and_pin, history

LEMMA try_pin_pairStep ==
  ASSUME ControlOK, NEW t \in Clients, try_pin_pair(t)
  PROVE  LET k == KeyOf(th[t])
         IN /\ th[t].ph = "wait" /\ lock[k].w = {} /\ k \in Keys
            /\ \/ /\ th[t].pc \in {"inject_root", "flush_root", "flush_child", "merge_a", "merge_b",
                                   "bg_child"}
                  /\ lock[k].r = {} /\ lock' = Lock(k, t, "w")
                  /\ Stepped(th', t, th[t].pc, "bits", th[t].todo, th[t].x, th[t].y, th[t].fl,
                             th[t].mod)
               \/ \E next : /\ \/ th[t].pc = "query_root" /\ next = "query_pick"
                               \/ th[t].pc = "query_child" /\ next = "query_unpin"
                            /\ lock' = Lock(k, t, "r")
                            /\ Stepped(th', t, next, "go", th[t].todo, th[t].x, th[t].y, th[t].fl,
                                       th[t].mod)
<1> DEFINE k == KeyOf(th[t])
<1>1. th[t].ph = "wait" /\ Key(t) = k /\ Pinning(t) /\ CanLock(k, Want(t).mode)
      /\ lock' = Lock(k, t, Want(t).mode)
  BY KeyIsKeyOf DEF try_pin_pair
<1>2. th[t].ph \in Phases(th[t].pc) /\ th[t].x \in Keys /\ th[t].y \in Keys /\ TypeOK
  BY ThreadParts, ThreadsTyped, ControlParts DEF ThreadOK
<1>3. k \in Keys
  BY <1>2 DEF KeyOf, Keys
<1>4. CASE Want(t).mode = "w"
  <2>1. th[t].pc \in {"inject_root", "flush_root", "flush_child", "merge_a", "merge_b", "bg_child"}
    BY <1>1, <1>2, <1>4, PinCases DEF PinIs, Phases
  <2>2. th' = Phase(t, "bits")
    BY <1>4 DEF try_pin_pair
  <2> QED BY <1>1, <1>2, <1>3, <1>4, <2>1, <2>2, PhaseSteps DEF CanLock
<1>5. CASE Want(t).mode # "w"
  <2>1. /\ Want(t).mode = "r"
        /\ \/ th[t].pc = "query_root" /\ Want(t).next = "query_pick"
           \/ th[t].pc = "query_child" /\ Want(t).next = "query_unpin"
    BY <1>1, <1>5, PinCases DEF PinIs
  <2>2. th' = Goto(t, Want(t).next)
    BY <1>5 DEF try_pin_pair
  <2>3. Want(t).next \in Pcs
    BY <2>1 DEF Pcs
  <2> QED BY <1>1, <1>2, <1>3, <2>1, <2>2, <2>3, GotoSteps DEF CanLock
<1> QED BY <1>4, <1>5

LEMMA try_pin_pairKeeps ==
  ASSUME ControlOK, CacheTableAssumption, NEW t \in Clients, try_pin_pair(t)
  PROVE  ControlOK'
<1> DEFINE k == KeyOf(th[t])
<1>1. TypeOK /\ LocksOK /\ ThreadOK(th[t]) /\ t \in Agents
  BY ControlParts, ThreadParts DEF Agents
<1>2. th[t].ph = "wait" /\ k \in Keys /\ lock[k].w = {} /\ closing = "no"
      /\ pair[k].st = "table"
  <2>1. th[t].pc # "idle" /\ th[t].ph = "wait" /\ k \in Keys /\ lock[k].w = {}
    BY try_pin_pairStep
  <2>2. PairThere(k)
    BY <2>1, ControlParts DEF PairsOK
  <2> QED BY <2>1, <2>2, NotClosing DEF PairThere, Awaits
<1>3. CASE /\ th[t].pc \in {"inject_root", "flush_root", "flush_child", "merge_a", "merge_b",
                            "bg_child"}
           /\ lock[k].r = {} /\ lock' = Lock(k, t, "w")
           /\ Stepped(th', t, th[t].pc, "bits", th[t].todo, th[t].x, th[t].y, th[t].fl, th[t].mod)
  <2>1. UNCHANGED <<pair, dm, disk, ckpt, plist, cp, ev, mo, evictions, closing, injected, before>>
    BY DEF try_pin_pair, history
  <2> QED BY <1>2, <1>3, <2>1, GrantedKeeps
<1>4. ASSUME NEW next, \/ th[t].pc = "query_root" /\ next = "query_pick"
                       \/ th[t].pc = "query_child" /\ next = "query_unpin",
             lock' = Lock(k, t, "r"),
             Stepped(th', t, next, "go", th[t].todo, th[t].x, th[t].y, th[t].fl, th[t].mod)
      PROVE  ControlOK'
  <2>1. LocksMove(t, {}, {k}, {})
    BY <1>1, <1>2, <1>4, LockedForReading
  <2>2. \A j \in Keys : /\ Writes(th'[t], j) <=> Writes(th[t], j)
                        /\ Reads(th'[t], j) <=> j \in {k} \/ Reads(th[t], j)
    BY <1>2, <1>4 DEF Stepped, Writes, HasRoot, HasX, HasY, Pinned, Reads, ReadsRoot, KeyOf
  <2>4. ThreadOK(th'[t])
    BY <1>1, <1>2, <1>4
       DEF Stepped, ThreadOK, Phases, UsesX, UsesY, HasX, HasY, HasRoot, Writes, Pinned, KeyOf, FlPcs
  <2>5. LocalOK(t)
    <3>1. th'[t].pc \in MoPcs <=> th[t].pc \in MoPcs
      BY <1>4 DEF Stepped, MoPcs
    <3> QED BY <3>1, <2>1, <2>2, <2>4, LocalFromRecord DEF try_pin_pair
  <2>6. ThreadQuiet(t)
    BY <1>2, <1>4 DEF ThreadQuiet, Stepped, Awaits, Refers, Fetches, Departs, KeyOf
  <2>7. /\ th' \in [Clients -> Threads] /\ \A u \in Clients : u # t => th'[u] = th[u]
        /\ UNCHANGED <<dm, plist, cp, ev, evictions, closing, disk, ckpt, before>>
        /\ injected' \in SUBSET Tokens /\ pair' = pair
    BY <1>1, <1>4 DEF Stepped, try_pin_pair, history, TypeOK
  <2>8. \A j \in Keys : j \in {} \cup {k} => pair[j].st = "table"
    BY <1>2
  <2> QED BY <1>2, <2>1, <2>5, <2>6, <2>7, <2>8, PairsSame, ControlStep
<1> QED BY <1>3, <1>4, try_pin_pairStep

LEMMA BgKeeps ==
  ASSUME ControlOK, CacheTableAssumption, NEW t \in Clients, th[t].ph = "go", th[t].pc = "bg_child",
         Stepped(th', t, "bg_fail", "go", th[t].todo, th[t].x, th[t].y, th[t].fl, th[t].mod),
         UNCHANGED <<pair, lock, dm, disk, ckpt, plist, cp, ev, mo, evictions, closing, injected,
                     before>>
  PROVE  ControlOK'
<1>1. TypeOK /\ ThreadOK(th[t])
  BY ControlParts, ThreadParts
<1>2. LocksMove(t, {}, {}, {})
  BY <1>1, LocksKept, ControlParts DEF Agents
<1>3. ThreadOK(th'[t]) /\ closing = "no"
  BY <1>1, NotClosing
     DEF Stepped, ThreadOK, Phases, UsesX, UsesY, HasX, HasY, HasRoot, Writes, Pinned, KeyOf, FlPcs
<1>4. \A k \in Keys : /\ Writes(th'[t], k) <=> Writes(th[t], k)
                      /\ Reads(th'[t], k) <=> Reads(th[t], k)
  BY DEF Stepped, Writes, HasRoot, HasX, HasY, Pinned, Reads, ReadsRoot
<1>5. LocalOK(t)
  BY <1>2, <1>3, <1>4, LocalFromRecord DEF Stepped, MoPcs
<1>6. ThreadQuiet(t)
  BY DEF ThreadQuiet, Stepped, Awaits, Refers, Fetches, Departs, KeyOf
<1>7. /\ th' \in [Clients -> Threads] /\ \A u \in Clients : u # t => th'[u] = th[u]
      /\ injected' \in SUBSET Tokens
  BY <1>1 DEF Stepped, TypeOK
<1> QED BY <1>2, <1>3, <1>5, <1>6, <1>7, PairsSame, ControlStep

LEMMA KeyTyped ==
  ASSUME ControlOK, NEW t \in Clients
  PROVE  KeyOf(th[t]) \in Keys
BY ControlParts, ThreadsTyped DEF KeyOf, Keys

LEMMA maybe_get_and_pin_cleanStep ==
  ASSUME ControlOK, NEW t \in Clients, maybe_get_and_pin_clean(t)
  PROVE  LET k == KeyOf(th[t])
         IN /\ th[t].pc = "bg_child" /\ th[t].ph = "go"
            /\ \/ /\ pair[k].st = "table" /\ lock[k].w = {} /\ lock[k].r = {}
                  /\ lock' = Lock(k, t, "w")
                  /\ Stepped(th', t, "bg_child", "bits", th[t].todo, th[t].x, th[t].y, th[t].fl,
                             th[t].mod)
               \/ /\ pair[k].st = "table" /\ lock' = lock
                  /\ Stepped(th', t, "bg_child", "wait", th[t].todo, th[t].x, th[t].y, th[t].fl,
                             th[t].mod)
               \/ /\ lock' = lock
                  /\ Stepped(th', t, "bg_fail", "go", th[t].todo, th[t].x, th[t].y, th[t].fl,
                             th[t].mod)
<1>1. th[t].pc = "bg_child" /\ th[t].ph = "go" /\ Key(t) = KeyOf(th[t])
  BY PinCases, KeyIsKeyOf DEF PinIs, maybe_get_and_pin_clean
<1>2. "bg_fail" \in Pcs
  BY DEF Pcs
<1> QED BY <1>1, <1>2, PhaseSteps, GotoSteps, ControlParts DEF maybe_get_and_pin_clean, users

LEMMA maybe_get_and_pin_cleanKeeps ==
  ASSUME ControlOK, CacheTableAssumption, NEW t \in Clients, maybe_get_and_pin_clean(t)
  PROVE  ControlOK'
<1>1. UNCHANGED <<pair, dm, disk, ckpt, plist, cp, ev, mo, evictions, closing, injected, before>>
  BY DEF maybe_get_and_pin_clean, history
<1>2. KeyOf(th[t]) \in Keys
  BY KeyTyped
<1> QED BY <1>1, <1>2, maybe_get_and_pin_cleanStep, GrantedKeeps, WaitingKeeps, BgKeeps

\* ------------------------------------------------------ operations of clients

\* What a pair in memory holds.
LEMMA ValTyped ==
  ASSUME TypeOK, NEW k \in Keys, InMemory(k)
  PROVE  /\ Val(k) \in [kids : SUBSET Leaves, toks : SUBSET Tokens] /\ pair[k].val = <<Val(k)>>
         /\ Val(k).kids \in SUBSET Leaves /\ Toks(k) \in SUBSET Tokens
<1>1. pair[k].val \in Vals /\ pair[k].val # <<>>
  BY DEF TypeOK, Pairs, InMemory
<1>2. PICK n \in [kids : SUBSET Leaves, toks : SUBSET Tokens] : pair[k].val = <<n>>
  BY <1>1 DEF Vals
<1>3. Val(k) = n
  BY <1>2 DEF Val
<1> QED BY <1>2, <1>3 DEF Toks

\* A step of a thread that neither takes nor gives up a lock of a pair.
LEMMA QuietKeeps ==
  ASSUME ControlOK, CacheTableAssumption, NEW t \in Clients, closing = "no",
         NEW pc, NEW ph, NEW x, NEW y, NEW fl, NEW mod,
         Stepped(th', t, pc, ph, th[t].todo, x, y, fl, mod),
         ThreadOK(th'[t]), ThreadQuiet(t),
         mo' \in SUBSET Clients, t \in mo' <=> pc \in MoPcs,
         \A u \in Clients : u # t => (u \in mo' <=> u \in mo),
         \A k \in Keys : /\ Writes(th'[t], k) <=> Writes(th[t], k)
                         /\ Reads(th'[t], k) <=> Reads(th[t], k),
         UNCHANGED <<pair, lock, dm, disk, ckpt, plist, cp, ev, evictions, closing, injected, before>>
  PROVE  ControlOK'
<1>1. TypeOK /\ LocksMove(t, {}, {}, {})
  BY LocksKept, ControlParts DEF Agents
<1>2. LocalOK(t)
  BY ThreadParts DEF LocalOK, Stepped
<1>3. /\ th' \in [Clients -> Threads] /\ \A u \in Clients : u # t => th'[u] = th[u]
      /\ injected' \in SUBSET Tokens
  BY <1>1 DEF Stepped, TypeOK
<1> QED BY <1>1, <1>2, <1>3, PairsSame, ControlStep

LEMMA maybe_pin_pairStep ==
  ASSUME ControlOK, NEW t \in Clients, maybe_pin_pair(t)
  PROVE  /\ th[t].pc \in {"query_root", "query_child"}
         /\ \/ th[t].ph = "ref" /\ Stepped(th', t, th[t].pc, "try_again", th[t].todo, th[t].x,
                                           th[t].y, th[t].fl, th[t].mod)
            \/ /\ th[t].ph = "try_again"
               /\ Stepped(th', t, "query_root", "go", th[t].todo, th[t].x, th[t].y, th[t].fl,
                          th[t].mod)
<1>1. th[t].pc \in {"query_root", "query_child"}
  <2>1. th[t].ph \in Phases(th[t].pc)
    BY ThreadParts DEF ThreadOK
  <2> QED BY <2>1, PinCases DEF PinIs, maybe_pin_pair, Phases
<1>2. "query_root" \in Pcs
  BY PinTable DEF Pcs
<1> QED BY <1>1, <1>2, PhaseSteps, GotoSteps, ControlParts DEF maybe_pin_pair

LEMMA maybe_pin_pairKeeps ==
  ASSUME ControlOK, CacheTableAssumption, NEW t \in Clients, maybe_pin_pair(t)
  PROVE  ControlOK'
<1>1. TypeOK /\ ThreadOK(th[t]) /\ closing = "no" /\ (t \in mo <=> th[t].pc \in MoPcs)
  BY ControlParts, ThreadParts, NotClosing, maybe_pin_pairStep
<1>2. UNCHANGED <<pair, lock, dm, disk, ckpt, plist, cp, ev, mo, evictions, closing, injected, before>>
  BY DEF maybe_pin_pair, history
<1>3. KeyOf(th[t]) \in Keys /\ \A k \in Keys : Refers(th[t], k) => pair[k].st # "none"
  BY KeyTyped, ControlParts DEF PairsOK, PairThere
<1>4. PICK pc, ph : /\ Stepped(th', t, pc, ph, th[t].todo, th[t].x, th[t].y, th[t].fl, th[t].mod)
                    /\ \/ th[t].ph = "ref" /\ pc = th[t].pc /\ ph = "try_again"
                       \/ th[t].ph = "try_again" /\ pc = "query_root" /\ ph = "go"
                    /\ th[t].pc \in {"query_root", "query_child"}
  BY maybe_pin_pairStep
<1>5. ThreadOK(th'[t])
  BY <1>1, <1>4 DEF Stepped, ThreadOK, Phases, UsesX, UsesY, HasX, HasY, HasRoot, Writes, Pinned, KeyOf,
                    FlPcs
<1>6. ThreadQuiet(t)
  BY <1>3, <1>4 DEF ThreadQuiet, Stepped, Awaits, Refers, Fetches, Departs, KeyOf
<1>7. \A k \in Keys : /\ Writes(th'[t], k) <=> Writes(th[t], k)
                      /\ Reads(th'[t], k) <=> Reads(th[t], k)
  BY <1>4 DEF Stepped, Writes, HasRoot, HasX, HasY, Pinned, Reads, ReadsRoot
<1>8. mo' \in SUBSET Clients /\ (t \in mo' <=> pc \in MoPcs) /\ mo' = mo
  BY <1>1, <1>2, <1>4 DEF TypeOK, MoPcs
<1> QED BY <1>1, <1>2, <1>4, <1>5, <1>6, <1>7, <1>8, QuietKeeps

\* The steps of the operations that only move the thread: the start, the multi-operation
\* lock, the choice of a child.
LEMMA StartStep ==
  ASSUME ControlOK, NEW t \in Clients, Start(t)
  PROVE  /\ th[t].pc = "idle" /\ th[t].ph = "go" /\ th[t].work # <<>>
         /\ \E pc \in {"inject_mo", "flush_root", "query_root", "clean_pick"} :
              Stepped(th', t, pc, "go", th[t].todo, th[t].x, th[t].y, th[t].fl, th[t].mod)
<1>1. th[t].pc = "idle" /\ th[t].work # <<>> /\ th[t].work \in Seq(Jobs) /\ TypeOK
  BY ThreadsTyped, ControlParts DEF Start, Idle
<1>2. th[t].ph = "go"
  BY <1>1, ThreadParts DEF ThreadOK, Phases
<1>3. Head(th[t].work) \in Jobs
  BY <1>1
<1>4. PICK pc : pc = FirstStep[Head(th[t].work)]
  OBVIOUS
<1>5. pc \in {"inject_mo", "flush_root", "query_root", "clean_pick"}
  BY <1>3, <1>4 DEF FirstStep, Jobs
<1>6. pc \in Pcs
  BY <1>5, PinTable DEF Pcs
<1>7. PICK g : g = Goto(t, pc)
  OBVIOUS
<1>8. Stepped(g, t, pc, "go", th[t].todo, th[t].x, th[t].y, th[t].fl, th[t].mod)
  BY <1>1, <1>6, <1>7, GotoSteps
<1>9. g[t].work = th[t].work
  <2>1. th \in [Clients -> Threads]
    BY <1>1 DEF TypeOK
  <2> QED BY ONLY <1>7, <2>1, t \in Clients DEF Goto, Threads
<1>10. th' = [g EXCEPT ![t].work = Tail(@)]
  BY <1>4, <1>7 DEF Start
<1>11. Stepped(th', t, pc, "go", th[t].todo, th[t].x, th[t].y, th[t].fl, th[t].mod)
  BY <1>1, <1>8, <1>9, <1>10, SteppedWork
<1> QED BY <1>1, <1>2, <1>5, <1>11

LEMMA StartKeeps ==
  ASSUME ControlOK, CacheTableAssumption, NEW t \in Clients, Start(t)
  PROVE  ControlOK'
<1>1. TypeOK /\ ThreadOK(th[t]) /\ closing = "no" /\ (t \in mo <=> th[t].pc \in MoPcs)
  BY ControlParts, ThreadParts, NotClosing, StartStep
<1>2. UNCHANGED <<pair, lock, dm, disk, ckpt, plist, cp, ev, mo, evictions, closing, injected, before>>
  BY DEF Start, OnlyThread, history
<1>4. PICK pc \in {"inject_mo", "flush_root", "query_root", "clean_pick"} :
        Stepped(th', t, pc, "go", th[t].todo, th[t].x, th[t].y, th[t].fl, th[t].mod)
  BY StartStep
<1>5. ThreadOK(th'[t])
  BY <1>1, <1>4, StartStep
     DEF Stepped, ThreadOK, Phases, UsesX, UsesY, HasX, HasY, HasRoot, Writes, Pinned, KeyOf, FlPcs
<1>6. ThreadQuiet(t)
  BY <1>4, StartStep DEF ThreadQuiet, Stepped, Awaits, Refers, Fetches, Departs, KeyOf
<1>7. \A k \in Keys : /\ Writes(th'[t], k) <=> Writes(th[t], k)
                      /\ Reads(th'[t], k) <=> Reads(th[t], k)
  BY <1>4, StartStep DEF Stepped, Writes, HasRoot, HasX, HasY, Pinned, Reads, ReadsRoot
<1>8. mo' \in SUBSET Clients /\ (t \in mo' <=> pc \in MoPcs) /\ mo' = mo
  BY <1>1, <1>2, <1>4, StartStep DEF TypeOK, MoPcs
<1> QED BY <1>1, <1>2, <1>4, <1>5, <1>6, <1>7, <1>8, QuietKeeps

LEMMA MultiOpStep ==
  ASSUME ControlOK, NEW t \in Clients, NEW pc, NEW next,
         \/ MultiOpLock(t) /\ pc = "inject_mo" /\ next = "inject_root"
         \/ MultiOpUnlock(t, pc, next) /\ pc = "inject_done" /\ next = "idle"
         \/ MultiOpUnlock(t, pc, next) /\ pc = "bg_mo" /\ next = "flush_give"
         \/ MultiOpUnlock(t, pc, next) /\ pc = "bg_fail" /\ next = "flush_pick"
  PROVE  /\ th[t].pc = pc /\ th[t].ph = "go"
         /\ Stepped(th', t, next, "go", th[t].todo, th[t].x, th[t].y, th[t].fl, th[t].mod)
<1>1. next \in Pcs
  BY PinTable DEF Pcs
<1> QED BY <1>1, GotoSteps, ControlParts DEF MultiOpLock, MultiOpUnlock, At

LEMMA MultiOpKeeps ==
  ASSUME ControlOK, CacheTableAssumption, NEW t \in Clients, NEW pc, NEW next,
         \/ MultiOpLock(t) /\ pc = "inject_mo" /\ next = "inject_root"
         \/ MultiOpUnlock(t, pc, next) /\ pc = "inject_done" /\ next = "idle"
         \/ MultiOpUnlock(t, pc, next) /\ pc = "bg_mo" /\ next = "flush_give"
         \/ MultiOpUnlock(t, pc, next) /\ pc = "bg_fail" /\ next = "flush_pick"
  PROVE  ControlOK'
<1>1. TypeOK /\ ThreadOK(th[t]) /\ closing = "no" /\ (t \in mo <=> th[t].pc \in MoPcs)
  BY ControlParts, ThreadParts, NotClosing, MultiOpStep
<1>2. UNCHANGED <<pair, lock, dm, disk, ckpt, plist, cp, ev, evictions, closing, injected, before>>
  BY DEF MultiOpLock, MultiOpUnlock, OnlyThread, history
<1>4. /\ th[t].pc = pc /\ th[t].ph = "go"
      /\ Stepped(th', t, next, "go", th[t].todo, th[t].x, th[t].y, th[t].fl, th[t].mod)
      /\ \/ pc = "inject_mo" /\ next = "inject_root"
         \/ pc = "inject_done" /\ next = "idle"
         \/ pc = "bg_mo" /\ next = "flush_give"
         \/ pc = "bg_fail" /\ next = "flush_pick"
  BY MultiOpStep
<1>5. ThreadOK(th'[t])
  BY <1>1, <1>4 DEF Stepped, ThreadOK, Phases, UsesX, UsesY, HasX, HasY, HasRoot, Writes, Pinned, KeyOf,
                    FlPcs
<1>6. ThreadQuiet(t)
  BY <1>4 DEF ThreadQuiet, Stepped, Awaits, Refers, Fetches, Departs, KeyOf
<1>7. \A k \in Keys : /\ Writes(th'[t], k) <=> Writes(th[t], k)
                      /\ Reads(th'[t], k) <=> Reads(th[t], k)
  BY <1>4 DEF Stepped, Writes, HasRoot, HasX, HasY, Pinned, Reads, ReadsRoot
<1>8. /\ mo' \in SUBSET Clients /\ (t \in mo' <=> next \in MoPcs)
      /\ \A u \in Clients : u # t => (u \in mo' <=> u \in mo)
  <2>1. mo \in SUBSET Clients
    BY <1>1 DEF TypeOK
  <2>2. CASE pc = "inject_mo"
    <3>1. mo' = mo \cup {t}
      BY <2>2 DEF MultiOpLock, MultiOpUnlock
    <3> QED BY <2>1, <2>2, <3>1, <1>4 DEF MoPcs
  <2>3. CASE pc # "inject_mo"
    <3>1. mo' = mo \ {t}
      BY <2>3 DEF MultiOpLock, MultiOpUnlock
    <3> QED BY <2>1, <2>3, <3>1, <1>4 DEF MoPcs
  <2> QED BY <2>2, <2>3
<1> QED BY <1>1, <1>2, <1>4, <1>5, <1>6, <1>7, <1>8, QuietKeeps

\* A thread at s names a node it reaches from the locked root.
LEMMA KidsTyped ==
  ASSUME ControlOK, CacheTableAssumption, NEW t \in Clients,
         HasRoot(th[t]) \/ ReadsRoot(th[t]), ~Fetches(th[t], Root)
  PROVE  InMemory(Root) /\ Kids \in SUBSET Leaves /\ Kids = Val(Root).kids
<1>1. Root \in Keys
  BY DEF Keys
<1>2. InMemory(Root)
  BY <1>1, WrittenThere, ReadThere DEF Writes, Reads
<1> QED BY <1>1, <1>2, ValTyped, ControlParts DEF Kids

\* From the locked root a thread goes to a child.
LEMMA PickStep ==
  ASSUME ControlOK, CacheTableAssumption, NEW t \in Clients, NEW pc, NEW next,
         \/ pc = "flush_pick" /\ next = "flush_child"
         \/ pc = "query_pick" /\ next = "query_child",
         At(t, pc), NEW x \in Kids, th' = [Goto(t, next) EXCEPT ![t].x = x]
  PROVE  /\ th[t].pc = pc /\ th[t].ph = "go" /\ x \in Leaves /\ InMemory(Root)
         /\ Stepped(th', t, next, "go", th[t].todo, x, th[t].y, th[t].fl, th[t].mod)
<1>1. th[t].pc = pc /\ th[t].ph = "go" /\ next \in Pcs
  BY PinTable DEF At, Pcs
<1>2. InMemory(Root) /\ x \in Leaves /\ x \in Keys
  <2>1. HasRoot(th[t]) \/ ReadsRoot(th[t])
    BY <1>1 DEF HasRoot, ReadsRoot
  <2>2. ~Fetches(th[t], Root)
    BY <1>1 DEF Fetches
  <2> QED BY <2>1, <2>2, KidsTyped DEF Keys
<1>3. PICK g : g = Goto(t, next)
  OBVIOUS
<1>4. Stepped(g, t, next, "go", th[t].todo, th[t].x, th[t].y, th[t].fl, th[t].mod)
  BY <1>1, <1>3, GotoSteps, ControlParts
<1>5. th' = [g EXCEPT ![t].x = x]
  BY <1>3
<1>6. Stepped(th', t, next, "go", th[t].todo, x, th[t].y, th[t].fl, th[t].mod)
  BY ONLY t \in Clients, <1>2, <1>4, <1>5, SteppedX
<1> QED BY <1>1, <1>2, <1>6

LEMMA PickKeeps ==
  ASSUME ControlOK, CacheTableAssumption, NEW t \in Clients, NEW pc, NEW next,
         \/ pc = "flush_pick" /\ next = "flush_child"
         \/ pc = "query_pick" /\ next = "query_child",
         At(t, pc), NEW x \in Kids, th' = [Goto(t, next) EXCEPT ![t].x = x],
         UNCHANGED mo, OnlyThread
  PROVE  ControlOK'
<1>1. TypeOK /\ ThreadOK(th[t]) /\ closing = "no" /\ (t \in mo <=> th[t].pc \in MoPcs)
  BY ControlParts, ThreadParts, NotClosing, PickStep
<1>2. UNCHANGED <<pair, lock, dm, disk, ckpt, plist, cp, ev, evictions, closing, injected, before>>
  BY DEF OnlyThread, history
<1>4. /\ th[t].pc = pc /\ th[t].ph = "go" /\ x \in Leaves
      /\ Stepped(th', t, next, "go", th[t].todo, x, th[t].y, th[t].fl, th[t].mod)
  BY PickStep
<1>5. \A k \in Keys : /\ Writes(th'[t], k) <=> Writes(th[t], k)
                      /\ Reads(th'[t], k) <=> Reads(th[t], k)
  BY <1>4 DEF Stepped, Writes, HasRoot, HasX, HasY, Pinned, Reads, ReadsRoot
<1>6. ThreadOK(th'[t])
  <2>1. /\ th'[t].ph \in Phases(th'[t].pc)
        /\ UsesX(th'[t]) => th'[t].x \in Leaves
        /\ UsesY(th'[t]) => th'[t].y \in Leaves /\ th'[t].y # th'[t].x
        /\ th'[t].fl # {} => th'[t].pc \in FlPcs
    BY <1>1, <1>4 DEF Stepped, ThreadOK, Phases, UsesX, UsesY, HasX, HasY, Pinned, FlPcs
  <2>2. th'[t].todo = {} /\ ~Pinned(th'[t]) /\ th'[t].ph = "go"
    BY <1>1, <1>4 DEF Stepped, ThreadOK, Pinned
  <2>3. \A j \in th'[t].mod : Writes(th'[t], j)
    BY <1>1, <1>4, <1>5, ThreadsTyped DEF Stepped, ThreadOK
  <2> QED BY <2>1, <2>2, <2>3 DEF ThreadOK
<1>7. ThreadQuiet(t)
  BY <1>4 DEF ThreadQuiet, Stepped, Awaits, Refers, Fetches, Departs, KeyOf
<1>8. mo' \in SUBSET Clients /\ (t \in mo' <=> next \in MoPcs) /\ mo' = mo
  BY <1>1, <1>4 DEF TypeOK, MoPcs
<1> QED BY <1>1, <1>2, <1>4, <1>5, <1>6, <1>7, <1>8, QuietKeeps

LEMMA run_cleanerStep ==
  ASSUME ControlOK, NEW t \in Clients, run_cleaner(t)
  PROVE  /\ th[t].pc = "clean_pick" /\ th[t].ph = "go"
         /\ \/ /\ pair[Root].st = "table" /\ lock[Root].w = {} /\ lock[Root].r = {}
               /\ lock' = Lock(Root, t, "w")
               /\ Stepped(th', t, "clean_pick", "bits", th[t].todo, th[t].x, th[t].y, th[t].fl,
                          th[t].mod)
            \/ /\ lock' = lock
               /\ Stepped(th', t, "idle", "go", th[t].todo, th[t].x, th[t].y, th[t].fl, th[t].mod)
<1>1. "idle" \in Pcs
  BY DEF Pcs
<1> QED BY <1>1, PhaseSteps, GotoSteps, ControlParts DEF run_cleaner, At, users

LEMMA run_cleanerKeeps ==
  ASSUME ControlOK, CacheTableAssumption, NEW t \in Clients, run_cleaner(t)
  PROVE  ControlOK'
<1>1. UNCHANGED <<pair, dm, disk, ckpt, plist, cp, ev, mo, evictions, closing, injected, before>>
  BY DEF run_cleaner, history
<1>2. CASE /\ pair[Root].st = "table" /\ lock[Root].w = {} /\ lock[Root].r = {}
           /\ lock' = Lock(Root, t, "w")
           /\ Stepped(th', t, "clean_pick", "bits", th[t].todo, th[t].x, th[t].y, th[t].fl,
                      th[t].mod)
  <2>1. Root \in Keys /\ Root = KeyOf(th[t])
    BY run_cleanerStep DEF Keys, KeyOf
  <2> QED BY <1>1, <1>2, <2>1, run_cleanerStep, GrantedKeeps
<1>3. CASE /\ lock' = lock
           /\ Stepped(th', t, "idle", "go", th[t].todo, th[t].x, th[t].y, th[t].fl, th[t].mod)
  <2>1. TypeOK /\ ThreadOK(th[t]) /\ closing = "no" /\ (t \in mo <=> th[t].pc \in MoPcs)
    BY ControlParts, ThreadParts, NotClosing, run_cleanerStep
  <2>2. ThreadOK(th'[t])
    BY <2>1, <1>3, run_cleanerStep
       DEF Stepped, ThreadOK, Phases, UsesX, UsesY, HasX, HasY, HasRoot, Writes, Pinned, KeyOf, FlPcs
  <2>3. ThreadQuiet(t)
    BY <1>3, run_cleanerStep DEF ThreadQuiet, Stepped, Awaits, Refers, Fetches, Departs, KeyOf
  <2>4. \A k \in Keys : /\ Writes(th'[t], k) <=> Writes(th[t], k)
                        /\ Reads(th'[t], k) <=> Reads(th[t], k)
    BY <1>3, run_cleanerStep DEF Stepped, Writes, HasRoot, HasX, HasY, Pinned, Reads, ReadsRoot
  <2>5. mo' \in SUBSET Clients /\ (t \in mo' <=> "idle" \in MoPcs) /\ mo' = mo
    BY <2>1, <1>1, run_cleanerStep DEF TypeOK, MoPcs
  <2> QED BY <1>1, <1>3, <2>1, <2>2, <2>3, <2>4, <2>5, QuietKeeps
<1> QED BY <1>2, <1>3, run_cleanerStep

\* ----------------------------------------------------------------- unlocking

\* The unlocks of the operations: at pc the pair k, and next comes next.
UnpinIs(t, pc, k, next) ==
  \/ pc = "bg_detach" /\ k = th[t].x /\ next = "bg_fail"
  \/ pc = "bg_unpin" /\ k = Root /\ next = "bg_mo"
  \/ pc = "inject_unpin" /\ k = Root /\ next = "inject_done"
  \/ pc = "flush_unpin" /\ k = Root /\ next = "flush_give"
  \/ pc = "unpin_both" /\ k = Root /\ next = "unpin_x"
  \/ pc = "unpin_x" /\ k = th[t].x /\ next = "idle"
  \/ pc = "split_unpin" /\ k = Root /\ next = "split_unpin_y"
  \/ pc = "split_unpin_y" /\ k = th[t].y /\ next = "unpin_x"
  \/ pc = "query_unpin" /\ k = th[t].x /\ next = "query_unpin_root"
  \/ pc = "query_unpin_root" /\ k = Root /\ next = "idle"

LEMMA UnpinStep ==
  ASSUME ControlOK, NEW t \in Clients, NEW pc, NEW k, NEW next, UnpinIs(t, pc, k, next),
         At(t, pc), Unpin(t, k, next)
  PROVE  /\ th[t].pc = pc /\ th[t].ph = "go" /\ k \in Keys
         /\ Stepped(th', t, next, "go", th[t].todo, th[t].x, th[t].y, th[t].fl, th[t].mod \ {k})
<1>1. th[t].pc = pc /\ th[t].ph = "go" /\ next \in Pcs
  BY DEF At, Pcs, UnpinIs
<1>2. k \in Keys
  BY ThreadsTyped, ControlParts DEF UnpinIs, Keys
<1>3. PICK g : g = Goto(t, next)
  OBVIOUS
<1>4. Stepped(g, t, next, "go", th[t].todo, th[t].x, th[t].y, th[t].fl, th[t].mod)
  BY <1>1, <1>3, GotoSteps, ControlParts
<1>5. th' = [g EXCEPT ![t].mod = @ \ {k}]
  BY <1>3 DEF Unpin
<1> QED BY <1>1, <1>2, <1>4, <1>5, SteppedLess

LEMMA UnpinLocks ==
  ASSUME NEW t \in Clients, NEW pc, NEW k, NEW next, UnpinIs(t, pc, k, next), NEW mod,
         CacheTableAssumption, ThreadOK(th[t]), th[t].pc = pc, th[t].ph = "go",
         Stepped(th', t, next, "go", th[t].todo, th[t].x, th[t].y, th[t].fl, mod)
  PROVE  /\ \A j \in Keys : /\ Writes(th'[t], j) <=> Writes(th[t], j) /\ j \notin {k}
                            /\ Reads(th'[t], j) <=> Reads(th[t], j) /\ j \notin {k}
         /\ Writes(th[t], k) \/ Reads(th[t], k)
<1>1. /\ UsesX(th[t]) => th[t].x # Root
      /\ UsesY(th[t]) => th[t].y # Root /\ th[t].y # th[t].x
  BY DEF ThreadOK, CacheTableAssumption
<1> QED BY <1>1 DEF UnpinIs, Stepped, Writes, HasRoot, HasX, HasY, Pinned, Reads, ReadsRoot, UsesX, UsesY

\* What the owner dirtied is dirty from now on.
LEMMA DirtiedKept ==
  ASSUME ControlOK, CacheTableAssumption, NEW t \in Clients, NEW k \in Keys, th[t].ph = "go",
         pair' = [pair EXCEPT ![k].dirty = @ \/ k \in th[t].mod]
  PROVE  pair' \in [Keys -> Pairs] /\ \A j \in Keys : PairKept(t, j)
<1>1. pair \in [Keys -> Pairs] /\ ThreadOK(th[t])
  BY ControlParts, ThreadParts DEF TypeOK
<1>2. /\ pair' \in [Keys -> Pairs] /\ \A j \in Keys : j # k => pair'[j] = pair[j]
      /\ pair'[k].st = pair[k].st /\ pair'[k].pend = pair[k].pend /\ pair'[k].clone = pair[k].clone
      /\ pair'[k].val = pair[k].val
      /\ pair'[k].dirty = (pair[k].dirty \/ k \in th[t].mod)
  BY ONLY <1>1, k \in Keys, pair' = [pair EXCEPT ![k].dirty = @ \/ k \in th[t].mod] DEF Pairs
<1>3. \A j \in Keys : pair[j].val = <<>> => ~pair[j].dirty
  BY ControlParts DEF PairsOK, PairValue
<1>4. CASE k \in th[t].mod
  <2>1. Writes(th[t], k) /\ ~Fetches(th[t], k)
    BY <1>1, <1>4 DEF ThreadOK, Fetches
  <2>2. pair[k].val # <<>>
    BY <2>1, WrittenThere DEF InMemory
  <2> QED BY <1>2, <1>3, <2>1, <2>2 DEF PairKept
<1>5. CASE k \notin th[t].mod
  <2>1. pair'[k] = pair[k]
    BY <1>1, <1>2, <1>5 DEF Pairs
  <2> QED BY <1>2, <1>3, <2>1 DEF PairKept
<1> QED BY <1>4, <1>5

LEMMA UnpinKeeps ==
  ASSUME ControlOK, CacheTableAssumption, NEW t \in Clients, NEW pc, NEW k, NEW next,
         UnpinIs(t, pc, k, next), At(t, pc), Unpin(t, k, next)
  PROVE  ControlOK'
<1>1. /\ th[t].pc = pc /\ th[t].ph = "go" /\ k \in Keys
      /\ Stepped(th', t, next, "go", th[t].todo, th[t].x, th[t].y, th[t].fl, th[t].mod \ {k})
  BY UnpinStep
<1>2. TypeOK /\ LocksOK /\ ThreadOK(th[t]) /\ closing = "no" /\ (t \in mo <=> th[t].pc \in MoPcs)
      /\ t \in Agents
  <2>1. th[t].pc # "idle"
    BY <1>1 DEF UnpinIs
  <2> QED BY <2>1, ControlParts, ThreadParts, NotClosing DEF Agents
<1>3. LocksMove(t, {}, {}, {k})
  BY <1>1, <1>2, LocksReleased DEF Unpin
<1>4. \A j \in Keys : /\ Writes(th'[t], j) <=> Writes(th[t], j) /\ j \notin {k}
                      /\ Reads(th'[t], j) <=> Reads(th[t], j) /\ j \notin {k}
  <2>1. PICK mod : mod = th[t].mod \ {k}
    OBVIOUS
  <2>2. Stepped(th', t, next, "go", th[t].todo, th[t].x, th[t].y, th[t].fl, mod)
    BY <1>1, <2>1
  <2> QED BY <1>1, <1>2, <2>2, UnpinLocks
<1>5. ThreadOK(th'[t])
  <2>1. /\ th'[t].ph \in Phases(th'[t].pc)
        /\ UsesX(th'[t]) => th'[t].x \in Leaves
        /\ UsesY(th'[t]) => th'[t].y \in Leaves /\ th'[t].y # th'[t].x
        /\ th'[t].fl # {} => th'[t].pc \in FlPcs
    BY <1>1, <1>2 DEF UnpinIs, Stepped, ThreadOK, Phases, UsesX, UsesY, HasX, HasY, Pinned, FlPcs
  <2>2. th'[t].todo = {} /\ ~Pinned(th'[t]) /\ th'[t].ph = "go"
    BY <1>1, <1>2 DEF Stepped, ThreadOK, Pinned
  <2>3. \A j \in th'[t].mod : Writes(th'[t], j)
    BY <1>1, <1>2, <1>4, ThreadsTyped DEF Stepped, ThreadOK
  <2> QED BY <2>1, <2>2, <2>3 DEF ThreadOK
<1>6. LocalOK(t)
  <2>1. th'[t].pc \in MoPcs <=> th[t].pc \in MoPcs
    BY <1>1 DEF UnpinIs, MoPcs, Stepped
  <2>2. \A j \in Keys : /\ Writes(th'[t], j) <=> j \in {} \/ (Writes(th[t], j) /\ j \notin {k})
                        /\ Reads(th'[t], j) <=> j \in {} \/ (Reads(th[t], j) /\ j \notin {k})
    BY <1>4
  <2>3. mo' = mo
    BY DEF Unpin
  <2> QED BY ONLY ControlOK, t \in Clients, <1>3, <1>5, <2>1, <2>2, <2>3, LocalFromRecord
<1>7. ThreadQuiet(t)
  BY <1>1 DEF UnpinIs, ThreadQuiet, Stepped, Awaits, Refers, Fetches, Departs, KeyOf
<1>8. /\ th' \in [Clients -> Threads] /\ \A u \in Clients : u # t => th'[u] = th[u]
      /\ UNCHANGED <<dm, plist, cp, ev, evictions, closing, disk, ckpt, before>>
      /\ injected' \in SUBSET Tokens
  BY <1>1, <1>2 DEF Stepped, TypeOK, Unpin, history
<1>9. pair' \in [Keys -> Pairs] /\ \A j \in Keys : PairKept(t, j)
  BY <1>1, DirtiedKept DEF Unpin
<1> QED BY <1>2, <1>3, <1>6, <1>7, <1>8, <1>9, ControlStep

\* ------------------------------------------------------- changes of contents

\* What writing v as the value of a pair does.
Revalued(p, k, v) ==
  /\ p \in [Keys -> Pairs] /\ \A j \in Keys : j # k => p[j] = pair[j]
  /\ p[k].st = pair[k].st /\ p[k].dirty = pair[k].dirty /\ p[k].pend = pair[k].pend
  /\ p[k].clone = pair[k].clone /\ p[k].val = v

LEMMA NodeInVals ==
  ASSUME NEW kids \in SUBSET Leaves, NEW toks \in SUBSET Tokens
  PROVE  /\ <<Node(kids, toks)>> \in Vals /\ <<Node(kids, toks)>> # <<>>
         /\ <<Node(kids, toks)>>[1].kids = kids /\ <<Node(kids, toks)>>[1].toks = toks
BY DEF Vals, Node

LEMMA SetToksIs ==
  ASSUME TypeOK, NEW k \in Keys, InMemory(k), NEW ts \in SUBSET Tokens
  PROVE  Revalued(SetToks(k, ts), k, <<Node(Val(k).kids, ts)>>)
<1>1. pair \in [Keys -> Pairs]
  BY DEF TypeOK
<1>2. PICK v : v = <<Node(Val(k).kids, ts)>>
  OBVIOUS
<1>3. v \in Vals
  BY <1>2, NodeInVals, ValTyped
<1>4. Revalued([pair EXCEPT ![k].val = v], k, v)
  BY ONLY <1>1, <1>3, k \in Keys DEF Revalued, Pairs
<1> QED BY <1>2, <1>4 DEF SetToks

\* What a split and a merge do to the nodes.
Revalued3(p, k, v, i, w, r, z) ==
  /\ p \in [Keys -> Pairs]
  /\ \A j \in Keys : j # k /\ j # i /\ j # r => p[j] = pair[j]
  /\ \A j \in Keys : /\ p[j].st = pair[j].st /\ p[j].dirty = pair[j].dirty
                     /\ p[j].pend = pair[j].pend /\ p[j].clone = pair[j].clone
  /\ p[k].val = v /\ p[i].val = w /\ p[r].val = z

LEMMA ThreeVals ==
  ASSUME pair \in [Keys -> Pairs], NEW k \in Keys, NEW i \in Keys, NEW r \in Keys,
         k # i, k # r, i # r, NEW v \in Vals, NEW w \in Vals, NEW z \in Vals
  PROVE  Revalued3([pair EXCEPT ![k].val = v, ![i].val = w, ![r].val = z], k, v, i, w, r, z)
BY DEF Revalued3, Pairs

LEMMA TwoVals ==
  ASSUME pair \in [Keys -> Pairs], NEW k \in Keys, NEW r \in Keys, k # r,
         NEW v \in Vals, NEW z \in Vals
  PROVE  Revalued3([pair EXCEPT ![k].val = v, ![r].val = z], k, v, k, v, r, z)
BY DEF Revalued3, Pairs

LEMMA SplitIs ==
  ASSUME TypeOK, CacheTableAssumption, NEW x \in Leaves, NEW y \in Leaves, x # y,
         InMemory(x), InMemory(y), InMemory(Root), NEW ts \in SUBSET Toks(x),
         pair' = [pair EXCEPT ![x].val = <<Node(Val(x).kids, Toks(x) \ ts)>>,
                              ![y].val = <<Node(Val(y).kids, ts)>>,
                              ![Root].val = <<Node(Kids \cup {y}, Toks(Root))>>]
  PROVE  Revalued3(pair', x, <<Node(Val(x).kids, Toks(x) \ ts)>>, y, <<Node(Val(y).kids, ts)>>,
                   Root, <<Node(Kids \cup {y}, Toks(Root))>>)
<1>1. pair \in [Keys -> Pairs] /\ x \in Keys /\ y \in Keys /\ Root \in Keys /\ x # Root /\ y # Root
  BY DEF TypeOK, Keys, CacheTableAssumption
<1>2. PICK v, w, z : /\ v = <<Node(Val(x).kids, Toks(x) \ ts)>> /\ w = <<Node(Val(y).kids, ts)>>
                     /\ z = <<Node(Kids \cup {y}, Toks(Root))>>
  OBVIOUS
<1>3. v \in Vals /\ w \in Vals /\ z \in Vals
  <2>1. /\ Val(x).kids \in SUBSET Leaves /\ Toks(x) \ ts \in SUBSET Tokens /\ ts \in SUBSET Tokens
        /\ Val(y).kids \in SUBSET Leaves /\ Kids \cup {y} \in SUBSET Leaves /\ Toks(Root) \in SUBSET Tokens
    BY <1>1, ValTyped DEF Kids
  <2> QED BY <1>2, <2>1, NodeInVals
<1>4. pair' = [pair EXCEPT ![x].val = v, ![y].val = w, ![Root].val = z]
  BY <1>2
<1>5. Revalued3([pair EXCEPT ![x].val = v, ![y].val = w, ![Root].val = z], x, v, y, w, Root, z)
  BY ONLY <1>1, <1>3, x # y, ThreeVals
<1> QED BY ONLY <1>2, <1>4, <1>5

LEMMA MergeIs ==
  ASSUME TypeOK, CacheTableAssumption, NEW x \in Leaves, NEW y \in Leaves,
         InMemory(x), InMemory(y), InMemory(Root),
         pair' = [pair EXCEPT ![x].val = <<Node(Val(x).kids, Toks(x) \cup Toks(y) \cup Toks(Root))>>,
                              ![Root].val = <<Node(Kids \ {y}, {})>>]
  PROVE  Revalued3(pair', x, <<Node(Val(x).kids, Toks(x) \cup Toks(y) \cup Toks(Root))>>,
                   x, <<Node(Val(x).kids, Toks(x) \cup Toks(y) \cup Toks(Root))>>,
                   Root, <<Node(Kids \ {y}, {})>>)
<1>1. pair \in [Keys -> Pairs] /\ x \in Keys /\ y \in Keys /\ Root \in Keys /\ x # Root
  BY DEF TypeOK, Keys, CacheTableAssumption
<1>2. PICK v, z : /\ v = <<Node(Val(x).kids, Toks(x) \cup Toks(y) \cup Toks(Root))>>
                  /\ z = <<Node(Kids \ {y}, {})>>
  OBVIOUS
<1>3. v \in Vals /\ z \in Vals
  <2>1. /\ Val(x).kids \in SUBSET Leaves /\ Toks(x) \cup Toks(y) \cup Toks(Root) \in SUBSET Tokens
        /\ Kids \ {y} \in SUBSET Leaves /\ {} \in SUBSET Tokens
    BY <1>1, ValTyped DEF Kids
  <2> QED BY <1>2, <2>1, NodeInVals
<1>4. pair' = [pair EXCEPT ![x].val = v, ![Root].val = z]
  BY <1>2
<1>5. Revalued3([pair EXCEPT ![x].val = v, ![Root].val = z], x, v, x, v, Root, z)
  BY ONLY <1>1, <1>3, TwoVals
<1> QED BY ONLY <1>2, <1>4, <1>5

\* Where the steps that change the contents of nodes lead.
ContentIs(pc, next) ==
  \/ pc = "inject_put" /\ next \in {"inject_unpin", "bg_child"}
  \/ pc = "bg_detach" /\ next = "bg_unpin"
  \/ pc = "flush_detach" /\ next \in {"flush_unpin", "flush_give_both"}
  \/ pc = "flush_give" /\ next = "unpin_x"
  \/ pc = "flush_give_both" /\ next \in {"unpin_both", "split_put", "merge_unpin"}
  \/ pc = "split_do" /\ next = "split_unpin"
  \/ pc = "merge_do" /\ next = "merge_remove"

LEMMA ContentKeeps ==
  ASSUME ControlOK, CacheTableAssumption, NEW t \in Clients, NEW pc, NEW next,
         At(t, pc), ContentIs(pc, next), NEW x, NEW fl, NEW mod,
         Stepped(th', t, next, "go", th[t].todo, x, th[t].y, fl, mod),
         IF next = "bg_child" THEN x \in Leaves ELSE x = th[t].x,
         fl = {} \/ next \in FlPcs,
         \A k \in mod : Writes(th[t], k),
         pair' \in [Keys -> Pairs], \A k \in Keys : PairKept(t, k),
         injected' \in SUBSET Tokens,
         UNCHANGED <<lock, dm, disk, ckpt, plist, cp, ev, mo, evictions, closing, before>>
  PROVE  ControlOK'
<1>1. th[t].pc = pc /\ th[t].ph = "go" /\ th[t].pc # "idle"
  BY DEF At, ContentIs
<1>2. TypeOK /\ ThreadOK(th[t]) /\ closing = "no" /\ (t \in mo <=> th[t].pc \in MoPcs)
  BY <1>1, ControlParts, ThreadParts, NotClosing
<1>3. LocksMove(t, {}, {}, {})
  BY LocksKept, ControlParts DEF Agents
<1>4. \A k \in Keys : /\ Writes(th'[t], k) <=> Writes(th[t], k)
                      /\ Reads(th'[t], k) <=> Reads(th[t], k)
  BY <1>1 DEF ContentIs, Stepped, Writes, HasRoot, HasX, HasY, Pinned, Reads, ReadsRoot
<1>5. ThreadOK(th'[t])
  <2>1. /\ th'[t].ph \in Phases(th'[t].pc)
        /\ UsesX(th'[t]) => th'[t].x \in Leaves
        /\ UsesY(th'[t]) => th'[t].y \in Leaves /\ th'[t].y # th'[t].x
    <3>1. th'[t].ph \in Phases(th'[t].pc)
      BY <1>1 DEF ContentIs, Stepped, Phases
    <3>2. UsesX(th'[t]) => th'[t].x \in Leaves
      <4>1. UsesX(th[t]) => th[t].x \in Leaves
        BY <1>2 DEF ThreadOK
      <4>2. CASE next \in {"inject_unpin", "bg_child"}
        BY <1>1, <4>2 DEF ContentIs, Stepped, UsesX, HasX, Pinned
      <4>3. CASE next \notin {"inject_unpin", "bg_child"}
        <5>1. UsesX(th[t]) /\ th'[t].x = th[t].x
          BY <1>1, <4>3 DEF ContentIs, Stepped, UsesX, HasX
        <5> QED BY <4>1, <5>1
      <4> QED BY <4>2, <4>3
    <3>3. UsesY(th'[t]) => UsesY(th[t]) /\ th'[t].x = th[t].x /\ th'[t].y = th[t].y
      BY <1>1 DEF ContentIs, Stepped, UsesY, HasY, Pinned
    <3> QED BY <1>2, <3>1, <3>2, <3>3 DEF ThreadOK
  <2>2. th'[t].todo = {} /\ ~Pinned(th'[t]) /\ th'[t].ph = "go" /\ (th'[t].fl # {} => th'[t].pc \in FlPcs)
    BY <1>1, <1>2 DEF Stepped, ThreadOK, Pinned
  <2>3. \A j \in th'[t].mod : j \in Keys
    BY DEF Stepped, Threads
  <2>4. \A j \in th'[t].mod : Writes(th'[t], j)
    BY <1>4, <2>3 DEF Stepped
  <2> QED BY <2>1, <2>2, <2>4 DEF ThreadOK
<1>6. LocalOK(t)
  <2>1. th'[t].pc \in MoPcs <=> th[t].pc \in MoPcs
    BY <1>1 DEF ContentIs, MoPcs, Stepped
  <2>2. \A j \in Keys : /\ Writes(th'[t], j) <=> j \in {} \/ (Writes(th[t], j) /\ j \notin {})
                        /\ Reads(th'[t], j) <=> j \in {} \/ (Reads(th[t], j) /\ j \notin {})
    BY <1>4
  <2>3. mo' = mo
    OBVIOUS
  <2> QED BY ONLY ControlOK, t \in Clients, <1>3, <1>5, <2>1, <2>2, <2>3, LocalFromRecord
<1>7. ThreadQuiet(t)
  BY <1>1 DEF ContentIs, ThreadQuiet, Stepped, Awaits, Refers, Fetches, Departs, KeyOf
<1>8. /\ th' \in [Clients -> Threads] /\ \A u \in Clients : u # t => th'[u] = th[u]
      /\ UNCHANGED <<dm, plist, cp, ev, evictions, closing, disk, ckpt, before>>
  BY DEF Stepped
<1> QED BY <1>2, <1>3, <1>6, <1>7, <1>8, ControlStep

LEMMA RevaluedKept ==
  ASSUME ControlOK, CacheTableAssumption, NEW t \in Clients, NEW k \in Keys, NEW v, v # <<>>,
         Writes(th[t], k), InMemory(k), Revalued(pair', k, v)
  PROVE  pair' \in [Keys -> Pairs] /\ \A j \in Keys : PairKept(t, j)
BY ControlParts DEF Revalued, PairKept, InMemory, PairsOK, PairValue

\* A node a thread holds and does not fetch is in memory.
LEMMA HeldInMemory ==
  ASSUME ControlOK, CacheTableAssumption, NEW t \in Clients, NEW k \in Keys, Writes(th[t], k),
         th[t].ph = "go"
  PROVE  InMemory(k)
BY WrittenThere DEF Fetches

LEMMA ModTyped ==
  ASSUME ControlOK, NEW t \in Clients, NEW K, \A k \in K : k \in Keys /\ Writes(th[t], k)
  PROVE  /\ K \in SUBSET Keys /\ \A k \in th[t].mod \cup K : Writes(th[t], k)
BY ThreadParts, ThreadsTyped, ControlParts DEF ThreadOK

LEMMA InjectStep ==
  ASSUME ControlOK, CacheTableAssumption, NEW t \in Clients, Inject(t)
  PROVE  /\ th[t].pc = "inject_put" /\ th[t].ph = "go" /\ InMemory(Root)
         /\ \E m \in Tokens \ injected :
              /\ injected' = injected \cup {m}
              /\ Revalued(pair', Root, <<Node(Kids, Toks(Root) \cup {m})>>)
         /\ \E next, x : /\ \/ next = "inject_unpin" /\ x = th[t].x
                            \/ next = "bg_child" /\ x \in Kids
                         /\ Stepped(th', t, next, "go", th[t].todo, x, th[t].y, th[t].fl,
                                    th[t].mod \cup {Root})
<1>1. th[t].pc = "inject_put" /\ th[t].ph = "go" /\ Root \in Keys /\ TypeOK
  BY ControlParts DEF Inject, At, Keys
<1>2. Writes(th[t], Root)
  BY <1>1 DEF Writes, HasRoot
<1>3. InMemory(Root)
  BY <1>1, <1>2, HeldInMemory
<1>4. Toks(Root) \in SUBSET Tokens /\ Kids \in SUBSET Leaves /\ Kids = Val(Root).kids
  BY <1>1, <1>3, ValTyped DEF Kids
<1>5. \E m \in Tokens \ injected :
        /\ injected' = injected \cup {m}
        /\ Revalued(pair', Root, <<Node(Kids, Toks(Root) \cup {m})>>)
  <2>1. PICK m \in Tokens \ injected : /\ pair' = SetToks(Root, Toks(Root) \cup {m})
                                       /\ injected' = injected \cup {m}
    BY DEF Inject
  <2>2. Toks(Root) \cup {m} \in SUBSET Tokens
    BY <1>4, <2>1
  <2> QED BY <1>1, <1>3, <1>4, <2>1, <2>2, SetToksIs
<1>6. {Root} \in SUBSET Keys /\ "inject_unpin" \in Pcs /\ "bg_child" \in Pcs
  BY <1>1, PinTable DEF Pcs
<1>7. CASE th' = [Goto(t, "inject_unpin") EXCEPT ![t].mod = @ \cup {Root}]
  <2>1. PICK g : g = Goto(t, "inject_unpin")
    OBVIOUS
  <2>2. Stepped(g, t, "inject_unpin", "go", th[t].todo, th[t].x, th[t].y, th[t].fl, th[t].mod)
    BY <1>1, <1>6, <2>1, GotoSteps
  <2>3. th' = [g EXCEPT ![t].mod = @ \cup {Root}]
    BY <1>7, <2>1
  <2>4. Stepped(th', t, "inject_unpin", "go", th[t].todo, th[t].x, th[t].y, th[t].fl,
                th[t].mod \cup {Root})
    BY ONLY t \in Clients, <1>6, <2>2, <2>3, SteppedMore
  <2> QED BY <1>1, <1>3, <1>5, <2>4
<1>8. ASSUME NEW x \in Kids,
             th' = [Goto(t, "bg_child") EXCEPT ![t].mod = @ \cup {Root}, ![t].x = x]
      PROVE  Stepped(th', t, "bg_child", "go", th[t].todo, x, th[t].y, th[t].fl,
                     th[t].mod \cup {Root})
  <2>1. PICK g : g = Goto(t, "bg_child")
    OBVIOUS
  <2>2. Stepped(g, t, "bg_child", "go", th[t].todo, th[t].x, th[t].y, th[t].fl, th[t].mod)
    BY <1>1, <1>6, <2>1, GotoSteps
  <2>3. th' = [g EXCEPT ![t].mod = @ \cup {Root}, ![t].x = x]
    BY <1>8, <2>1
  <2>4. x \in Keys
    BY <1>4 DEF Keys
  <2> QED BY ONLY t \in Clients, <1>6, <2>2, <2>3, <2>4, SteppedMoreX
<1>9. \/ th' = [Goto(t, "inject_unpin") EXCEPT ![t].mod = @ \cup {Root}]
      \/ \E x \in Kids : th' = [Goto(t, "bg_child") EXCEPT ![t].mod = @ \cup {Root}, ![t].x = x]
  BY DEF Inject
<1> QED BY <1>1, <1>3, <1>5, <1>7, <1>8, <1>9

LEMMA InjectKeeps ==
  ASSUME ControlOK, CacheTableAssumption, NEW t \in Clients, Inject(t)
  PROVE  ControlOK'
<1>1. /\ th[t].pc = "inject_put" /\ th[t].ph = "go" /\ InMemory(Root) /\ Root \in Keys
      /\ ThreadOK(th[t]) /\ TypeOK
  BY InjectStep, ThreadParts, ControlParts DEF Keys
<1>2. PICK m \in Tokens \ injected :
        /\ injected' = injected \cup {m}
        /\ Revalued(pair', Root, <<Node(Kids, Toks(Root) \cup {m})>>)
  BY InjectStep
<1>3. PICK next, x : /\ \/ next = "inject_unpin" /\ x = th[t].x
                        \/ next = "bg_child" /\ x \in Kids
                     /\ Stepped(th', t, next, "go", th[t].todo, x, th[t].y, th[t].fl,
                                th[t].mod \cup {Root})
  BY InjectStep
<1>4. Writes(th[t], Root)
  BY <1>1 DEF Writes, HasRoot
<1>5. Kids \in SUBSET Leaves
  BY <1>1, ValTyped DEF Kids
<1>6. pair' \in [Keys -> Pairs] /\ \A j \in Keys : PairKept(t, j)
  <2>1. PICK v : v = <<Node(Kids, Toks(Root) \cup {m})>>
    OBVIOUS
  <2>2. v # <<>>
    BY <2>1
  <2> QED BY <1>1, <1>2, <1>4, <2>1, <2>2, RevaluedKept
<1>7. \A k \in th[t].mod \cup {Root} : Writes(th[t], k)
  BY <1>1, <1>4 DEF ThreadOK
<1>8. injected' \in SUBSET Tokens /\ th[t].fl = {}
  BY <1>1, <1>2 DEF TypeOK, ThreadOK, FlPcs
<1>9. UNCHANGED <<lock, dm, disk, ckpt, plist, cp, ev, mo, evictions, closing, before>>
  BY DEF Inject, OnlyNodes
<1>10. At(t, "inject_put") /\ ContentIs("inject_put", next)
       /\ (IF next = "bg_child" THEN x \in Leaves ELSE x = th[t].x)
  BY <1>1, <1>3, <1>5 DEF At, ContentIs
<1> QED BY <1>3, <1>6, <1>7, <1>8, <1>9, <1>10, ContentKeeps

LEMMA DetachStep ==
  ASSUME ControlOK, CacheTableAssumption, NEW t \in Clients, NEW pc, NEW next,
         At(t, pc), ContentIs(pc, next), pc \in {"bg_detach", "flush_detach"}, Detach(t, next)
  PROVE  /\ th[t].pc = pc /\ th[t].ph = "go" /\ InMemory(Root) /\ Writes(th[t], Root)
         /\ Toks(Root) \in SUBSET Tokens
         /\ Revalued(pair', Root, <<Node(Kids, {})>>)
         /\ Stepped(th', t, next, "go", th[t].todo, th[t].x, th[t].y, Toks(Root),
                    th[t].mod \cup {Root})
<1>1. th[t].pc = pc /\ th[t].ph = "go" /\ Root \in Keys /\ TypeOK
  BY ControlParts DEF At, Keys
<1>2. Writes(th[t], Root)
  BY <1>1 DEF Writes, HasRoot
<1>3. InMemory(Root)
  BY <1>1, <1>2, HeldInMemory
<1>4. Toks(Root) \in SUBSET Tokens /\ Kids = Val(Root).kids /\ {} \in SUBSET Tokens
  BY <1>1, <1>3, ValTyped DEF Kids
<1>5. Revalued(pair', Root, <<Node(Kids, {})>>)
  BY <1>1, <1>3, <1>4, SetToksIs DEF Detach
<1>6. next \in Pcs /\ {Root} \in SUBSET Keys
  BY <1>1 DEF Pcs, ContentIs
<1>7. PICK g : g = Goto(t, next)
  OBVIOUS
<1>8. Stepped(g, t, next, "go", th[t].todo, th[t].x, th[t].y, th[t].fl, th[t].mod)
  BY <1>1, <1>6, <1>7, GotoSteps
<1>9. PICK f : f = Toks(Root)
  OBVIOUS
<1>10. th' = [g EXCEPT ![t].fl = f, ![t].mod = @ \cup {Root}]
  BY <1>7, <1>9 DEF Detach
<1>11. f \in SUBSET Tokens
  BY <1>4, <1>9
<1>12. Stepped(th', t, next, "go", th[t].todo, th[t].x, th[t].y, f, th[t].mod \cup {Root})
  BY ONLY t \in Clients, <1>6, <1>8, <1>10, <1>11, SteppedFl
<1> QED BY <1>1, <1>2, <1>3, <1>4, <1>5, <1>9, <1>12

LEMMA DetachKeeps ==
  ASSUME ControlOK, CacheTableAssumption, NEW t \in Clients, NEW pc, NEW next,
         At(t, pc), ContentIs(pc, next), pc \in {"bg_detach", "flush_detach"}, Detach(t, next)
  PROVE  ControlOK'
<1>1. /\ th[t].pc = pc /\ th[t].ph = "go" /\ InMemory(Root) /\ Writes(th[t], Root) /\ Root \in Keys
      /\ Revalued(pair', Root, <<Node(Kids, {})>>)
      /\ Stepped(th', t, next, "go", th[t].todo, th[t].x, th[t].y, Toks(Root),
                 th[t].mod \cup {Root})
      /\ TypeOK /\ ThreadOK(th[t])
  BY DetachStep, ThreadParts, ControlParts DEF Keys
<1>2. pair' \in [Keys -> Pairs] /\ \A j \in Keys : PairKept(t, j)
  <2>1. PICK v : v = <<Node(Kids, {})>>
    OBVIOUS
  <2>2. v # <<>>
    BY <2>1
  <2> QED BY <1>1, <2>1, <2>2, RevaluedKept
<1>3. \A k \in th[t].mod \cup {Root} : Writes(th[t], k)
  BY <1>1 DEF ThreadOK
<1>4. next \in FlPcs /\ next # "bg_child"
  BY DEF ContentIs, FlPcs
<1>5. UNCHANGED <<lock, dm, disk, ckpt, plist, cp, ev, mo, evictions, closing, before>>
      /\ injected' \in SUBSET Tokens
  BY <1>1 DEF Detach, OnlyNodes, TypeOK
<1> QED BY <1>1, <1>2, <1>3, <1>4, <1>5, ContentKeeps

LEMMA FlushToChildStep ==
  ASSUME ControlOK, CacheTableAssumption, NEW t \in Clients, NEW pc, NEW next,
         At(t, pc), ContentIs(pc, next), pc \in {"flush_give", "flush_give_both"},
         flush_to_child(t, next)
  PROVE  LET x == th[t].x
         IN /\ th[t].pc = pc /\ th[t].ph = "go" /\ InMemory(x) /\ Writes(th[t], x) /\ x \in Leaves
            /\ Toks(x) \in SUBSET Tokens
            /\ Revalued(pair', x, <<Node(Val(x).kids, Toks(x) \cup th[t].fl)>>)
            /\ Stepped(th', t, next, "go", th[t].todo, x, th[t].y, {}, th[t].mod \cup {x})
<1> DEFINE x == th[t].x
<1>1. th[t].pc = pc /\ th[t].ph = "go" /\ TypeOK /\ ThreadOK(th[t])
  BY ControlParts, ThreadParts DEF At
<1>2. Writes(th[t], x) /\ x \in Leaves /\ x \in Keys
  BY <1>1 DEF Writes, HasX, ThreadOK, UsesX, Keys
<1>3. InMemory(x)
  BY <1>1, <1>2, HeldInMemory
<1>4. Toks(x) \cup th[t].fl \in SUBSET Tokens /\ Toks(x) \in SUBSET Tokens
  BY <1>1, <1>2, <1>3, ValTyped, ThreadsTyped
<1>5. Revalued(pair', x, <<Node(Val(x).kids, Toks(x) \cup th[t].fl)>>)
  BY <1>1, <1>2, <1>3, <1>4, SetToksIs DEF flush_to_child
<1>6. next \in Pcs /\ {x} \in SUBSET Keys /\ {} \in SUBSET Tokens
  BY <1>1, <1>2, PinTable DEF Pcs, ContentIs
<1>7. PICK g : g = Goto(t, next)
  OBVIOUS
<1>8. Stepped(g, t, next, "go", th[t].todo, th[t].x, th[t].y, th[t].fl, th[t].mod)
  BY <1>1, <1>6, <1>7, GotoSteps
<1>9. th' = [g EXCEPT ![t].fl = {}, ![t].mod = @ \cup {x}]
  BY <1>7 DEF flush_to_child
<1>10. Stepped(th', t, next, "go", th[t].todo, th[t].x, th[t].y, {}, th[t].mod \cup {x})
  BY ONLY t \in Clients, <1>6, <1>8, <1>9, SteppedFl
<1> QED BY <1>1, <1>2, <1>3, <1>4, <1>5, <1>10

LEMMA FlushToChildKeeps ==
  ASSUME ControlOK, CacheTableAssumption, NEW t \in Clients, NEW pc, NEW next,
         At(t, pc), ContentIs(pc, next), pc \in {"flush_give", "flush_give_both"},
         flush_to_child(t, next)
  PROVE  ControlOK'
<1> DEFINE x == th[t].x
<1>1. /\ th[t].pc = pc /\ th[t].ph = "go" /\ InMemory(x) /\ Writes(th[t], x) /\ x \in Keys
      /\ Revalued(pair', x, <<Node(Val(x).kids, Toks(x) \cup th[t].fl)>>)
      /\ Stepped(th', t, next, "go", th[t].todo, x, th[t].y, {}, th[t].mod \cup {x})
      /\ TypeOK /\ ThreadOK(th[t])
  BY FlushToChildStep, ThreadParts, ControlParts DEF Keys
<1>2. pair' \in [Keys -> Pairs] /\ \A j \in Keys : PairKept(t, j)
  <2>1. PICK v : v = <<Node(Val(x).kids, Toks(x) \cup th[t].fl)>>
    OBVIOUS
  <2>2. v # <<>>
    BY <2>1
  <2> QED BY <1>1, <2>1, <2>2, RevaluedKept
<1>3. \A k \in th[t].mod \cup {x} : Writes(th[t], k)
  BY <1>1 DEF ThreadOK
<1>4. next # "bg_child"
  BY DEF ContentIs
<1>5. UNCHANGED <<lock, dm, disk, ckpt, plist, cp, ev, mo, evictions, closing, before>>
      /\ injected' \in SUBSET Tokens
  BY <1>1 DEF flush_to_child, OnlyNodes, TypeOK
<1> QED BY <1>1, <1>2, <1>3, <1>4, <1>5, ContentKeeps

\* Three pairs the thread has locked get new values.
LEMMA Revalued3Kept ==
  ASSUME ControlOK, CacheTableAssumption, NEW t \in Clients,
         NEW k \in Keys, NEW i \in Keys, NEW r \in Keys, NEW v, NEW w, NEW z,
         v # <<>>, w # <<>>, z # <<>>, InMemory(k), InMemory(i), InMemory(r),
         Writes(th[t], k), Writes(th[t], i), Writes(th[t], r), Revalued3(pair', k, v, i, w, r, z)
  PROVE  pair' \in [Keys -> Pairs] /\ \A j \in Keys : PairKept(t, j)
BY ControlParts DEF Revalued3, PairKept, InMemory, PairsOK, PairValue

\* The nodes of a split and of a merge are locked by the thread.
LEMMA ThreeLocked ==
  ASSUME ControlOK, CacheTableAssumption, NEW t \in Clients, th[t].pc \in {"split_do", "merge_do"},
         th[t].ph = "go"
  PROVE  LET x == th[t].x  y == th[t].y
         IN /\ x \in Leaves /\ y \in Leaves /\ x # y /\ x \in Keys /\ y \in Keys /\ Root \in Keys
            /\ Writes(th[t], x) /\ Writes(th[t], y) /\ Writes(th[t], Root)
            /\ InMemory(x) /\ InMemory(y) /\ InMemory(Root)
<1> DEFINE x == th[t].x  y == th[t].y
<1>1. /\ x \in Leaves /\ y \in Leaves /\ x # y /\ x \in Keys /\ y \in Keys /\ Root \in Keys
      /\ Writes(th[t], x) /\ Writes(th[t], y) /\ Writes(th[t], Root)
  BY ThreadParts DEF ThreadOK, UsesX, UsesY, HasX, HasY, HasRoot, Writes, Keys
<1> QED BY <1>1, HeldInMemory

\* The part of ft_split_child that divides the child.
SplitDo(t) ==
  /\ At(t, "split_do")
  /\ \E ts \in SUBSET Toks(th[t].x) :
       pair' = [pair EXCEPT ![th[t].x].val = <<Node(Val(th[t].x).kids, Toks(th[t].x) \ ts)>>,
                            ![th[t].y].val = <<Node(Val(th[t].y).kids, ts)>>,
                            ![Root].val = <<Node(Kids \cup {th[t].y}, Toks(Root))>>]
  /\ th' = [Goto(t, "split_unpin") EXCEPT ![t].mod = @ \cup {Root, th[t].x, th[t].y}]
  /\ UNCHANGED injected /\ OnlyNodes
\* The part of ft_merge_child that merges the children.
MergeDo(t) ==
  /\ At(t, "merge_do")
  /\ pair' = [pair EXCEPT ![th[t].x].val = <<Node(Val(th[t].x).kids,
                                                 Toks(th[t].x) \cup Toks(th[t].y) \cup Toks(Root))>>,
                          ![Root].val = <<Node(Kids \ {th[t].y}, {})>>]
  /\ th' = [Goto(t, "merge_remove") EXCEPT ![t].mod = @ \cup {Root, th[t].x, th[t].y}]
  /\ UNCHANGED injected /\ OnlyNodes

\* Where the thread is after either.
LEMMA ThreeStep ==
  ASSUME ControlOK, CacheTableAssumption, NEW t \in Clients, NEW pc, NEW next, At(t, pc),
         \/ pc = "split_do" /\ next = "split_unpin"
         \/ pc = "merge_do" /\ next = "merge_remove",
         th' = [Goto(t, next) EXCEPT ![t].mod = @ \cup {Root, th[t].x, th[t].y}]
  PROVE  /\ th[t].pc = pc /\ th[t].ph = "go"
         /\ Stepped(th', t, next, "go", th[t].todo, th[t].x, th[t].y, th[t].fl,
                    th[t].mod \cup {Root, th[t].x, th[t].y})
<1>1. th[t].pc = pc /\ th[t].ph = "go" /\ next \in Pcs
  BY DEF At, Pcs
<1>2. PICK K : K = {Root, th[t].x, th[t].y}
  OBVIOUS
<1>3. K \in SUBSET Keys
  BY <1>1, <1>2, ThreeLocked
<1>4. PICK g : g = Goto(t, next)
  OBVIOUS
<1>5. Stepped(g, t, next, "go", th[t].todo, th[t].x, th[t].y, th[t].fl, th[t].mod)
  BY <1>1, <1>4, GotoSteps, ControlParts
<1>6. th' = [g EXCEPT ![t].mod = @ \cup K]
  BY <1>2, <1>4
<1>7. Stepped(th', t, next, "go", th[t].todo, th[t].x, th[t].y, th[t].fl, th[t].mod \cup K)
  BY ONLY t \in Clients, <1>3, <1>5, <1>6, SteppedMore
<1> QED BY <1>1, <1>2, <1>7

LEMMA SplitDoStep ==
  ASSUME ControlOK, CacheTableAssumption, NEW t \in Clients, SplitDo(t)
  PROVE  LET x == th[t].x  y == th[t].y
         IN /\ th[t].pc = "split_do" /\ th[t].ph = "go"
            /\ \E ts \in SUBSET Toks(x) :
                 Revalued3(pair', x, <<Node(Val(x).kids, Toks(x) \ ts)>>, y, <<Node(Val(y).kids, ts)>>,
                           Root, <<Node(Kids \cup {y}, Toks(Root))>>)
            /\ Stepped(th', t, "split_unpin", "go", th[t].todo, x, y, th[t].fl,
                       th[t].mod \cup {Root, x, y})
<1> DEFINE x == th[t].x  y == th[t].y
<1>1. th[t].pc = "split_do" /\ th[t].ph = "go" /\ TypeOK /\ At(t, "split_do")
  BY ControlParts DEF SplitDo, At
<1>2. /\ x \in Leaves /\ y \in Leaves /\ x # y /\ InMemory(x) /\ InMemory(y) /\ InMemory(Root)
  BY <1>1, ThreeLocked
<1>3. \E ts \in SUBSET Toks(x) :
        Revalued3(pair', x, <<Node(Val(x).kids, Toks(x) \ ts)>>, y, <<Node(Val(y).kids, ts)>>,
                  Root, <<Node(Kids \cup {y}, Toks(Root))>>)
  BY <1>1, <1>2, SplitIs DEF SplitDo
<1>4. th' = [Goto(t, "split_unpin") EXCEPT ![t].mod = @ \cup {Root, x, y}]
  BY DEF SplitDo
<1> QED BY <1>1, <1>3, <1>4, ThreeStep

LEMMA MergeDoStep ==
  ASSUME ControlOK, CacheTableAssumption, NEW t \in Clients, MergeDo(t)
  PROVE  LET x == th[t].x  y == th[t].y
         IN /\ th[t].pc = "merge_do" /\ th[t].ph = "go"
            /\ Revalued3(pair', x, <<Node(Val(x).kids, Toks(x) \cup Toks(y) \cup Toks(Root))>>,
                         x, <<Node(Val(x).kids, Toks(x) \cup Toks(y) \cup Toks(Root))>>,
                         Root, <<Node(Kids \ {y}, {})>>)
            /\ Stepped(th', t, "merge_remove", "go", th[t].todo, x, y, th[t].fl,
                       th[t].mod \cup {Root, x, y})
<1> DEFINE x == th[t].x  y == th[t].y
<1>1. th[t].pc = "merge_do" /\ th[t].ph = "go" /\ TypeOK /\ At(t, "merge_do")
  BY ControlParts DEF MergeDo, At
<1>2. /\ x \in Leaves /\ y \in Leaves /\ x # y /\ InMemory(x) /\ InMemory(y) /\ InMemory(Root)
  BY <1>1, ThreeLocked
<1>3. Revalued3(pair', x, <<Node(Val(x).kids, Toks(x) \cup Toks(y) \cup Toks(Root))>>,
                x, <<Node(Val(x).kids, Toks(x) \cup Toks(y) \cup Toks(Root))>>,
                Root, <<Node(Kids \ {y}, {})>>)
  BY <1>1, <1>2, MergeIs DEF MergeDo
<1>4. th' = [Goto(t, "merge_remove") EXCEPT ![t].mod = @ \cup {Root, x, y}]
  BY DEF MergeDo
<1> QED BY <1>1, <1>3, <1>4, ThreeStep

LEMMA SplitDoKeeps ==
  ASSUME ControlOK, CacheTableAssumption, NEW t \in Clients, SplitDo(t)
  PROVE  ControlOK'
<1> DEFINE x == th[t].x  y == th[t].y
<1>1. /\ th[t].pc = "split_do" /\ th[t].ph = "go" /\ ThreadOK(th[t]) /\ TypeOK
      /\ Stepped(th', t, "split_unpin", "go", th[t].todo, x, y, th[t].fl,
                 th[t].mod \cup {Root, x, y})
  BY SplitDoStep, ThreadParts, ControlParts
<1>2. /\ x \in Keys /\ y \in Keys /\ Root \in Keys
      /\ Writes(th[t], x) /\ Writes(th[t], y) /\ Writes(th[t], Root)
      /\ InMemory(x) /\ InMemory(y) /\ InMemory(Root)
  BY <1>1, ThreeLocked
<1>3. pair' \in [Keys -> Pairs] /\ \A j \in Keys : PairKept(t, j)
  <2>1. PICK ts \in SUBSET Toks(x) :
          Revalued3(pair', x, <<Node(Val(x).kids, Toks(x) \ ts)>>, y, <<Node(Val(y).kids, ts)>>,
                    Root, <<Node(Kids \cup {y}, Toks(Root))>>)
    BY SplitDoStep
  <2>2. PICK v, w, z : /\ v = <<Node(Val(x).kids, Toks(x) \ ts)>> /\ w = <<Node(Val(y).kids, ts)>>
                       /\ z = <<Node(Kids \cup {y}, Toks(Root))>>
    OBVIOUS
  <2>3. v # <<>> /\ w # <<>> /\ z # <<>>
    BY <2>2
  <2>4. Revalued3(pair', x, v, y, w, Root, z)
    BY <2>1, <2>2
  <2> QED BY ONLY ControlOK, CacheTableAssumption, t \in Clients, <1>2, <2>3, <2>4, Revalued3Kept
<1>4. \A k \in th[t].mod \cup {Root, x, y} : Writes(th[t], k)
  BY <1>1, <1>2 DEF ThreadOK
<1>5. /\ UNCHANGED <<lock, dm, disk, ckpt, plist, cp, ev, mo, evictions, closing, before>>
      /\ injected' \in SUBSET Tokens /\ th[t].fl = {} /\ At(t, "split_do")
  BY <1>1 DEF SplitDo, OnlyNodes, TypeOK, ThreadOK, FlPcs
<1>6. ContentIs("split_do", "split_unpin")
  BY DEF ContentIs
<1> QED BY <1>1, <1>3, <1>4, <1>5, <1>6, ContentKeeps

LEMMA MergeDoKeeps ==
  ASSUME ControlOK, CacheTableAssumption, NEW t \in Clients, MergeDo(t)
  PROVE  ControlOK'
<1> DEFINE x == th[t].x  y == th[t].y
<1>1. /\ th[t].pc = "merge_do" /\ th[t].ph = "go" /\ ThreadOK(th[t]) /\ TypeOK
      /\ Stepped(th', t, "merge_remove", "go", th[t].todo, x, y, th[t].fl,
                 th[t].mod \cup {Root, x, y})
  BY MergeDoStep, ThreadParts, ControlParts
<1>2. /\ x \in Keys /\ y \in Keys /\ Root \in Keys
      /\ Writes(th[t], x) /\ Writes(th[t], y) /\ Writes(th[t], Root)
      /\ InMemory(x) /\ InMemory(y) /\ InMemory(Root)
  BY <1>1, ThreeLocked
<1>3. pair' \in [Keys -> Pairs] /\ \A j \in Keys : PairKept(t, j)
  <2>1. PICK v, z : /\ v = <<Node(Val(x).kids, Toks(x) \cup Toks(y) \cup Toks(Root))>>
                    /\ z = <<Node(Kids \ {y}, {})>>
    OBVIOUS
  <2>2. v # <<>> /\ z # <<>>
    BY <2>1
  <2>3. Revalued3(pair', x, v, x, v, Root, z)
    BY <2>1, MergeDoStep
  <2> QED BY ONLY ControlOK, CacheTableAssumption, t \in Clients, <1>2, <2>2, <2>3, Revalued3Kept
<1>4. \A k \in th[t].mod \cup {Root, x, y} : Writes(th[t], k)
  BY <1>1, <1>2 DEF ThreadOK
<1>5. /\ UNCHANGED <<lock, dm, disk, ckpt, plist, cp, ev, mo, evictions, closing, before>>
      /\ injected' \in SUBSET Tokens /\ th[t].fl = {} /\ At(t, "merge_do")
  BY <1>1 DEF MergeDo, OnlyNodes, TypeOK, ThreadOK, FlPcs
<1>6. ContentIs("merge_do", "merge_remove")
  BY DEF ContentIs
<1> QED BY <1>1, <1>3, <1>4, <1>5, <1>6, ContentKeeps

\* Before a merge the child is unlocked, and two children are named.
MergeUnpin(t) ==
  /\ At(t, "merge_unpin")
  /\ \E a, b \in Kids :
       /\ a # b
       /\ pair' = [pair EXCEPT ![th[t].x].dirty = @ \/ th[t].x \in th[t].mod]
       /\ lock' = Unlocked(lock, {th[t].x}, t)
       /\ th' = [Goto(t, "merge_a") EXCEPT ![t].mod = @ \ {th[t].x}, ![t].x = a, ![t].y = b]
  /\ UNCHANGED <<dm, disk, ckpt, plist, cp, ev, mo, evictions, closing, history>>

LEMMA MergeUnpinStep ==
  ASSUME ControlOK, CacheTableAssumption, NEW t \in Clients, MergeUnpin(t)
  PROVE  /\ th[t].pc = "merge_unpin" /\ th[t].ph = "go" /\ th[t].x \in Leaves
         /\ InMemory(Root) /\ Kids \in SUBSET Leaves
         /\ \E a, b \in Kids :
              /\ a # b
              /\ Stepped(th', t, "merge_a", "go", th[t].todo, a, b, th[t].fl, th[t].mod \ {th[t].x})
<1>1. th[t].pc = "merge_unpin" /\ th[t].ph = "go" /\ TypeOK /\ "merge_a" \in Pcs
  BY ControlParts, PinTable DEF MergeUnpin, At, Pcs
<1>2. th[t].x \in Leaves
  BY <1>1, ThreadParts DEF ThreadOK, UsesX, HasX
<1>3. InMemory(Root) /\ Kids \in SUBSET Leaves
  BY <1>1, KidsTyped DEF HasRoot, Fetches
<1>4. PICK a \in Kids, b \in Kids :
        /\ a # b
        /\ th' = [Goto(t, "merge_a") EXCEPT ![t].mod = @ \ {th[t].x}, ![t].x = a, ![t].y = b]
  BY DEF MergeUnpin
<1>5. PICK g : g = Goto(t, "merge_a")
  OBVIOUS
<1>6. Stepped(g, t, "merge_a", "go", th[t].todo, th[t].x, th[t].y, th[t].fl, th[t].mod)
  BY <1>1, <1>5, GotoSteps
<1>7. PICK K : K = {th[t].x}
  OBVIOUS
<1>8. th' = [g EXCEPT ![t].mod = @ \ K, ![t].x = a, ![t].y = b] /\ a \in Keys /\ b \in Keys
  BY <1>3, <1>4, <1>5, <1>7 DEF Keys
<1>9. Stepped(th', t, "merge_a", "go", th[t].todo, a, b, th[t].fl, th[t].mod \ K)
  BY ONLY t \in Clients, <1>6, <1>8, SteppedLessXY
<1> QED BY <1>1, <1>2, <1>3, <1>4, <1>7, <1>9

LEMMA MergeUnpinKeeps ==
  ASSUME ControlOK, CacheTableAssumption, NEW t \in Clients, MergeUnpin(t)
  PROVE  ControlOK'
<1> DEFINE k == th[t].x
<1>1. /\ th[t].pc = "merge_unpin" /\ th[t].ph = "go" /\ k \in Leaves /\ k \in Keys /\ k # Root
      /\ Kids \in SUBSET Leaves
  BY MergeUnpinStep DEF Keys, CacheTableAssumption
<1>2. PICK a \in Kids, b \in Kids :
        /\ a # b
        /\ Stepped(th', t, "merge_a", "go", th[t].todo, a, b, th[t].fl, th[t].mod \ {k})
  BY MergeUnpinStep
<1>3. TypeOK /\ LocksOK /\ ThreadOK(th[t]) /\ closing = "no" /\ t \in Agents
  BY <1>1, ControlParts, ThreadParts, NotClosing DEF Agents
<1>4. LocksMove(t, {}, {}, {k})
  BY <1>1, <1>3, LocksReleased DEF MergeUnpin
<1>5. \A j \in Keys : /\ Writes(th'[t], j) <=> Writes(th[t], j) /\ j \notin {k}
                      /\ Reads(th'[t], j) <=> Reads(th[t], j) /\ j \notin {k}
  BY <1>1, <1>2 DEF Stepped, Writes, HasRoot, HasX, HasY, Pinned, Reads, ReadsRoot
<1>6. ThreadOK(th'[t])
  <2>1. /\ th'[t].ph \in Phases(th'[t].pc)
        /\ UsesX(th'[t]) => th'[t].x \in Leaves
        /\ UsesY(th'[t]) => th'[t].y \in Leaves /\ th'[t].y # th'[t].x
        /\ th'[t].fl # {} => th'[t].pc \in FlPcs
    BY <1>1, <1>2, <1>3 DEF Stepped, ThreadOK, Phases, UsesX, UsesY, HasX, HasY, Pinned, FlPcs
  <2>2. th'[t].todo = {} /\ ~Pinned(th'[t]) /\ th'[t].ph = "go"
    BY <1>1, <1>2, <1>3 DEF Stepped, ThreadOK, Pinned
  <2>3. \A j \in th'[t].mod : Writes(th'[t], j)
    BY <1>1, <1>2, <1>3, <1>5, ThreadsTyped DEF Stepped, ThreadOK
  <2> QED BY <2>1, <2>2, <2>3 DEF ThreadOK
<1>7. LocalOK(t)
  <2>1. th'[t].pc \in MoPcs <=> th[t].pc \in MoPcs
    BY <1>1, <1>2 DEF MoPcs, Stepped
  <2>2. \A j \in Keys : /\ Writes(th'[t], j) <=> j \in {} \/ (Writes(th[t], j) /\ j \notin {k})
                        /\ Reads(th'[t], j) <=> j \in {} \/ (Reads(th[t], j) /\ j \notin {k})
    BY <1>5
  <2>3. mo' = mo
    BY DEF MergeUnpin
  <2> QED BY ONLY ControlOK, t \in Clients, <1>4, <1>6, <2>1, <2>2, <2>3, LocalFromRecord
<1>8. ThreadQuiet(t)
  BY <1>1, <1>2 DEF ThreadQuiet, Stepped, Awaits, Refers, Fetches, Departs, KeyOf
<1>9. /\ th' \in [Clients -> Threads] /\ \A u \in Clients : u # t => th'[u] = th[u]
      /\ UNCHANGED <<dm, plist, cp, ev, evictions, closing, disk, ckpt, before>>
      /\ injected' \in SUBSET Tokens
  BY <1>2, <1>3 DEF Stepped, TypeOK, MergeUnpin, history
<1>10. pair' \in [Keys -> Pairs] /\ \A j \in Keys : PairKept(t, j)
  BY <1>1, DirtiedKept DEF MergeUnpin
<1> QED BY <1>3, <1>4, <1>7, <1>8, <1>9, <1>10, ControlStep

\* ------------------------------------------------ steps that change the pairs

PairOK(k) == PairThere(k) /\ PairValue(k) /\ PairClone(k) /\ PairPend(k)

\* A pair that the step leaves alone, but for locks that are given up.
KeyKept(k) ==
  /\ pair'[k] = pair[k] /\ dm'[k] = dm[k] /\ ev'[k] = ev[k]
  /\ (lock[k].w = {} => lock'[k].w = {}) /\ (lock[k].r = {} => lock'[k].r = {})
  /\ "rd" \in lock'[k].w <=> "rd" \in lock[k].w
  /\ (k \in plist' <=> k \in plist) /\ (AtStake(k)' <=> AtStake(k))
  /\ (cp'.ph = "clone" /\ cp'.cur = k) <=> (cp.ph = "clone" /\ cp.cur = k)
ThreadKept(u, k) ==
  /\ Fetches(th'[u], k) <=> Fetches(th[u], k)
  /\ Departs(th'[u], k) <=> Departs(th[u], k)
  /\ k \in th'[u].todo <=> k \in th[u].todo
  /\ Awaits(th'[u], k) => Awaits(th[u], k) \/ pair[k].st = "table"
  /\ Refers(th'[u], k) => Refers(th[u], k) \/ pair[k].st # "none"

LEMMA KeyUntouched ==
  ASSUME NEW k \in Keys, PairOK(k), KeyKept(k), \A u \in Clients : ThreadKept(u, k)
  PROVE  PairOK(k)'
<1>1. (Fetching(k)' <=> Fetching(k)) /\ (Leaving(k)' <=> Leaving(k)) /\ (InTodo(k)' <=> InTodo(k))
  <2>1. Fetching(k)' <=> Fetching(k)
    BY DEF Fetching, KeyKept, ThreadKept, Fetches, KeyOf
  <2>2. Leaving(k)' <=> Leaving(k)
    BY DEF Leaving, ThreadKept, Departs
  <2>3. InTodo(k)' <=> InTodo(k)
    BY DEF InTodo, ThreadKept
  <2> QED BY <2>1, <2>2, <2>3
<1>2. PairThere(k)'
  <2>1. \A u \in Clients : (Refers(th[u], k))' => pair[k].st # "none"
    BY DEF PairOK, PairThere, ThreadKept, Refers, KeyOf
  <2>2. \A u \in Clients : (Awaits(th[u], k))' => pair[k].st = "table"
    BY DEF PairOK, PairThere, ThreadKept, Awaits, KeyOf
  <2> QED BY <1>1, <2>1, <2>2 DEF PairOK, PairThere, KeyKept, NoPair
<1>3. PairValue(k)'
  BY <1>1 DEF PairOK, PairValue, KeyKept, InMemory
<1>4. PairClone(k)' /\ PairPend(k)'
  BY <1>1 DEF PairOK, PairClone, PairPend, KeyKept, InMemory
<1> QED BY <1>2, <1>3, <1>4 DEF PairOK

LEMMA PairParts ==
  ASSUME ControlOK
  PROVE  \A k \in Keys : PairOK(k)
BY ControlParts DEF PairsOK, PendOK, PairOK

\* What PendOK says besides the single pairs.
PendRest ==
  /\ plist # {} => cp.ph \notin {"idle", "done"}
  /\ cp.ph = "write" => pair[cp.cur].pend /\ pair[cp.cur].dirty
  /\ cp.ph \in {"idle", "done"} => \A k \in Keys : dm[k] # "bg"
LEMMA PendRestNow ==
  ASSUME ControlOK
  PROVE  PendRest
BY ControlParts DEF PendOK, PendRest

LEMMA Assembled ==
  ASSUME TypeOK', ThreadsOK', LocksOK', ClosingOK', \A k \in Keys : PairOK(k)', PendRest'
  PROVE  ControlOK'
<1>1. PairsOK'
  BY DEF PairsOK, PairOK
<1>2. PendOK'
  BY DEF PendOK, PairOK, PendRest
<1> QED BY <1>1, <1>2 DEF ControlOK

\* A step of thread t that does not change the checkpoint thread or the evicter.
LEMMA SpecialStep ==
  ASSUME ControlOK, CacheTableAssumption, NEW t \in Clients, closing = "no",
         th' \in [Clients -> Threads], \A u \in Clients : u # t => th'[u] = th[u],
         UNCHANGED <<cp, ev, evictions, closing, injected, before>>,
         dm' \in [Keys -> {"free", "bg", "cp"}], disk' \in [Keys -> Vals], ckpt' \in [Keys -> Vals],
         plist' \in SUBSET Keys, pair' \in [Keys -> Pairs],
         NEW aw, NEW ar, NEW rel, LocksMove(t, aw, ar, rel), LocalOK(t),
         \A k \in Keys : PairOK(k)', PendRest'
  PROVE  ControlOK'
<1>1. TypeOK'
  BY ControlParts DEF TypeOK, LocksMove, LocalOK, LockType
<1>2. ThreadsOK'
  <2>1. ASSUME NEW u \in Clients PROVE ThreadOK(th'[u]) /\ (u \in mo' <=> th'[u].pc \in MoPcs)
    BY ControlParts DEF ThreadsOK, LocalOK
  <2> QED BY <2>1 DEF ThreadsOK, ThreadOK, Phases, UsesX, UsesY, FlPcs, Writes, HasRoot, HasX,
                      HasY, Pinned, KeyOf, MoPcs
<1>3. LocksOK'
  BY LocksFollow, ControlParts DEF LocalOK
<1>4. ClosingOK'
  BY DEF ClosingOK
<1> QED BY <1>1, <1>2, <1>3, <1>4, Assembled

\* A step of another thread than the clients'.
LEMMA BackgroundStep ==
  ASSUME ControlOK, th' = th, mo' = mo, injected' = injected,
         closing' \in {"no", "jobs", "write", "closed"}, before' \in SUBSET Tokens, evictions' \in Nat,
         pair' \in [Keys -> Pairs], lock' \in [Keys -> LockType],
         dm' \in [Keys -> {"free", "bg", "cp"}], disk' \in [Keys -> Vals], ckpt' \in [Keys -> Vals],
         plist' \in SUBSET Keys,
         cp' \in [ph : {"idle", "pairs", "wait", "write", "clone", "done"}, cur : Keys, n : Nat],
         ev' \in [Keys -> {"no", "queued", "remove", "write", "write_ckpt", "written"}],
         LocksOK', ClosingOK', \A k \in Keys : PairOK(k)', PendRest'
  PROVE  ControlOK'
<1>1. TypeOK'
  BY ControlParts DEF TypeOK, LockType
<1>2. ThreadsOK'
  BY ControlParts DEF ThreadsOK, ThreadOK, Phases, UsesX, UsesY, FlPcs, Writes, HasRoot, HasX,
                      HasY, Pinned, KeyOf, MoPcs
<1> QED BY <1>1, <1>2, Assembled

LEMMA get_and_pin_nonblockingStep ==
  ASSUME ControlOK, NEW t \in Clients, get_and_pin_nonblocking(t)
  PROVE  LET k == KeyOf(th[t])
         IN /\ th[t].pc \in {"query_root", "query_child"} /\ th[t].ph = "go" /\ k \in Keys
            /\ \/ /\ pair[k].st = "none" /\ pair' = [pair EXCEPT ![k] = pair_init(<<>>, FALSE)]
                  /\ lock' = [Unlocked(lock, Held(t), t) EXCEPT ![k].w = {t}]
                  /\ Stepped(th', t, th[t].pc, "fetch_again", th[t].todo, th[t].x, th[t].y,
                             th[t].fl, th[t].mod)
               \/ /\ pair[k].st = "table" /\ pair' = pair /\ lock' = lock
                  /\ Stepped(th', t, th[t].pc, "wait", th[t].todo, th[t].x, th[t].y, th[t].fl,
                             th[t].mod)
               \/ /\ pair[k].st = "table" /\ pair' = pair /\ lock' = Unlocked(lock, Held(t), t)
                  /\ Stepped(th', t, th[t].pc, "ref", th[t].todo, th[t].x, th[t].y, th[t].fl,
                             th[t].mod)
<1>1. /\ th[t].pc \in {"query_root", "query_child"} /\ th[t].ph = "go" /\ Key(t) = KeyOf(th[t])
  BY PinCases, KeyIsKeyOf DEF PinIs, get_and_pin_nonblocking
<1> QED BY <1>1, KeyTyped, PhaseSteps, ControlParts DEF get_and_pin_nonblocking

\* What a query holds is known to its record, and the unlockers give it all up.
LEMMA HeldIs ==
  ASSUME ControlOK, NEW t \in Clients, th[t].pc \in {"query_root", "query_child"}, th[t].ph = "go"
  PROVE  /\ Held(t) \in SUBSET Keys
         /\ \A j \in Keys : /\ ~Writes(th[t], j)
                            /\ Reads(th[t], j) => j \in Held(t)
<1>1. \A j \in Keys : ~Writes(th[t], j)
  BY DEF Writes, HasRoot, HasX, HasY, Pinned
<1> QED BY <1>1, ThreadParts DEF Held

LEMMA RefKeeps ==
  ASSUME ControlOK, CacheTableAssumption, NEW t \in Clients,
         th[t].pc \in {"query_root", "query_child"}, th[t].ph = "go",
         pair[KeyOf(th[t])].st = "table", lock' = Unlocked(lock, Held(t), t),
         Stepped(th', t, th[t].pc, "ref", th[t].todo, th[t].x, th[t].y, th[t].fl, th[t].mod),
         UNCHANGED <<pair, dm, disk, ckpt, plist, cp, ev, mo, evictions, closing, injected, before>>
  PROVE  ControlOK'
<1>1. TypeOK /\ LocksOK /\ ThreadOK(th[t]) /\ closing = "no" /\ t \in Agents
  BY ControlParts, ThreadParts, NotClosing DEF Agents
<1>2. PICK rel : rel = Held(t)
  OBVIOUS
<1>3. rel \in SUBSET Keys /\ lock' = Unlocked(lock, rel, t)
  BY <1>2, HeldIs
<1>4. LocksMove(t, {}, {}, rel)
  BY <1>1, <1>3, LocksReleased
<1>5. \A j \in Keys : /\ Writes(th'[t], j) <=> j \in {} \/ (Writes(th[t], j) /\ j \notin rel)
                      /\ Reads(th'[t], j) <=> j \in {} \/ (Reads(th[t], j) /\ j \notin rel)
  <2>1. \A j \in Keys : ~Writes(th'[t], j) /\ ~Reads(th'[t], j)
    BY DEF Stepped, Writes, HasRoot, HasX, HasY, Pinned, Reads, ReadsRoot
  <2> QED BY <1>2, <2>1, HeldIs
<1>6. ThreadOK(th'[t])
  BY <1>1 DEF Stepped, ThreadOK, Phases, UsesX, UsesY, HasX, HasY, HasRoot, Writes, Pinned, KeyOf, FlPcs
<1>7. LocalOK(t)
  <2>1. (th'[t].pc \in MoPcs <=> th[t].pc \in MoPcs) /\ mo' = mo
    BY DEF MoPcs, Stepped
  <2> QED BY ONLY ControlOK, t \in Clients, <1>4, <1>5, <1>6, <2>1, LocalFromRecord
<1>8. ThreadQuiet(t)
  BY DEF ThreadQuiet, Stepped, Awaits, Refers, Fetches, Departs, KeyOf
<1>9. /\ th' \in [Clients -> Threads] /\ \A u \in Clients : u # t => th'[u] = th[u]
      /\ injected' \in SUBSET Tokens
  BY <1>1 DEF Stepped, TypeOK
<1> QED BY <1>1, <1>4, <1>7, <1>8, <1>9, PairsSame, ControlStep

\* A pair that is put into the table locked.
LEMMA PairInit ==
  ASSUME NEW v \in Vals, NEW d \in BOOLEAN
  PROVE  /\ pair_init(v, d) \in Pairs /\ NoPair \in Pairs
         /\ pair_init(v, d).st = "table" /\ pair_init(v, d).val = v /\ pair_init(v, d).dirty = d
         /\ pair_init(v, d).pend = FALSE /\ pair_init(v, d).clone = <<>>
BY DEF pair_init, NoPair, Pairs, Vals

\* What the invariant says of a node that has no pair.
LEMMA NoPairThere ==
  ASSUME ControlOK, NEW k \in Keys, pair[k].st = "none"
  PROVE  /\ pair[k] = NoPair /\ ~AtStake(k) /\ lock[k].w = {} /\ lock[k].r = {} /\ ev[k] = "no"
         /\ dm[k] = "free" /\ ~InTodo(k) /\ ~Leaving(k) /\ ~Fetching(k)
         /\ ~(cp.ph \in {"write", "clone"} /\ cp.cur = k)
         /\ \A u \in Clients : /\ ~Refers(th[u], k) /\ ~Awaits(th[u], k) /\ ~Writes(th[u], k)
                               /\ ~Reads(th[u], k)
<1>1. PairOK(k)
  BY PairParts
<1>2. /\ pair[k] = NoPair /\ ~AtStake(k) /\ lock[k].w = {} /\ lock[k].r = {} /\ ~Leaving(k)
      /\ \A u \in Clients : ~Refers(th[u], k) /\ ~Awaits(th[u], k)
  BY <1>1 DEF PairOK, PairThere
<1>3. ev[k] = "no" /\ \A u \in Clients : ~Writes(th[u], k) /\ ~Reads(th[u], k)
  BY <1>2, ControlParts DEF LocksOK
<1>4. dm[k] = "free" /\ ~InTodo(k)
  BY <1>1, <1>2 DEF PairOK, PairClone, PairPend, NoPair
<1>5. ~Fetching(k)
  BY <1>2, <1>3, FetchesWrites, ThreadParts DEF Fetching
<1>6. ~(cp.ph \in {"write", "clone"} /\ cp.cur = k)
  BY <1>1, <1>2, <1>4 DEF PairOK, PairClone, AtStake
<1> QED BY <1>2, <1>3, <1>4, <1>5, <1>6

\* A pair that comes into the table.
LEMMA Inserted ==
  ASSUME ControlOK, NEW k \in Keys, pair[k].st = "none",
         pair'[k].st = "table", pair'[k].pend = FALSE, pair'[k].clone = <<>>,
         pair'[k].val = <<>> <=> Fetching(k)', pair'[k].val = <<>> => ~pair'[k].dirty,
         UNCHANGED <<dm, ev, plist, cp>>,
         ~InTodo(k)', ~Leaving(k)'
  PROVE  PairOK(k)'
<1>1. /\ ev[k] = "no" /\ dm[k] = "free" /\ ~(cp.ph \in {"write", "clone"} /\ cp.cur = k)
  BY NoPairThere
<1> QED BY <1>1 DEF PairOK, PairThere, PairValue, PairClone, PairPend

LEMMA NonblockingInsertKeeps ==
  ASSUME ControlOK, CacheTableAssumption, NEW t \in Clients, NEW k \in Keys, k = KeyOf(th[t]),
         th[t].pc \in {"query_root", "query_child"}, th[t].ph = "go",
         pair[k].st = "none", pair' = [pair EXCEPT ![k] = pair_init(<<>>, FALSE)],
         lock' = [Unlocked(lock, Held(t), t) EXCEPT ![k].w = {t}],
         Stepped(th', t, th[t].pc, "fetch_again", th[t].todo, th[t].x, th[t].y, th[t].fl, th[t].mod),
         UNCHANGED <<dm, disk, ckpt, plist, cp, ev, mo, evictions, closing, injected, before>>
  PROVE  ControlOK'
<1>1. TypeOK /\ LocksOK /\ ThreadOK(th[t]) /\ closing = "no" /\ t \in Agents
  BY ControlParts, ThreadParts, NotClosing DEF Agents
<1>2. PICK rel : rel = Held(t)
  OBVIOUS
<1>3. rel \in SUBSET Keys /\ lock' = [Unlocked(lock, rel, t) EXCEPT ![k].w = {t}]
  BY <1>2, HeldIs
<1>4. lock[k].w = {} /\ lock[k].r = {}
  BY NoPairThere
<1>5. LocksMove(t, {k}, {}, rel)
  <2>1. lock \in [Keys -> LockType] /\ \A j \in Keys : Exclusive(lock[j])
    BY <1>1 DEF TypeOK, LocksOK, LockType
  <2>2. /\ lock' \in [Keys -> LockType]
        /\ \A j \in Keys : j \notin rel /\ j # k => lock'[j] = lock[j]
        /\ \A j \in rel : j # k => lock'[j].w = lock[j].w \ {t} /\ lock'[j].r = lock[j].r \ {t}
        /\ lock'[k].w = {t} /\ lock'[k].r = {}
    BY ONLY <2>1, <1>1, <1>3, <1>4, k \in Keys, t \in Clients DEF Unlocked, LockType
  <2>3. ASSUME NEW j \in Keys, j # k
        PROVE  /\ lock'[j].w = lock[j].w \ (IF j \in rel THEN {t} ELSE {})
               /\ lock'[j].r = lock[j].r \ (IF j \in rel THEN {t} ELSE {})
    <3>1. CASE j \in rel
      BY ONLY <2>2, <2>3, <3>1
    <3>2. CASE j \notin rel
      <4>1. lock'[j] = lock[j]
        BY <2>2, <2>3, <3>2
      <4>2. /\ lock[j].w = lock[j].w \ {}
            /\ lock[j].r = lock[j].r \ {}
        BY <2>1 DEF LockType
      <4> QED BY ONLY <3>2, <4>1, <4>2
    <3> QED BY <3>1, <3>2
  <2>4. ASSUME NEW j \in Keys PROVE Exclusive(lock'[j])
    <3>1. CASE j = k
      BY <2>2, <3>1 DEF Exclusive
    <3>2. CASE j # k
      <4>1. Exclusive(lock[j]) /\ lock[j] \in LockType
        BY <2>1
      <4> QED BY <2>3, <3>2, <4>1 DEF Exclusive, LockType
    <3> QED BY <3>1, <3>2
  <2>5. ASSUME NEW j \in Keys, j # k
        PROVE  \A b \in Agents : /\ b \in lock'[j].w <=> b \in lock[j].w /\ (b # t \/ j \notin rel)
                                 /\ b \in lock'[j].r <=> b \in lock[j].r /\ (b # t \/ j \notin rel)
    BY <2>3, <2>5
  <2>6. \A b \in Agents : /\ b \in lock'[k].w <=> b = t
                          /\ b \notin lock'[k].r /\ b \notin lock[k].w /\ b \notin lock[k].r
    BY ONLY <2>2, <1>1, <1>4
  <2> QED BY ONLY <2>2, <2>4, <2>5, <2>6, <1>1, k \in Keys DEF LocksMove
<1>6. \A j \in Keys : /\ Writes(th'[t], j) <=> j \in {k} \/ (Writes(th[t], j) /\ j \notin rel)
                      /\ Reads(th'[t], j) <=> j \in {} \/ (Reads(th[t], j) /\ j \notin rel)
  <2>1. \A j \in Keys : (Writes(th'[t], j) <=> j = k) /\ ~Reads(th'[t], j)
    BY DEF Stepped, Writes, HasRoot, HasX, HasY, Pinned, Reads, ReadsRoot, KeyOf
  <2> QED BY <1>2, <2>1, HeldIs
<1>7. ThreadOK(th'[t])
  BY <1>1 DEF Stepped, ThreadOK, Phases, UsesX, UsesY, HasX, HasY, HasRoot, Writes, Pinned, KeyOf, FlPcs
<1>8. LocalOK(t)
  <2>1. (th'[t].pc \in MoPcs <=> th[t].pc \in MoPcs) /\ mo' = mo
    BY DEF MoPcs, Stepped
  <2> QED BY ONLY ControlOK, t \in Clients, <1>5, <1>6, <1>7, <2>1, LocalFromRecord
<1>9. /\ pair' \in [Keys -> Pairs] /\ \A j \in Keys : j # k => pair'[j] = pair[j]
      /\ pair'[k] = pair_init(<<>>, FALSE)
  <2>1. pair_init(<<>>, FALSE) \in Pairs
    BY PairInit DEF Vals
  <2> QED BY <1>1, <2>1 DEF TypeOK
<1>10. ASSUME NEW j \in Keys PROVE PairOK(j)'
  <2>1. CASE j = k
    <3>1. /\ pair'[j].st = "table" /\ pair'[j].pend = FALSE /\ pair'[j].clone = <<>>
          /\ pair'[j].val = <<>> /\ pair'[j].dirty = FALSE
      BY <1>9, <2>1, PairInit DEF Vals
    <3>2. Fetching(j)' /\ ~InTodo(j)' /\ ~Leaving(j)'
      <4>1. Fetches(th'[t], j) /\ ~Departs(th'[t], j)
        BY <2>1 DEF Fetches, Departs, Stepped, KeyOf
      <4>2. \A u \in Clients : j \in th'[u].todo <=> j \in th[u].todo
        BY DEF Stepped
      <4>3. \A u \in Clients : ~Departs(th'[u], j)
        BY <4>1, <2>1, NoPairThere DEF Stepped, Leaving
      <4>4. ~InTodo(j)
        BY <2>1, NoPairThere
      <4> QED BY <4>1, <4>2, <4>3, <4>4 DEF Fetching, InTodo, Leaving, Fetches, Departs, KeyOf
    <3> QED BY <2>1, <3>1, <3>2, Inserted
  <2>2. CASE j # k
    <3>1. PairOK(j) /\ KeyKept(j)
      BY <1>5, <1>9, <2>2, PairParts
         DEF KeyKept, LocksMove, LockType, AtStake, CacheTableAssumption, Agents
    <3>2. \A u \in Clients : ThreadKept(u, j)
      BY <2>2 DEF ThreadKept, Stepped, Fetches, Departs, Awaits, Refers, KeyOf
    <3> QED BY <3>1, <3>2, KeyUntouched
  <2> QED BY <2>1, <2>2
<1>11. PendRest'
  <2>1. cp.ph = "write" => cp.cur # k /\ cp.cur \in Keys
    BY <1>1, NoPairThere DEF TypeOK
  <2> QED BY <1>9, <2>1, PendRestNow DEF PendRest
<1>12. /\ th' \in [Clients -> Threads] /\ \A u \in Clients : u # t => th'[u] = th[u]
       /\ UNCHANGED <<cp, ev, evictions, closing, injected, before>>
       /\ dm' \in [Keys -> {"free", "bg", "cp"}] /\ disk' \in [Keys -> Vals]
       /\ ckpt' \in [Keys -> Vals] /\ plist' \in SUBSET Keys
  BY <1>1 DEF Stepped, TypeOK
<1> QED BY <1>1, <1>5, <1>8, <1>9, <1>10, <1>11, <1>12, SpecialStep

LEMMA get_and_pin_nonblockingKeeps ==
  ASSUME ControlOK, CacheTableAssumption, NEW t \in Clients, get_and_pin_nonblocking(t)
  PROVE  ControlOK'
<1>1. UNCHANGED <<dm, disk, ckpt, plist, cp, ev, mo, evictions, closing, injected, before>>
  BY DEF get_and_pin_nonblocking, history
<1> QED BY <1>1, get_and_pin_nonblockingStep, NonblockingInsertKeeps, WaitingKeeps, RefKeeps

\* ------------------------------------------------------------ pending bits

\* The pairs a request depends on are locked by its thread.
LEMMA DepsHeld ==
  ASSUME ControlOK, CacheTableAssumption, NEW t \in Clients, Pinning(t)
  PROVE  /\ Deps(t) \in SUBSET Keys
         /\ \A k \in Deps(t) : /\ Writes(th[t], k)
                               /\ th[t].pc # "split_put" => k # KeyOf(th[t])
<1>1. ThreadOK(th[t]) /\ th[t].x \in Keys /\ th[t].y \in Keys /\ Root \in Keys
  BY ThreadParts, ThreadsTyped, ControlParts DEF Keys
<1> QED BY <1>1, PinCases
        DEF PinIs, ThreadOK, UsesX, UsesY, HasX, HasY, HasRoot, Writes, KeyOf, CacheTableAssumption

LEMMA BitsTyped ==
  ASSUME NEW t \in Clients, NEW p \in [Keys -> Pairs], NEW ks \in SUBSET Keys, Deps(t) \subseteq ks
  PROVE  LET b == BitsOf(t, ks, p)
         IN /\ b.pair \in [Keys -> Pairs] /\ b.todo \in SUBSET Keys
            /\ \A j \in Keys : /\ b.pair[j].st = p[j].st /\ b.pair[j].val = p[j].val
                               /\ b.pair[j].clone = p[j].clone
                               /\ b.pair[j].pend = (p[j].pend /\ j \notin ks)
                               /\ b.pair[j].dirty = (p[j].dirty \/ j \in Deps(t) \cap th[t].mod)
                               /\ j \notin ks => b.pair[j] = p[j]
            /\ \A j \in Keys : j \in b.todo <=> /\ j \in ks /\ p[j].pend
                                                /\ p[j].dirty \/ j \in Deps(t) \cap th[t].mod
<1> DEFINE M == Deps(t) \cap th[t].mod
           marked == [k \in Keys |-> [p[k] EXCEPT !.dirty = @ \/ k \in M]]
           b == BitsOf(t, ks, p)
           q == [k \in Keys |-> IF k \in ks THEN [marked[k] EXCEPT !.pend = FALSE] ELSE marked[k]]
<1>1. b = [todo |-> {k \in ks : marked[k].pend /\ marked[k].dirty}, pair |-> q]
  BY DEF BitsOf
<1>2. ASSUME NEW j \in Keys
      PROVE  /\ marked[j] \in Pairs /\ marked[j].st = p[j].st /\ marked[j].val = p[j].val
             /\ marked[j].clone = p[j].clone /\ marked[j].pend = p[j].pend
             /\ marked[j].dirty = (p[j].dirty \/ j \in M)
             /\ j \notin M => marked[j] = p[j]
  <2>1. p[j] \in Pairs /\ marked[j] = [p[j] EXCEPT !.dirty = @ \/ j \in M]
    OBVIOUS
  <2>2. PICK d \in BOOLEAN : d = (p[j].dirty \/ j \in M)
    OBVIOUS
  <2>3. marked[j] = [p[j] EXCEPT !.dirty = d]
    BY <2>1, <2>2
  <2>4. j \notin M => d = p[j].dirty
    BY <2>1, <2>2 DEF Pairs
  <2>5. PICK r : r = [p[j] EXCEPT !.dirty = d]
    OBVIOUS
  <2>6. /\ r \in Pairs /\ r.st = p[j].st /\ r.val = p[j].val /\ r.clone = p[j].clone
        /\ r.pend = p[j].pend /\ r.dirty = d
    BY ONLY <2>5, p[j] \in Pairs, d \in BOOLEAN DEF Pairs
  <2>7. d = p[j].dirty => r = p[j]
    BY ONLY <2>5, p[j] \in Pairs DEF Pairs
  <2>8. marked[j] = r
    BY <2>3, <2>5
  <2> HIDE DEF marked
  <2> QED BY ONLY <2>2, <2>4, <2>6, <2>7, <2>8
<1> HIDE DEF marked, M
<1>3. ASSUME NEW j \in Keys
      PROVE  /\ q[j] \in Pairs /\ q[j].st = p[j].st /\ q[j].val = p[j].val
             /\ q[j].clone = p[j].clone /\ q[j].pend = (p[j].pend /\ j \notin ks)
             /\ q[j].dirty = (p[j].dirty \/ j \in M)
             /\ j \notin ks => q[j] = p[j]
  <2>1. /\ marked[j] \in Pairs /\ marked[j].st = p[j].st /\ marked[j].val = p[j].val
        /\ marked[j].clone = p[j].clone /\ marked[j].pend = p[j].pend
        /\ marked[j].dirty = (p[j].dirty \/ j \in M)
        /\ j \notin M => marked[j] = p[j]
    BY <1>2
  <2>2. p[j].pend \in BOOLEAN
    BY DEF Pairs
  <2>3. CASE j \in ks
    <3>1. q[j] = [marked[j] EXCEPT !.pend = FALSE]
      BY <2>3
    <3>2. /\ q[j] \in Pairs /\ q[j].st = marked[j].st /\ q[j].val = marked[j].val
          /\ q[j].clone = marked[j].clone /\ q[j].pend = FALSE /\ q[j].dirty = marked[j].dirty
      BY ONLY <2>1, <3>1 DEF Pairs
    <3>3. q[j].pend = (p[j].pend /\ j \notin ks)
      <4>1. (p[j].pend /\ j \notin ks) = FALSE
        BY ONLY <2>3
      <4> QED BY ONLY <3>2, <4>1
    <3>4. q[j].dirty = (p[j].dirty \/ j \in M)
      BY ONLY <2>1, <3>2
    <3> QED BY ONLY <2>1, <2>3, <3>2, <3>3, <3>4
  <2>4. CASE j \notin ks
    <3>1. q[j] = marked[j] /\ j \notin M
      BY <2>4 DEF M
    <3> QED BY <2>1, <2>2, <2>4, <3>1
  <2> QED BY <2>3, <2>4
<1>4. q \in [Keys -> Pairs]
  BY <1>3
<1>5. \A j \in Keys : j \in {k \in ks : marked[k].pend /\ marked[k].dirty}
                        <=> j \in ks /\ p[j].pend /\ (p[j].dirty \/ j \in M)
  BY <1>2
<1> HIDE DEF q
<1> QED BY <1>1, <1>3, <1>4, <1>5 DEF M

\* A pair whose pending bit its owner reads.
LEMMA BitsKeep ==
  ASSUME ControlOK, CacheTableAssumption, NEW t \in Clients, NEW k \in Keys,
         Writes(th[t], k), InMemory(k), th[t].todo = {},
         \A u \in Clients : u # t => th'[u] = th[u], LocksMove(t, {}, {}, {}) \/ lock'[k] = lock[k],
         pair'[k].st = pair[k].st, pair'[k].val = pair[k].val, pair'[k].clone = pair[k].clone,
         pair'[k].pend = FALSE, k \in th'[t].todo => pair[k].pend,
         UNCHANGED <<dm, ev, plist, cp>>, ~Fetches(th'[t], k), ~Departs(th'[t], k)
  PROVE  PairOK(k)'
<1>1. /\ PairOK(k) /\ pair[k].st = "table" /\ ev[k] = "no" /\ lock'[k].w = {t}
      /\ ~(cp.ph = "write" /\ cp.cur = k)
  BY PairParts, WrittenThere DEF LocksMove
<1>2. \A u \in Clients : u # t => ~Writes(th[u], k)
  BY WritersAlone, ControlParts
<1>3. ~Fetching(k)'
  <2>1. ~Fetching(k)
    BY <1>1 DEF PairOK, PairValue, InMemory
  <2>2. \A u \in Clients : ~Fetches(th'[u], k)
    BY <2>1 DEF Fetching
  <2>3. "rd" \notin lock'[k].w
    BY <1>1 DEF CacheTableAssumption
  <2> QED BY <2>2, <2>3 DEF Fetching, Fetches, KeyOf
<1>4. ~Leaving(k)'
  <2>1. \A u \in Clients : ~Departs(th[u], k)
    BY <1>1 DEF PairOK, PairThere, Leaving
  <2>2. \A u \in Clients : ~Departs(th'[u], k)
    BY <2>1
  <2> QED BY <2>2 DEF Leaving, Departs
<1>5. InTodo(k)' => pair[k].pend
  <2>1. \A u \in Clients : u # t => k \notin th[u].todo
    BY <1>2, ThreadParts DEF ThreadOK
  <2> QED BY <2>1 DEF InTodo
<1>6. PairThere(k)' /\ PairValue(k)'
  BY <1>1, <1>3, <1>4 DEF PairOK, PairThere, PairValue, InMemory
<1>7. PairClone(k)' /\ PairPend(k)'
  BY <1>1, <1>5 DEF PairOK, PairClone, PairPend, InMemory, AtStake
<1> QED BY <1>6, <1>7 DEF PairOK

\* Where a thread goes on with the pair it wanted locked for writing.
PinNext(pc, next) ==
  \/ pc = "inject_root" /\ next = "inject_put"
  \/ pc = "bg_child" /\ next = "bg_detach"
  \/ pc = "flush_root" /\ next = "flush_pick"
  \/ pc = "flush_child" /\ next = "flush_detach"
  \/ pc = "split_put" /\ next = "split_do"
  \/ pc = "merge_a" /\ next = "merge_b"
  \/ pc = "merge_b" /\ next = "merge_do"
  \/ pc = "clean_pick" /\ next = "flush_pick"

LEMMA PinnedNext ==
  ASSUME ControlOK, NEW t \in Clients, Pinning(t), Pinned(th[t])
  PROVE  PinNext(th[t].pc, Want(t).next) /\ Want(t).next \in Pcs
<1>1. ThreadOK(th[t])
  BY ThreadParts
<1>2. PinNext(th[t].pc, Want(t).next)
  BY <1>1, PinCases DEF PinIs, ThreadOK, Phases, Pinned, PinNext
<1>3. \A pc, next : PinNext(pc, next) => next \in Pcs
  BY PinTable DEF PinNext, Pcs
<1> QED BY <1>2, <1>3

\* What the step of a thread does to its record and to what the others see of it.
Quiet(s) == \A k \in Keys : ~Fetches(s, k) /\ ~Departs(s, k) /\ ~Awaits(s, k) /\ ~Refers(s, k)

LEMMA PinnedGoesOn ==
  ASSUME ControlOK, CacheTableAssumption, NEW t \in Clients, Pinned(th[t]), NEW next,
         PinNext(th[t].pc, next), NEW todo, todo = {}, NEW mod, mod \subseteq th[t].mod,
         Stepped(th', t, next, "go", todo, th[t].x, th[t].y, th[t].fl, mod)
  PROVE  /\ ThreadOK(th'[t]) /\ Quiet(th'[t])
         /\ th'[t].pc \in MoPcs <=> th[t].pc \in MoPcs
         /\ \A k \in Keys : /\ Writes(th'[t], k) <=> Writes(th[t], k)
                            /\ Reads(th'[t], k) <=> Reads(th[t], k)
<1>1. ThreadOK(th[t])
  BY ThreadParts
<1>2. \A k \in Keys : /\ Writes(th'[t], k) <=> Writes(th[t], k)
                      /\ Reads(th'[t], k) <=> Reads(th[t], k)
  BY DEF PinNext, Stepped, Writes, HasRoot, HasX, HasY, Pinned, Reads, ReadsRoot
<1>3. ThreadOK(th'[t])
  <2>1. /\ th'[t].ph \in Phases(th'[t].pc)
        /\ UsesX(th'[t]) => th'[t].x \in Leaves
    BY <1>1 DEF PinNext, Stepped, ThreadOK, Phases, UsesX, HasX, Pinned
  <2>2. UsesY(th'[t]) => th'[t].y \in Leaves /\ th'[t].y # th'[t].x
    BY <1>1 DEF PinNext, Stepped, ThreadOK, UsesY, HasY, Pinned
  <2>3. /\ th'[t].todo = {} /\ ~Pinned(th'[t]) /\ th'[t].ph = "go"
        /\ th'[t].fl # {} => th'[t].pc \in FlPcs
    BY <1>1 DEF PinNext, Stepped, ThreadOK, Pinned, FlPcs
  <2>4. \A k \in th'[t].mod : k \in Keys /\ Writes(th'[t], k)
    <3>1. \A k \in th[t].mod : k \in Keys /\ Writes(th[t], k)
      BY <1>1, ThreadsTyped, ControlParts DEF ThreadOK
    <3> QED BY <3>1, <1>2 DEF Stepped
  <2> QED BY <2>1, <2>2, <2>3, <2>4 DEF ThreadOK
<1>4. Quiet(th'[t]) /\ (th'[t].pc \in MoPcs <=> th[t].pc \in MoPcs)
  BY DEF Quiet, PinNext, Stepped, Fetches, Departs, Awaits, Refers, MoPcs
<1> QED BY <1>2, <1>3, <1>4

\* A thread that has pairs to write for the checkpoint before it goes on.
ToWrite(t, ph, todo, mod) ==
  /\ Pinned(th[t]) /\ mod \in SUBSET th[t].mod
  /\ th[t].pc \in {"inject_root", "bg_child", "flush_root", "flush_child", "split_put",
                   "merge_a", "merge_b", "clean_pick"}
  /\ \A k \in todo : k \in Keys /\ Writes(th[t], k) /\ ~(ph = "insert" /\ k = KeyOf(th[t]))
  /\ \/ th[t].ph = "bits" /\ ph = "resolve"
     \/ th[t].ph \in {"resolve", "insert"} /\ ph = th[t].ph
LEMMA PinnedStays ==
  ASSUME ControlOK, CacheTableAssumption, NEW t \in Clients, NEW ph, NEW todo, NEW mod,
         ToWrite(t, ph, todo, mod),
         Stepped(th', t, th[t].pc, ph, todo, th[t].x, th[t].y, th[t].fl, mod)
  PROVE  /\ ThreadOK(th'[t])
         /\ \A k \in Keys : /\ Fetches(th'[t], k) <=> Fetches(th[t], k)
                            /\ ~Departs(th'[t], k) /\ ~Awaits(th'[t], k) /\ ~Refers(th'[t], k)
         /\ \A k \in Keys : /\ Writes(th'[t], k) <=> Writes(th[t], k)
                            /\ Reads(th'[t], k) <=> Reads(th[t], k)
<1>1. ThreadOK(th[t])
  BY ThreadParts
<1>2. \A k \in Keys : /\ Writes(th'[t], k) <=> Writes(th[t], k)
                      /\ Reads(th'[t], k) <=> Reads(th[t], k)
  BY DEF ToWrite, Stepped, Writes, HasRoot, HasX, HasY, Pinned, Reads, ReadsRoot
<1>3. \A k \in Keys : /\ Fetches(th'[t], k) <=> Fetches(th[t], k)
                      /\ ~Departs(th'[t], k) /\ ~Awaits(th'[t], k) /\ ~Refers(th'[t], k)
  BY DEF ToWrite, Stepped, Fetches, Departs, Awaits, Refers, KeyOf
<1>4. ThreadOK(th'[t])
  <2>1. /\ th'[t].ph \in Phases(th'[t].pc)
        /\ UsesX(th'[t]) => th'[t].x \in Leaves
    BY <1>1 DEF ToWrite, Stepped, ThreadOK, Phases, UsesX, HasX, Pinned
  <2>2. UsesY(th'[t]) => th'[t].y \in Leaves /\ th'[t].y # th'[t].x
    BY <1>1 DEF ToWrite, Stepped, ThreadOK, UsesY, HasY, Pinned
  <2>3. /\ th'[t].todo # {} => th'[t].ph \in {"resolve", "insert"}
        /\ th'[t].fl # {} => th'[t].pc \in FlPcs
    BY <1>1 DEF ToWrite, Stepped, ThreadOK, FlPcs
  <2>4. \A k \in th'[t].mod : k \in Keys /\ Writes(th'[t], k)
    <3>1. \A k \in th[t].mod : k \in Keys /\ Writes(th[t], k)
      BY <1>1, ThreadsTyped, ControlParts DEF ThreadOK
    <3> QED BY <3>1, <1>2 DEF ToWrite, Stepped
  <2>5. KeyOf(th'[t]) \notin th'[t].mod
    BY <1>1 DEF ToWrite, ThreadOK, Stepped, KeyOf
  <2>6. \A k \in th'[t].todo : Writes(th'[t], k) /\ ~Fetches(th'[t], k)
    BY <1>2 DEF ToWrite, Stepped, Fetches, KeyOf
  <2> QED BY <2>1, <2>2, <2>3, <2>4, <2>5, <2>6 DEF ThreadOK
<1> QED BY <1>2, <1>3, <1>4

LEMMA get_checkpoint_pendingStep ==
  ASSUME ControlOK, CacheTableAssumption, NEW t \in Clients, get_checkpoint_pending(t)
  PROVE  LET ks == {KeyOf(th[t])} \cup Deps(t)
         IN /\ th[t].ph = "bits" /\ Pinned(th[t]) /\ Pinning(t) /\ ks \in SUBSET Keys
            /\ th[t].pc \in {"inject_root", "bg_child", "flush_root", "flush_child", "merge_a",
                             "merge_b", "clean_pick"}
            /\ \A k \in ks : Writes(th[t], k) /\ InMemory(k)
            /\ pair' \in [Keys -> Pairs]
            /\ \A j \in Keys : /\ pair'[j].st = pair[j].st /\ pair'[j].val = pair[j].val
                               /\ pair'[j].clone = pair[j].clone
                               /\ pair'[j].pend = (pair[j].pend /\ j \notin ks)
                               /\ pair'[j].dirty = (pair[j].dirty \/ j \in Deps(t) \cap th[t].mod)
                               /\ j \notin ks => pair'[j] = pair[j]
            /\ \E todo \in SUBSET ks :
                 /\ \A j \in Keys : j \in todo <=> j \in ks /\ pair[j].pend /\ pair'[j].dirty
                 /\ \/ /\ todo = {}
                       /\ \E next : /\ PinNext(th[t].pc, next)
                                    /\ Stepped(th', t, next, "go", {}, th[t].x, th[t].y, th[t].fl,
                                               th[t].mod)
                    \/ Stepped(th', t, th[t].pc, "resolve", todo, th[t].x, th[t].y, th[t].fl, th[t].mod)
<1> DEFINE ks == {KeyOf(th[t])} \cup Deps(t)
<1>1. /\ th[t].ph = "bits" /\ Pinned(th[t]) /\ Pinning(t) /\ TypeOK /\ ThreadOK(th[t])
      /\ Key(t) = KeyOf(th[t]) /\ pair \in [Keys -> Pairs]
  BY ControlParts, ThreadParts, KeyIsKeyOf DEF get_checkpoint_pending, Pinned, TypeOK
<1>2. th[t].pc \in {"inject_root", "bg_child", "flush_root", "flush_child", "merge_a",
                    "merge_b", "clean_pick"}
  BY <1>1, PinCases DEF PinIs, ThreadOK, Phases
<1>3. ks \in SUBSET Keys /\ Deps(t) \subseteq ks
  BY <1>1, DepsHeld, KeyTyped
<1>4. \A k \in ks : Writes(th[t], k)
  <2>1. Writes(th[t], KeyOf(th[t]))
    BY <1>1, <1>2 DEF Writes, KeyOf, HasRoot, HasX, HasY, Pinned
  <2> QED BY <1>1, <2>1, DepsHeld
<1>5. \A k \in ks : InMemory(k)
  BY <1>1, <1>3, <1>4, WrittenThere DEF Fetches
<1>6. PICK b : b = BitsOf(t, ks, pair)
  OBVIOUS
<1>7. /\ b.pair \in [Keys -> Pairs] /\ b.todo \in SUBSET Keys
      /\ \A j \in Keys : /\ b.pair[j].st = pair[j].st /\ b.pair[j].val = pair[j].val
                         /\ b.pair[j].clone = pair[j].clone
                         /\ b.pair[j].pend = (pair[j].pend /\ j \notin ks)
                         /\ b.pair[j].dirty = (pair[j].dirty \/ j \in Deps(t) \cap th[t].mod)
                         /\ j \notin ks => b.pair[j] = pair[j]
      /\ \A j \in Keys : j \in b.todo <=> /\ j \in ks /\ pair[j].pend
                                          /\ pair[j].dirty \/ j \in Deps(t) \cap th[t].mod
  <2>1. PICK K : K = ks
    OBVIOUS
  <2>2. K \in SUBSET Keys /\ Deps(t) \subseteq K /\ pair \in [Keys -> Pairs] /\ b = BitsOf(t, K, pair)
    BY <1>1, <1>3, <1>6, <2>1
  <2> HIDE DEF ks
  <2>3. /\ b.pair \in [Keys -> Pairs] /\ b.todo \in SUBSET Keys
        /\ \A j \in Keys : /\ b.pair[j].st = pair[j].st /\ b.pair[j].val = pair[j].val
                           /\ b.pair[j].clone = pair[j].clone
                           /\ b.pair[j].pend = (pair[j].pend /\ j \notin K)
                           /\ b.pair[j].dirty = (pair[j].dirty \/ j \in Deps(t) \cap th[t].mod)
                           /\ j \notin K => b.pair[j] = pair[j]
        /\ \A j \in Keys : j \in b.todo <=> /\ j \in K /\ pair[j].pend
                                            /\ pair[j].dirty \/ j \in Deps(t) \cap th[t].mod
    BY ONLY t \in Clients, <2>2, BitsTyped
  <2> QED BY ONLY <2>1, <2>3
<1>8. /\ pair' = b.pair
      /\ th' = IF b.todo = {} THEN Goto(t, Want(t).next)
               ELSE [th EXCEPT ![t].ph = "resolve", ![t].todo = b.todo]
  BY <1>1, <1>6 DEF get_checkpoint_pending
<1>9. /\ b.todo \in SUBSET ks
      /\ \A j \in Keys : j \in b.todo <=> j \in ks /\ pair[j].pend /\ pair'[j].dirty
  BY <1>7, <1>8
<1>10. CASE b.todo = {}
  <2>1. PinNext(th[t].pc, Want(t).next) /\ Want(t).next \in Pcs
    BY <1>1, PinnedNext
  <2>2. th[t].todo = {}
    BY <1>1 DEF ThreadOK
  <2>3. Stepped(th', t, Want(t).next, "go", {}, th[t].x, th[t].y, th[t].fl, th[t].mod)
    BY <1>1, <1>8, <1>10, <2>1, <2>2, GotoSteps
  <2> QED BY <1>1, <1>2, <1>3, <1>4, <1>5, <1>7, <1>8, <1>9, <1>10, <2>1, <2>3
<1>11. CASE b.todo # {}
  <2>1. Stepped(th', t, th[t].pc, "resolve", b.todo, th[t].x, th[t].y, th[t].fl, th[t].mod)
    BY <1>1, <1>7, <1>8, <1>11, SteppedPhTodo
  <2> QED BY <1>1, <1>2, <1>3, <1>4, <1>5, <1>7, <1>8, <1>9, <2>1
<1> QED BY <1>10, <1>11

LEMMA get_checkpoint_pendingKeeps ==
  ASSUME ControlOK, CacheTableAssumption, NEW t \in Clients, get_checkpoint_pending(t)
  PROVE  ControlOK'
<1>1. PICK ks : ks = {KeyOf(th[t])} \cup Deps(t)
  OBVIOUS
<1>2. /\ th[t].ph = "bits" /\ Pinned(th[t]) /\ Pinning(t) /\ ks \in SUBSET Keys
      /\ th[t].pc \in {"inject_root", "bg_child", "flush_root", "flush_child", "merge_a",
                       "merge_b", "clean_pick"}
      /\ \A k \in ks : Writes(th[t], k) /\ InMemory(k)
      /\ pair' \in [Keys -> Pairs]
      /\ \A j \in Keys : /\ pair'[j].st = pair[j].st /\ pair'[j].val = pair[j].val
                         /\ pair'[j].clone = pair[j].clone
                         /\ pair'[j].pend = (pair[j].pend /\ j \notin ks)
                         /\ pair'[j].dirty = (pair[j].dirty \/ j \in Deps(t) \cap th[t].mod)
                         /\ j \notin ks => pair'[j] = pair[j]
  BY <1>1, get_checkpoint_pendingStep
<1>3. PICK todo \in SUBSET ks :
        /\ \A j \in Keys : j \in todo <=> j \in ks /\ pair[j].pend /\ pair'[j].dirty
        /\ \/ /\ todo = {}
              /\ \E next : /\ PinNext(th[t].pc, next)
                           /\ Stepped(th', t, next, "go", {}, th[t].x, th[t].y, th[t].fl,
                                      th[t].mod)
           \/ Stepped(th', t, th[t].pc, "resolve", todo, th[t].x, th[t].y, th[t].fl, th[t].mod)
  BY <1>1, get_checkpoint_pendingStep
<1>4. TypeOK /\ LocksOK /\ ThreadOK(th[t]) /\ closing = "no" /\ t \in Agents
      /\ UNCHANGED <<lock, dm, disk, ckpt, plist, cp, ev, mo, evictions, closing, injected, before>>
  BY <1>2, ControlParts, ThreadParts, NotClosing DEF Agents, get_checkpoint_pending, history
<1>5. LocksMove(t, {}, {}, {})
  BY <1>4, LocksKept
<1>6. /\ th' \in [Clients -> Threads] /\ \A u \in Clients : u # t => th'[u] = th[u]
      /\ th'[t].todo = todo /\ ThreadOK(th'[t]) /\ Quiet(th'[t]) /\ Quiet(th[t])
      /\ th'[t].pc \in MoPcs <=> th[t].pc \in MoPcs
      /\ \A k \in Keys : /\ Writes(th'[t], k) <=> Writes(th[t], k)
                         /\ Reads(th'[t], k) <=> Reads(th[t], k)
  <2>1. Quiet(th[t])
    BY <1>2 DEF Quiet, Fetches, Departs, Awaits, Refers
  <2>2. ASSUME todo = {}, NEW next, PinNext(th[t].pc, next),
               Stepped(th', t, next, "go", {}, th[t].x, th[t].y, th[t].fl, th[t].mod)
        PROVE  /\ ThreadOK(th'[t]) /\ Quiet(th'[t])
               /\ th'[t].pc \in MoPcs <=> th[t].pc \in MoPcs
               /\ \A k \in Keys : /\ Writes(th'[t], k) <=> Writes(th[t], k)
                                  /\ Reads(th'[t], k) <=> Reads(th[t], k)
    BY <1>2, <2>2, PinnedGoesOn
  <2>3. ASSUME Stepped(th', t, th[t].pc, "resolve", todo, th[t].x, th[t].y, th[t].fl, th[t].mod)
        PROVE  /\ ThreadOK(th'[t]) /\ Quiet(th'[t])
               /\ th'[t].pc \in MoPcs <=> th[t].pc \in MoPcs
               /\ \A k \in Keys : /\ Writes(th'[t], k) <=> Writes(th[t], k)
                                  /\ Reads(th'[t], k) <=> Reads(th[t], k)
    <3>1. PICK ph : ph = "resolve"
      OBVIOUS
    <3>2. ToWrite(t, ph, todo, th[t].mod)
      BY <1>2, <1>3, <3>1 DEF ToWrite
    <3>3. Stepped(th', t, th[t].pc, ph, todo, th[t].x, th[t].y, th[t].fl, th[t].mod)
      BY <2>3, <3>1
    <3>4. /\ ThreadOK(th'[t])
          /\ \A k \in Keys : /\ Fetches(th'[t], k) <=> Fetches(th[t], k)
                             /\ ~Departs(th'[t], k) /\ ~Awaits(th'[t], k) /\ ~Refers(th'[t], k)
          /\ \A k \in Keys : /\ Writes(th'[t], k) <=> Writes(th[t], k)
                             /\ Reads(th'[t], k) <=> Reads(th[t], k)
      BY ONLY ControlOK, CacheTableAssumption, t \in Clients, <3>2, <3>3, PinnedStays
    <3> QED BY <2>1, <2>3, <3>4 DEF Quiet, Stepped
  <2> QED BY <1>3, <2>1, <2>2, <2>3 DEF Stepped
<1>7. LocalOK(t)
  <2>1. \A j \in Keys : /\ Writes(th'[t], j) <=> j \in {} \/ (Writes(th[t], j) /\ j \notin {})
                        /\ Reads(th'[t], j) <=> j \in {} \/ (Reads(th[t], j) /\ j \notin {})
    BY <1>6
  <2>2. mo' = mo
    BY <1>4
  <2> QED BY ONLY ControlOK, t \in Clients, <1>5, <1>6, <2>1, <2>2, LocalFromRecord
<1>8. ASSUME NEW j \in Keys PROVE PairOK(j)'
  <2>1. CASE j \in ks
    <3>1. Writes(th[t], j) /\ InMemory(j) /\ th[t].todo = {} /\ pair'[j].pend = FALSE
      BY <1>2, <1>4, <2>1 DEF ThreadOK
    <3>2. j \in th'[t].todo => pair[j].pend
      BY <1>3, <1>6
    <3> QED BY <1>2, <1>4, <1>5, <1>6, <3>1, <3>2, BitsKeep DEF Quiet
  <2>2. CASE j \notin ks
    <3>1. PairOK(j) /\ KeyKept(j)
      BY <1>2, <1>4, <2>2, PairParts DEF KeyKept, AtStake
    <3>2. j \notin th[t].todo /\ j \notin th'[t].todo
      BY <1>2, <1>3, <1>4, <1>6, <2>2 DEF ThreadOK
    <3>3. \A u \in Clients : ThreadKept(u, j)
      BY <1>6, <3>2 DEF ThreadKept, Quiet
    <3> QED BY <3>1, <3>3, KeyUntouched
  <2> QED BY <2>1, <2>2
<1>9. PendRest'
  <2>1. cp.ph = "write" => cp.cur \notin ks /\ cp.cur \in Keys
    BY <1>2, <1>4, WrittenThere DEF TypeOK
  <2> QED BY <1>2, <1>4, <2>1, PendRestNow DEF PendRest
<1>10. /\ UNCHANGED <<cp, ev, evictions, closing, injected, before>>
       /\ dm' \in [Keys -> {"free", "bg", "cp"}] /\ disk' \in [Keys -> Vals]
       /\ ckpt' \in [Keys -> Vals] /\ plist' \in SUBSET Keys
  BY <1>4 DEF TypeOK
<1> QED BY <1>2, <1>4, <1>5, <1>6, <1>7, <1>8, <1>9, <1>10, SpecialStep

\* The node is cloned for a writer thread, or written.
LEMMA ClonedOrWritten ==
  ASSUME TypeOK, NEW k \in Keys,
         IF k \in Cloneable THEN clone_pair(k, "bg") ELSE cachetable_write_locked_pair(k, TRUE)
  PROVE  /\ dm[k] = "free" /\ pair' \in [Keys -> Pairs] /\ \A j \in Keys : j # k => pair'[j] = pair[j]
         /\ pair'[k].st = pair[k].st /\ pair'[k].val = pair[k].val /\ pair'[k].pend = pair[k].pend
         /\ pair'[k].dirty = FALSE
         /\ disk' \in [Keys -> Vals] /\ ckpt' \in [Keys -> Vals]
         /\ \/ /\ pair'[k].clone = pair[k].val /\ dm' = [dm EXCEPT ![k] = "bg"]
               /\ disk' = disk /\ ckpt' = ckpt
            \/ /\ pair'[k].clone = pair[k].clone /\ dm' = dm
               /\ disk' = [disk EXCEPT ![k] = pair[k].val] /\ ckpt' = [ckpt EXCEPT ![k] = pair[k].val]
<1>1. pair \in [Keys -> Pairs] /\ disk \in [Keys -> Vals] /\ ckpt \in [Keys -> Vals]
      /\ pair[k].val \in Vals
  BY DEF TypeOK, Pairs
<1>2. CASE k \in Cloneable
  <2>1. /\ dm[k] = "free" /\ pair' = [pair EXCEPT ![k].clone = pair[k].val, ![k].dirty = FALSE]
        /\ dm' = [dm EXCEPT ![k] = "bg"] /\ disk' = disk /\ ckpt' = ckpt
    BY <1>2 DEF clone_pair
  <2>2. PICK v \in Vals : v = pair[k].val
    BY <1>1
  <2>3. PICK p : p = [pair EXCEPT ![k].clone = v, ![k].dirty = FALSE]
    OBVIOUS
  <2>4. /\ p \in [Keys -> Pairs] /\ \A j \in Keys : j # k => p[j] = pair[j]
        /\ p[k].st = pair[k].st /\ p[k].val = pair[k].val /\ p[k].pend = pair[k].pend
        /\ p[k].dirty = FALSE /\ p[k].clone = v
    BY ONLY <1>1, <2>3, v \in Vals, k \in Keys DEF Pairs
  <2>5. pair' = p
    BY <2>1, <2>2, <2>3
  <2> QED BY ONLY <1>1, <2>1, <2>2, <2>4, <2>5
<1>3. CASE k \notin Cloneable
  <2>1. /\ dm[k] = "free" /\ pair' = [pair EXCEPT ![k].dirty = FALSE] /\ dm' = dm
        /\ disk' = [disk EXCEPT ![k] = pair[k].val] /\ ckpt' = [ckpt EXCEPT ![k] = pair[k].val]
    BY <1>3 DEF cachetable_write_locked_pair, WriteBlock
  <2>2. /\ pair' \in [Keys -> Pairs] /\ \A j \in Keys : j # k => pair'[j] = pair[j]
        /\ pair'[k].st = pair[k].st /\ pair'[k].val = pair[k].val /\ pair'[k].pend = pair[k].pend
        /\ pair'[k].dirty = FALSE /\ pair'[k].clone = pair[k].clone
    BY ONLY <1>1, <2>1, k \in Keys DEF Pairs
  <2>3. disk' \in [Keys -> Vals] /\ ckpt' \in [Keys -> Vals]
    BY ONLY <1>1, <2>1, k \in Keys
  <2> QED BY ONLY <1>1, <2>1, <2>2, <2>3
<1> QED BY <1>2, <1>3

LEMMA write_lockedStep ==
  ASSUME ControlOK, CacheTableAssumption, NEW t \in Clients, write_locked_pair_for_checkpoint(t)
  PROVE  /\ th[t].ph \in {"resolve", "insert"} /\ Pinned(th[t])
         /\ th[t].pc \in {"inject_root", "bg_child", "flush_root", "flush_child", "split_put",
                          "merge_a", "merge_b", "clean_pick"}
         /\ \E k \in th[t].todo :
              /\ k \in Keys /\ Writes(th[t], k) /\ InMemory(k)
              /\ IF k \in Cloneable THEN clone_pair(k, "bg") ELSE cachetable_write_locked_pair(k, TRUE)
              /\ \/ /\ th[t].todo \ {k} = {} /\ th[t].ph = "resolve"
                    /\ \E next : /\ PinNext(th[t].pc, next)
                                 /\ Stepped(th', t, next, "go", {}, th[t].x, th[t].y, th[t].fl,
                                            th[t].mod \ {k})
                 \/ Stepped(th', t, th[t].pc, th[t].ph, th[t].todo \ {k}, th[t].x, th[t].y, th[t].fl,
                            th[t].mod \ {k})
<1>1. TypeOK /\ ThreadOK(th[t]) /\ th[t].ph \in {"resolve", "insert"} /\ th[t].todo \in SUBSET Keys
  BY ControlParts, ThreadParts, ThreadsTyped DEF write_locked_pair_for_checkpoint
<1>2. /\ th[t].pc \in {"inject_root", "bg_child", "flush_root", "flush_child", "split_put",
                       "merge_a", "merge_b", "clean_pick"}
      /\ Pinned(th[t])
  BY <1>1 DEF ThreadOK, Phases, Pinned
<1>3. PICK k \in th[t].todo :
        /\ IF k \in Cloneable THEN clone_pair(k, "bg") ELSE cachetable_write_locked_pair(k, TRUE)
        /\ th' = [(IF th[t].todo \ {k} = {} /\ th[t].ph = "resolve" THEN Goto(t, Want(t).next) ELSE th)
                  EXCEPT ![t].todo = th[t].todo \ {k}, ![t].mod = @ \ {k}]
  BY DEF write_locked_pair_for_checkpoint
<1>4. k \in Keys /\ Writes(th[t], k) /\ InMemory(k)
  BY <1>1, WrittenThere DEF ThreadOK
<1>5. PICK left : left = th[t].todo \ {k}
  OBVIOUS
<1>6. PICK K : K = {k}
  OBVIOUS
<1>7. PICK g : g = IF left = {} /\ th[t].ph = "resolve" THEN Goto(t, Want(t).next) ELSE th
  OBVIOUS
<1>8. th' = [g EXCEPT ![t].todo = left, ![t].mod = @ \ K] /\ left \in SUBSET Keys
  BY <1>1, <1>3, <1>5, <1>6, <1>7
<1>9. CASE left = {} /\ th[t].ph = "resolve"
  <2>1. PinNext(th[t].pc, Want(t).next) /\ Want(t).next \in Pcs
    BY <1>2, PinsAt, PinnedNext
  <2>2. PICK next : next = Want(t).next
    OBVIOUS
  <2>3. Stepped(g, t, next, "go", th[t].todo, th[t].x, th[t].y, th[t].fl, th[t].mod)
    BY <1>1, <1>7, <1>9, <2>1, <2>2, GotoSteps
  <2>4. Stepped(th', t, next, "go", left, th[t].x, th[t].y, th[t].fl, th[t].mod \ K)
    BY ONLY t \in Clients, <1>8, <2>3, SteppedTodoMod
  <2> QED BY <1>1, <1>2, <1>3, <1>4, <1>5, <1>6, <1>9, <2>1, <2>2, <2>4
<1>10. CASE ~(left = {} /\ th[t].ph = "resolve")
  <2>1. Stepped(g, t, th[t].pc, th[t].ph, th[t].todo, th[t].x, th[t].y, th[t].fl, th[t].mod)
    BY <1>1, <1>7, <1>10 DEF Stepped, TypeOK
  <2>2. Stepped(th', t, th[t].pc, th[t].ph, left, th[t].x, th[t].y, th[t].fl, th[t].mod \ K)
    BY ONLY t \in Clients, <1>8, <2>1, SteppedTodoMod
  <2> QED BY <1>1, <1>2, <1>3, <1>4, <1>5, <1>6, <2>2
<1> QED BY <1>9, <1>10

LEMMA write_lockedKeeps ==
  ASSUME ControlOK, CacheTableAssumption, NEW t \in Clients, write_locked_pair_for_checkpoint(t)
  PROVE  ControlOK'
<1>1. /\ th[t].ph \in {"resolve", "insert"} /\ Pinned(th[t])
      /\ th[t].pc \in {"inject_root", "bg_child", "flush_root", "flush_child", "split_put",
                       "merge_a", "merge_b", "clean_pick"}
  BY write_lockedStep
<1>2. PICK k \in th[t].todo :
        /\ k \in Keys /\ Writes(th[t], k) /\ InMemory(k)
        /\ IF k \in Cloneable THEN clone_pair(k, "bg") ELSE cachetable_write_locked_pair(k, TRUE)
        /\ \/ /\ th[t].todo \ {k} = {} /\ th[t].ph = "resolve"
              /\ \E next : /\ PinNext(th[t].pc, next)
                           /\ Stepped(th', t, next, "go", {}, th[t].x, th[t].y, th[t].fl,
                                      th[t].mod \ {k})
           \/ Stepped(th', t, th[t].pc, th[t].ph, th[t].todo \ {k}, th[t].x, th[t].y, th[t].fl,
                      th[t].mod \ {k})
  BY write_lockedStep
<1>3. TypeOK /\ LocksOK /\ ThreadOK(th[t]) /\ closing = "no" /\ t \in Agents
      /\ UNCHANGED <<lock, plist, cp, ev, mo, evictions, closing, injected, before>>
  BY <1>1, ControlParts, ThreadParts, NotClosing DEF Agents, write_locked_pair_for_checkpoint, history
<1>4. LocksMove(t, {}, {}, {})
  BY <1>3, LocksKept
<1>5. /\ dm[k] = "free" /\ pair' \in [Keys -> Pairs] /\ \A j \in Keys : j # k => pair'[j] = pair[j]
      /\ pair'[k].st = pair[k].st /\ pair'[k].val = pair[k].val /\ pair'[k].pend = pair[k].pend
      /\ pair'[k].dirty = FALSE
      /\ disk' \in [Keys -> Vals] /\ ckpt' \in [Keys -> Vals]
      /\ \/ pair'[k].clone = pair[k].val /\ dm' = [dm EXCEPT ![k] = "bg"]
         \/ pair'[k].clone = pair[k].clone /\ dm' = dm
  BY <1>2, <1>3, ClonedOrWritten
<1>6. /\ th' \in [Clients -> Threads] /\ \A u \in Clients : u # t => th'[u] = th[u]
      /\ th'[t].todo = th[t].todo \ {k} /\ ThreadOK(th'[t])
      /\ \A j \in Keys : /\ Fetches(th'[t], j) <=> Fetches(th[t], j)
                         /\ ~Departs(th'[t], j) /\ ~Awaits(th'[t], j) /\ ~Refers(th'[t], j)
      /\ th'[t].pc \in MoPcs <=> th[t].pc \in MoPcs
      /\ \A j \in Keys : /\ Writes(th'[t], j) <=> Writes(th[t], j)
                         /\ Reads(th'[t], j) <=> Reads(th[t], j)
  <2>1. PICK todo, mod : todo = th[t].todo \ {k} /\ mod = th[t].mod \ {k}
    OBVIOUS
  <2>2. ASSUME todo = {}, th[t].ph = "resolve", NEW next, PinNext(th[t].pc, next),
               Stepped(th', t, next, "go", todo, th[t].x, th[t].y, th[t].fl, mod)
        PROVE  /\ ThreadOK(th'[t])
               /\ \A j \in Keys : /\ Fetches(th'[t], j) <=> Fetches(th[t], j)
                                  /\ ~Departs(th'[t], j) /\ ~Awaits(th'[t], j) /\ ~Refers(th'[t], j)
               /\ th'[t].pc \in MoPcs <=> th[t].pc \in MoPcs
               /\ \A j \in Keys : /\ Writes(th'[t], j) <=> Writes(th[t], j)
                                  /\ Reads(th'[t], j) <=> Reads(th[t], j)
    <3>1. mod \subseteq th[t].mod
      BY <2>1
    <3>2. /\ ThreadOK(th'[t]) /\ Quiet(th'[t])
          /\ th'[t].pc \in MoPcs <=> th[t].pc \in MoPcs
          /\ \A j \in Keys : /\ Writes(th'[t], j) <=> Writes(th[t], j)
                             /\ Reads(th'[t], j) <=> Reads(th[t], j)
      BY ONLY ControlOK, CacheTableAssumption, t \in Clients, <1>1, <2>2, <3>1, PinnedGoesOn
    <3> QED BY <2>2, <3>2 DEF Quiet, Fetches
  <2>3. ASSUME Stepped(th', t, th[t].pc, th[t].ph, todo, th[t].x, th[t].y, th[t].fl, mod)
        PROVE  /\ ThreadOK(th'[t])
               /\ \A j \in Keys : /\ Fetches(th'[t], j) <=> Fetches(th[t], j)
                                  /\ ~Departs(th'[t], j) /\ ~Awaits(th'[t], j) /\ ~Refers(th'[t], j)
               /\ th'[t].pc \in MoPcs <=> th[t].pc \in MoPcs
               /\ \A j \in Keys : /\ Writes(th'[t], j) <=> Writes(th[t], j)
                                  /\ Reads(th'[t], j) <=> Reads(th[t], j)
    <3>1. ToWrite(t, th[t].ph, todo, mod)
      <4>1. \A j \in todo : j \in Keys /\ Writes(th[t], j) /\ ~Fetches(th[t], j)
        BY <1>3, <2>1, ThreadsTyped DEF ThreadOK
      <4> QED BY <1>1, <2>1, <4>1 DEF ToWrite, Fetches
    <3>2. /\ ThreadOK(th'[t])
          /\ \A j \in Keys : /\ Fetches(th'[t], j) <=> Fetches(th[t], j)
                             /\ ~Departs(th'[t], j) /\ ~Awaits(th'[t], j) /\ ~Refers(th'[t], j)
          /\ \A j \in Keys : /\ Writes(th'[t], j) <=> Writes(th[t], j)
                             /\ Reads(th'[t], j) <=> Reads(th[t], j)
      BY ONLY ControlOK, CacheTableAssumption, t \in Clients, <2>3, <3>1, PinnedStays
    <3>3. th'[t].pc = th[t].pc
      BY <2>3 DEF Stepped
    <3> QED BY <3>2, <3>3
  <2>4. /\ th' \in [Clients -> Threads] /\ \A u \in Clients : u # t => th'[u] = th[u]
        /\ th'[t].todo = todo
    BY <1>2, <2>1 DEF Stepped
  <2> QED BY ONLY <1>2, <2>1, <2>2, <2>3, <2>4
<1>7. LocalOK(t)
  <2>1. \A j \in Keys : /\ Writes(th'[t], j) <=> j \in {} \/ (Writes(th[t], j) /\ j \notin {})
                        /\ Reads(th'[t], j) <=> j \in {} \/ (Reads(th[t], j) /\ j \notin {})
    BY <1>6
  <2>2. mo' = mo
    BY <1>3
  <2> QED BY ONLY ControlOK, t \in Clients, <1>4, <1>6, <2>1, <2>2, LocalFromRecord
<1>8. dm' \in [Keys -> {"free", "bg", "cp"}] /\ \A j \in Keys : j # k => dm'[j] = dm[j]
  BY <1>2, <1>3, <1>5 DEF TypeOK
<1>9. \A u \in Clients : k \notin th'[u].todo
  <2>1. \A u \in Clients : u # t => k \notin th[u].todo
    BY <1>2, WritersAlone, ControlParts, ThreadParts DEF ThreadOK
  <2> QED BY <1>6, <2>1
<1>10. PairOK(k) /\ InTodo(k) /\ ev[k] = "no" /\ AtStake(k) /\ ~(cp.ph = "write" /\ cp.cur = k)
  <2>1. PairOK(k) /\ InTodo(k) /\ ev[k] = "no" /\ ~(cp.ph = "write" /\ cp.cur = k)
    BY <1>2, PairParts, WrittenThere DEF InTodo
  <2> QED BY <2>1 DEF PairOK, PairPend
<1>11. ASSUME NEW j \in Keys PROVE PairOK(j)'
  <2>1. CASE j = k
    <3>1. (Fetching(k)' <=> Fetching(k)) /\ (Leaving(k)' <=> Leaving(k)) /\ ~InTodo(k)'
      <4>1. \A u \in Clients : /\ Fetches(th'[u], k) <=> Fetches(th[u], k)
                               /\ Departs(th'[u], k) <=> Departs(th[u], k)
        BY <1>1, <1>2, <1>6 DEF Departs
      <4> QED BY <1>3, <1>9, <4>1 DEF Fetching, Leaving, InTodo, Fetches, KeyOf, Departs
    <3>2. PairThere(k)'
      BY <1>2, <1>3, <1>5, <1>10, <3>1 DEF PairOK, PairThere, InMemory
    <3>3. PairValue(k)'
      BY <1>2, <1>3, <1>5, <1>10, <3>1 DEF PairOK, PairValue, InMemory
    <3>4. PairClone(k)'
      <4>1. dm[k] = "free" /\ pair[k].clone = <<>> /\ ~(cp.ph = "clone" /\ cp.cur = k)
        BY <1>5, <1>10 DEF PairOK, PairClone
      <4>2. /\ dm'[k] # "free" <=> pair'[k].clone # <<>>
            /\ dm'[k] # "cp"
        BY <1>2, <1>3, <1>5, <4>1 DEF InMemory, TypeOK
      <4> QED BY <1>2, <1>3, <1>5, <4>1, <4>2 DEF PairClone, InMemory
    <3>5. PairPend(k)'
      BY <1>3, <1>5, <1>10, <3>1 DEF PairOK, PairPend
    <3> QED BY <2>1, <3>2, <3>3, <3>4, <3>5 DEF PairOK
  <2>2. CASE j # k
    <3>1. PairOK(j) /\ KeyKept(j)
      BY <1>3, <1>5, <1>8, <2>2, PairParts DEF KeyKept, AtStake
    <3>2. \A u \in Clients : ThreadKept(u, j)
      BY <1>1, <1>6, <2>2 DEF ThreadKept, Departs
    <3> QED BY <3>1, <3>2, KeyUntouched
  <2> QED BY <2>1, <2>2
<1>12. PendRest'
  <2>1. cp.ph = "write" => cp.cur # k /\ cp.cur \in Keys
    BY <1>3, <1>10 DEF TypeOK
  <2>2. cp.ph \notin {"idle", "done"}
    BY <1>10, PendRestNow DEF PendRest, AtStake
  <2> QED BY <1>3, <1>5, <2>1, <2>2, PendRestNow DEF PendRest
<1> QED BY <1>3, <1>4, <1>5, <1>6, <1>7, <1>8, <1>11, <1>12, SpecialStep DEF TypeOK

\* A pair k comes into the table with the value v, and the bits of the pairs that the
\* request depends on are read: todo are those to be written for the checkpoint.
InsertIs(t, k, v, d, todo) ==
  /\ k \in Keys /\ k \notin Deps(t) /\ pair[k].st = "none" /\ lock' = Lock(k, t, "w")
  /\ Deps(t) \in SUBSET Keys /\ \A j \in Deps(t) : Writes(th[t], j) /\ InMemory(j)
  /\ pair' \in [Keys -> Pairs] /\ todo \in SUBSET Deps(t)
  /\ pair'[k].st = "table" /\ pair'[k].val = v /\ pair'[k].dirty = d
  /\ pair'[k].pend = FALSE /\ pair'[k].clone = <<>>
  /\ \A j \in Keys : j \notin Deps(t) /\ j # k => pair'[j] = pair[j]
  /\ \A j \in Deps(t) : /\ pair'[j].st = pair[j].st /\ pair'[j].val = pair[j].val
                        /\ pair'[j].clone = pair[j].clone /\ pair'[j].pend = FALSE
                        /\ pair'[j].dirty = (pair[j].dirty \/ j \in th[t].mod)
  /\ \A j \in Keys : j \in todo <=> j \in Deps(t) /\ pair[j].pend /\ pair'[j].dirty

LEMMA InsertBits ==
  ASSUME ControlOK, CacheTableAssumption, NEW t \in Clients, Pinning(t), th[t].ph = "go",
         NEW k \in Keys, pair[k].st = "none", NEW v \in Vals, NEW d \in BOOLEAN, NEW b,
         b = BitsOf(t, Deps(t), [pair EXCEPT ![k] = pair_init(v, d)]),
         pair' = b.pair, lock' = Lock(k, t, "w")
  PROVE  InsertIs(t, k, v, d, b.todo)
<1>1. pair \in [Keys -> Pairs]
  BY ControlParts DEF TypeOK
<1>2. PICK ks : ks = Deps(t)
  OBVIOUS
<1>3. ks \in SUBSET Keys /\ Deps(t) \subseteq ks /\ \A j \in ks : Writes(th[t], j) /\ InMemory(j)
  <2>1. ks \in SUBSET Keys /\ \A j \in ks : Writes(th[t], j)
    BY <1>2, DepsHeld
  <2> QED BY <1>2, <2>1, HeldInMemory
<1>4. k \notin ks
  BY <1>3 DEF InMemory
<1>5. PICK c : c = pair_init(v, d)
  OBVIOUS
<1>6. c \in Pairs /\ c.st = "table" /\ c.val = v /\ c.dirty = d /\ c.pend = FALSE /\ c.clone = <<>>
  BY <1>5, PairInit
<1>7. PICK p : p = [pair EXCEPT ![k] = c]
  OBVIOUS
<1>8. p \in [Keys -> Pairs] /\ p[k] = c /\ \A j \in Keys : j # k => p[j] = pair[j]
  BY ONLY <1>1, <1>6, <1>7, k \in Keys
<1>9. b = BitsOf(t, ks, p)
  BY <1>2, <1>5, <1>7
<1>10. /\ b.pair \in [Keys -> Pairs] /\ b.todo \in SUBSET Keys
       /\ \A j \in Keys : /\ b.pair[j].st = p[j].st /\ b.pair[j].val = p[j].val
                          /\ b.pair[j].clone = p[j].clone
                          /\ b.pair[j].pend = (p[j].pend /\ j \notin ks)
                          /\ b.pair[j].dirty = (p[j].dirty \/ j \in Deps(t) \cap th[t].mod)
                          /\ j \notin ks => b.pair[j] = p[j]
       /\ \A j \in Keys : j \in b.todo <=> /\ j \in ks /\ p[j].pend
                                           /\ p[j].dirty \/ j \in Deps(t) \cap th[t].mod
  BY ONLY t \in Clients, <1>3, <1>8, <1>9, BitsTyped
<1>11. /\ pair' \in [Keys -> Pairs] /\ pair'[k] = c
       /\ \A j \in Keys : j \notin ks /\ j # k => pair'[j] = pair[j]
  BY <1>4, <1>8, <1>10
<1>12. ASSUME NEW j \in ks
       PROVE  /\ pair'[j].st = pair[j].st /\ pair'[j].val = pair[j].val
              /\ pair'[j].clone = pair[j].clone /\ pair'[j].pend = FALSE
              /\ pair'[j].dirty = (pair[j].dirty \/ j \in th[t].mod)
              /\ j \in b.todo <=> pair[j].pend /\ pair'[j].dirty
  <2>1. j \in Keys /\ p[j] = pair[j] /\ pair'[j] = b.pair[j]
    BY <1>3, <1>4, <1>8, <1>12
  <2>2. /\ b.pair[j].st = p[j].st /\ b.pair[j].val = p[j].val /\ b.pair[j].clone = p[j].clone
        /\ b.pair[j].pend = (p[j].pend /\ j \notin ks)
        /\ b.pair[j].dirty = (p[j].dirty \/ j \in Deps(t) \cap th[t].mod)
    BY ONLY <1>10, <2>1
  <2>3. j \in b.todo <=> /\ j \in ks /\ p[j].pend
                         /\ p[j].dirty \/ j \in Deps(t) \cap th[t].mod
    BY ONLY <1>10, <2>1
  <2>4. pair'[j].pend = FALSE
    BY ONLY <2>1, <2>2, j \in ks
  <2>5. pair'[j].dirty = (pair[j].dirty \/ j \in th[t].mod)
    <3>1. j \in Deps(t) \cap th[t].mod <=> j \in th[t].mod
      BY <1>2
    <3> QED BY ONLY <2>1, <2>2, <3>1
  <2>6. j \in b.todo <=> pair[j].pend /\ pair'[j].dirty
    BY ONLY <2>1, <2>2, <2>3, j \in ks
  <2> QED BY ONLY <2>1, <2>2, <2>4, <2>5, <2>6
<1>13. \A j \in Keys : j \in b.todo <=> j \in ks /\ pair[j].pend /\ pair'[j].dirty
  <2>1. \A j \in Keys : j \in b.todo => j \in ks
    BY <1>10
  <2> QED BY ONLY <2>1, <1>12
<1>14. b.todo \in SUBSET ks
  BY <1>10
<1> QED BY ONLY <1>2, <1>3, <1>4, <1>6, <1>11, <1>12, <1>13, <1>14, k \in Keys, pair[k].st = "none",
        lock' = Lock(k, t, "w") DEF InsertIs

\* What becomes of the thread that puts it there.
InsertedBy(t, k, v, d, todo) ==
  /\ v = <<>> => ~d
  /\ th[t].todo = {} /\ Quiet(th[t])
  /\ th' \in [Clients -> Threads] /\ \A u \in Clients : u # t => th'[u] = th[u]
  /\ th'[t].todo = todo /\ ThreadOK(th'[t]) /\ (th'[t].pc \in MoPcs <=> th[t].pc \in MoPcs)
  /\ \A j \in Keys : /\ Writes(th'[t], j) <=> j \in {k} \/ Writes(th[t], j)
                     /\ Reads(th'[t], j) <=> Reads(th[t], j)
  /\ \A j \in Keys : /\ Fetches(th'[t], j) <=> j = k /\ v = <<>>
                     /\ ~Departs(th'[t], j) /\ ~Awaits(th'[t], j) /\ ~Refers(th'[t], j)
LEMMA InsertKeeps ==
  ASSUME ControlOK, CacheTableAssumption, NEW t \in Clients, closing = "no",
         NEW k, NEW v, NEW d, NEW todo, InsertIs(t, k, v, d, todo), InsertedBy(t, k, v, d, todo),
         UNCHANGED <<dm, disk, ckpt, plist, cp, ev, mo, evictions, closing, injected, before>>
  PROVE  ControlOK'
<1>0. /\ v = <<>> => ~d
      /\ th[t].todo = {} /\ Quiet(th[t])
      /\ th' \in [Clients -> Threads] /\ \A u \in Clients : u # t => th'[u] = th[u]
      /\ th'[t].todo = todo /\ ThreadOK(th'[t]) /\ (th'[t].pc \in MoPcs <=> th[t].pc \in MoPcs)
      /\ \A j \in Keys : /\ Writes(th'[t], j) <=> j \in {k} \/ Writes(th[t], j)
                         /\ Reads(th'[t], j) <=> Reads(th[t], j)
      /\ \A j \in Keys : /\ Fetches(th'[t], j) <=> j = k /\ v = <<>>
                         /\ ~Departs(th'[t], j) /\ ~Awaits(th'[t], j) /\ ~Refers(th'[t], j)
  BY DEF InsertedBy
<1> USE <1>0
<1>1. /\ k \in Keys /\ k \notin Deps(t) /\ pair[k].st = "none" /\ lock' = Lock(k, t, "w")
      /\ Deps(t) \in SUBSET Keys /\ \A j \in Deps(t) : Writes(th[t], j) /\ InMemory(j)
      /\ pair' \in [Keys -> Pairs] /\ todo \in SUBSET Deps(t)
      /\ pair'[k].st = "table" /\ pair'[k].val = v /\ pair'[k].dirty = d
      /\ pair'[k].pend = FALSE /\ pair'[k].clone = <<>>
      /\ \A j \in Keys : j \notin Deps(t) /\ j # k => pair'[j] = pair[j]
      /\ \A j \in Deps(t) : /\ pair'[j].st = pair[j].st /\ pair'[j].val = pair[j].val
                            /\ pair'[j].clone = pair[j].clone /\ pair'[j].pend = FALSE
      /\ \A j \in Keys : j \in todo => pair[j].pend
  BY DEF InsertIs
<1>2. TypeOK /\ LocksOK /\ ThreadOK(th[t]) /\ t \in Agents
  BY ControlParts, ThreadParts DEF Agents
<1>3. LocksMove(t, {k}, {}, {})
  BY <1>1, <1>2, LockedForWriting, NoPairThere
<1>4. LocalOK(t)
  <2>1. \A j \in Keys : /\ Writes(th'[t], j) <=> j \in {k} \/ (Writes(th[t], j) /\ j \notin {})
                        /\ Reads(th'[t], j) <=> j \in {} \/ (Reads(th[t], j) /\ j \notin {})
    OBVIOUS
  <2>2. mo' = mo /\ ThreadOK(th'[t]) /\ (th'[t].pc \in MoPcs <=> th[t].pc \in MoPcs)
    OBVIOUS
  <2> QED BY ONLY ControlOK, t \in Clients, <1>3, <2>1, <2>2, LocalFromRecord
<1>5. ASSUME NEW j \in Keys PROVE PairOK(j)'
  <2>1. CASE j = k
    <3>1. Fetching(k)' <=> v = <<>>
      <4>1. \A u \in Clients : u # t => ~Fetches(th'[u], k)
        BY <1>1, NoPairThere DEF Fetching
      <4>2. "rd" \notin lock'[k].w
        <5>1. lock[k].w = {} /\ "rd" \in Agents /\ "rd" # t
          BY <1>1, NoPairThere DEF Agents, CacheTableAssumption
        <5> QED BY <1>1, <1>3, <5>1 DEF LocksMove
      <4> QED BY <1>1, <4>1, <4>2 DEF Fetching, Fetches, KeyOf
    <3>2. ~InTodo(k)'
      <4>1. \A u \in Clients : k \notin th[u].todo
        BY <1>1, NoPairThere DEF InTodo
      <4> QED BY <1>1, <4>1 DEF InTodo
    <3>3. ~Leaving(k)'
      <4>1. \A u \in Clients : ~Departs(th[u], k)
        BY <1>1, NoPairThere DEF Leaving
      <4>2. \A u \in Clients : ~Departs(th'[u], k)
        BY <1>1, <4>1
      <4> QED BY <4>2 DEF Leaving, Departs
    <3> QED BY <1>1, <2>1, <3>1, <3>2, <3>3, Inserted
  <2>2. CASE j \in Deps(t)
    <3>1. lock'[j] = lock[j] /\ j # k
      BY <1>1, <1>3, <2>2 DEF LocksMove
    <3>2. j \in th'[t].todo => pair[j].pend
      BY <1>1
    <3>3. ~Fetches(th'[t], j) /\ ~Departs(th'[t], j)
      BY <3>1
    <3> QED BY <1>1, <2>2, <3>1, <3>2, <3>3, BitsKeep
  <2>3. CASE j # k /\ j \notin Deps(t)
    <3>1. lock'[j] = lock[j]
      BY <1>3, <2>3 DEF LocksMove
    <3>2. PairOK(j) /\ KeyKept(j)
      BY <1>1, <2>3, <3>1, PairParts DEF KeyKept, AtStake
    <3>3. j \notin th[t].todo /\ j \notin th'[t].todo
      BY <1>1, <2>3
    <3>4. \A u \in Clients : ThreadKept(u, j)
      BY <2>3, <3>3 DEF ThreadKept, Quiet
    <3> QED BY <3>2, <3>4, KeyUntouched
  <2> QED BY <2>1, <2>2, <2>3
<1>6. PendRest'
  <2>1. cp.ph = "write" => cp.cur \notin Deps(t) /\ cp.cur \in Keys /\ cp.cur # k
    BY <1>1, <1>2, WrittenThere, NoPairThere DEF TypeOK
  <2> QED BY <1>1, <2>1, PendRestNow DEF PendRest
<1> QED BY <1>1, <1>2, <1>3, <1>4, <1>5, <1>6, SpecialStep DEF TypeOK

LEMMA cachetable_insert_atStep ==
  ASSUME ControlOK, CacheTableAssumption, NEW t \in Clients, cachetable_insert_at(t)
  PROVE  /\ th[t].pc \in {"inject_root", "flush_root", "flush_child", "merge_a", "merge_b"}
         /\ th[t].ph = "go"
         /\ \E todo : /\ InsertIs(t, KeyOf(th[t]), <<>>, FALSE, todo)
                      /\ Stepped(th', t, th[t].pc, "insert", todo, th[t].x, th[t].y, th[t].fl, th[t].mod)
<1>1. /\ th[t].pc \in {"inject_root", "flush_root", "flush_child", "merge_a", "merge_b"}
      /\ th[t].ph = "go" /\ Key(t) = KeyOf(th[t]) /\ Pinning(t) /\ TypeOK
  BY PinCases, KeyIsKeyOf, ControlParts DEF PinIs, cachetable_insert_at
<1>2. PICK k \in Keys : k = KeyOf(th[t])
  BY KeyTyped
<1>3. PICK b : b = BitsOf(t, Deps(t), [pair EXCEPT ![k] = pair_init(<<>>, FALSE)])
  OBVIOUS
<1>4. /\ pair[k].st = "none" /\ pair' = b.pair /\ lock' = Lock(k, t, "w")
      /\ th' = [th EXCEPT ![t].ph = "insert", ![t].todo = b.todo]
  BY <1>1, <1>2, <1>3 DEF cachetable_insert_at
<1>5. InsertIs(t, k, <<>>, FALSE, b.todo)
  <2>1. <<>> \in Vals
    BY DEF Vals
  <2> QED BY <1>1, <1>3, <1>4, <2>1, InsertBits
<1>6. Stepped(th', t, th[t].pc, "insert", b.todo, th[t].x, th[t].y, th[t].fl, th[t].mod)
  <2>1. b.todo \in SUBSET Keys
    BY <1>5 DEF InsertIs
  <2> QED BY <1>1, <1>4, <2>1, SteppedPhTodo
<1> QED BY <1>1, <1>2, <1>5, <1>6

LEMMA cachetable_insert_atKeeps ==
  ASSUME ControlOK, CacheTableAssumption, NEW t \in Clients, cachetable_insert_at(t)
  PROVE  ControlOK'
<1>1. /\ th[t].pc \in {"inject_root", "flush_root", "flush_child", "merge_a", "merge_b"}
      /\ th[t].ph = "go"
  BY cachetable_insert_atStep
<1>2. PICK k : k = KeyOf(th[t])
  OBVIOUS
<1>3. PICK todo : /\ InsertIs(t, k, <<>>, FALSE, todo)
                  /\ Stepped(th', t, th[t].pc, "insert", todo, th[t].x, th[t].y, th[t].fl, th[t].mod)
  BY <1>2, cachetable_insert_atStep
<1>4. ThreadOK(th[t]) /\ closing = "no" /\ Pinning(t) /\ th[t].todo = {}
  <2>1. ThreadOK(th[t]) /\ closing = "no" /\ Pinning(t)
    BY <1>1, ThreadParts, NotClosing, PinsAt
  <2> QED BY <1>1, <2>1 DEF ThreadOK
<1>5. \A j \in todo : Writes(th[t], j) /\ j # k /\ j \in Keys
  BY <1>3 DEF InsertIs
<1>6. \A j \in Keys : /\ Writes(th'[t], j) <=> j \in {k} \/ Writes(th[t], j)
                      /\ Reads(th'[t], j) <=> Reads(th[t], j)
  BY <1>1, <1>2, <1>3 DEF Stepped, Writes, HasRoot, HasX, HasY, Pinned, Reads, ReadsRoot, KeyOf
<1>7. \A j \in Keys : /\ Fetches(th'[t], j) <=> j = k
                      /\ ~Departs(th'[t], j) /\ ~Awaits(th'[t], j) /\ ~Refers(th'[t], j)
  BY <1>1, <1>2, <1>3 DEF Stepped, Fetches, Departs, Awaits, Refers, KeyOf
<1>8. ThreadOK(th'[t])
  <2>1. /\ th'[t].ph \in Phases(th'[t].pc)
        /\ UsesX(th'[t]) => th'[t].x \in Leaves
        /\ UsesY(th'[t]) => th'[t].y \in Leaves /\ th'[t].y # th'[t].x
        /\ th'[t].fl # {} => th'[t].pc \in FlPcs
    BY <1>1, <1>3, <1>4 DEF Stepped, ThreadOK, Phases, UsesX, UsesY, HasX, HasY, Pinned, FlPcs
  <2>2. \A j \in th'[t].todo : Writes(th'[t], j) /\ ~Fetches(th'[t], j)
    BY <1>3, <1>5, <1>6, <1>7 DEF Stepped
  <2>3. \A j \in th[t].mod : j \in Keys /\ Writes(th[t], j)
    BY <1>4, ThreadsTyped, ControlParts DEF ThreadOK
  <2>4. \A j \in th'[t].mod : Writes(th'[t], j)
    BY <1>3, <1>6, <2>3 DEF Stepped
  <2>5. KeyOf(th'[t]) = k /\ k \notin th'[t].mod
    <3>1. ~Writes(th[t], k)
      BY <1>3, NoPairThere DEF InsertIs
    <3> QED BY <1>2, <1>3, <2>3, <3>1 DEF Stepped, KeyOf
  <2>6. th'[t].ph = "insert"
    BY <1>3 DEF Stepped
  <2> QED BY <2>1, <2>2, <2>4, <2>5, <2>6 DEF ThreadOK
<1>9. Quiet(th[t])
  BY <1>1 DEF Quiet, Fetches, Departs, Awaits, Refers
<1>10. UNCHANGED <<dm, disk, ckpt, plist, cp, ev, mo, evictions, closing, injected, before>>
  BY DEF cachetable_insert_at, history
<1>11. /\ th' \in [Clients -> Threads] /\ \A u \in Clients : u # t => th'[u] = th[u]
       /\ th'[t].todo = todo /\ (th'[t].pc \in MoPcs <=> th[t].pc \in MoPcs)
  BY <1>3 DEF Stepped
<1>12. PICK v, d : v = <<>> /\ d = FALSE
  OBVIOUS
<1>13. \A j \in Keys : /\ Fetches(th'[t], j) <=> j = k /\ v = <<>>
                       /\ ~Departs(th'[t], j) /\ ~Awaits(th'[t], j) /\ ~Refers(th'[t], j)
  BY <1>7, <1>12
<1>14. InsertIs(t, k, v, d, todo) /\ (v = <<>> => ~d)
  BY <1>3, <1>12
<1>15. InsertedBy(t, k, v, d, todo)
  BY ONLY <1>4, <1>6, <1>8, <1>9, <1>11, <1>13, <1>14 DEF InsertedBy
<1> QED BY ONLY ControlOK, CacheTableAssumption, t \in Clients, <1>4, <1>10, <1>14, <1>15, InsertKeeps

\* ---------------------------------------------------------------- fetches

\* A node that is read from disk has a block: it is linked in the tree.
LEMMA FetchFinds ==
  ASSUME ControlOK, TreeOK, CacheTableAssumption, NEW k \in Keys, Fetching(k)
  PROVE  disk[k] # <<>> /\ pair[k].st = "table" /\ pair[k].val = <<>> /\ lock[k].w # {}
<1>1. lock[k].w # {}
  <2>1. CASE "rd" \in lock[k].w
    BY <2>1
  <2>2. ASSUME NEW u \in Clients, Fetches(th[u], k) PROVE lock[k].w # {}
    BY <2>2, FetchesWrites, ThreadParts
  <2> QED BY <2>1, <2>2 DEF Fetching
<1>2. pair[k].st = "table" /\ pair[k].val = <<>>
  <2>1. PairOK(k) /\ pair[k] \in Pairs
    BY PairParts, ControlParts DEF TypeOK
  <2>2. pair[k].st = "table"
    BY <1>1, <2>1 DEF PairOK, PairThere, Pairs
  <2> QED BY <2>1, <2>2 DEF PairOK, PairValue
<1>3. Now[k] = disk[k]
  BY <1>2 DEF Now, InMemory
<1>4. k \in Reachable(Now)
  <2>1. CASE k = Root
    BY <2>1 DEF Reachable
  <2>2. CASE k \in Leaves
    <3>1. ASSUME NEW u \in Clients, Unlinked(th[u], k) PROVE FALSE
      <4>1. Writes(th[u], k) /\ ~Fetches(th[u], k)
        BY <3>1, ThreadParts DEF Unlinked, Writes, HasY, Pinned, Fetches, ThreadOK, Phases
      <4> QED BY <4>1, <1>2, WrittenThere DEF InMemory
    <3>2. k \in KidsOf(Now)
      BY <1>2, <2>2, <3>1 DEF TreeOK, LeafOK
    <3>3. Now[Root] # <<>>
      BY DEF TreeOK, Whole, Reachable
    <3> QED BY <3>2, <3>3 DEF Reachable, KidsOf
  <2> QED BY <2>1, <2>2 DEF Keys
<1> QED BY <1>1, <1>2, <1>3, <1>4 DEF TreeOK, Whole

LEMMA FetchedIs ==
  ASSUME TypeOK, NEW k \in Keys, pair' = Fetched(k)
  PROVE  /\ pair' \in [Keys -> Pairs] /\ \A j \in Keys : j # k => pair'[j] = pair[j]
         /\ pair'[k].st = pair[k].st /\ pair'[k].val = disk[k] /\ pair'[k].dirty = pair[k].dirty
         /\ pair'[k].pend = pair[k].pend /\ pair'[k].clone = pair[k].clone
<1>1. pair \in [Keys -> Pairs] /\ disk[k] \in Vals /\ pair' = [pair EXCEPT ![k].val = disk[k]]
  BY DEF TypeOK, Fetched
<1>2. PICK v \in Vals : v = disk[k]
  BY <1>1
<1>3. PICK p : p = [pair EXCEPT ![k].val = v]
  OBVIOUS
<1>4. /\ p \in [Keys -> Pairs] /\ \A j \in Keys : j # k => p[j] = pair[j]
      /\ p[k].st = pair[k].st /\ p[k].val = v /\ p[k].dirty = pair[k].dirty
      /\ p[k].pend = pair[k].pend /\ p[k].clone = pair[k].clone
  BY ONLY <1>1, <1>3, v \in Vals, k \in Keys DEF Pairs
<1> QED BY <1>1, <1>2, <1>3, <1>4

LEMMA FetchedOK ==
  ASSUME ControlOK, TreeOK, CacheTableAssumption, NEW k \in Keys, Fetching(k), pair' = Fetched(k),
         UNCHANGED <<dm, ev, plist, cp>>, ~Fetching(k)',
         ~Leaving(k)', InTodo(k)' <=> InTodo(k)
  PROVE  PairOK(k)'
<1>1. PairOK(k) /\ disk[k] # <<>> /\ pair[k].st = "table" /\ pair[k].val = <<>>
  BY FetchFinds, PairParts
<1>2. /\ pair'[k].st = pair[k].st /\ pair'[k].val = disk[k] /\ pair'[k].dirty = pair[k].dirty
      /\ pair'[k].pend = pair[k].pend /\ pair'[k].clone = pair[k].clone
  BY FetchedIs, ControlParts
<1>3. AtStake(k)' <=> AtStake(k)
  BY DEF AtStake
<1>4. PairThere(k)' /\ PairValue(k)'
  BY <1>1, <1>2, <1>3 DEF PairOK, PairThere, PairValue, InMemory
<1>5. PairClone(k)' /\ PairPend(k)'
  BY <1>1, <1>2, <1>3 DEF PairOK, PairClone, PairPend, InMemory
<1> QED BY <1>4, <1>5 DEF PairOK

\* The pending bits of the pair that is read and of the others are as before.
LEMMA FetchedPendRest ==
  ASSUME ControlOK, NEW k \in Keys, pair' = Fetched(k), UNCHANGED <<dm, plist, cp>>
  PROVE  PendRest'
<1>1. \A j \in Keys : pair'[j].pend = pair[j].pend /\ pair'[j].dirty = pair[j].dirty
  BY FetchedIs, ControlParts
<1>2. cp.cur \in Keys
  BY ControlParts DEF TypeOK
<1> QED BY <1>1, <1>2, PendRestNow DEF PendRest

LEMMA cachetable_fetch_pairStep ==
  ASSUME ControlOK, CacheTableAssumption, NEW t \in Clients, cachetable_fetch_pair(t)
  PROVE  /\ th[t].ph = "insert" /\ th[t].todo = {} /\ Pinned(th[t]) /\ Pinning(t)
         /\ KeyOf(th[t]) \in Keys /\ pair' = Fetched(KeyOf(th[t]))
         /\ \E next : /\ PinNext(th[t].pc, next)
                      /\ Stepped(th', t, next, "go", {}, th[t].x, th[t].y, th[t].fl, th[t].mod)
<1>1. /\ th[t].ph = "insert" /\ th[t].todo = {} /\ Pinned(th[t]) /\ Pinning(t) /\ TypeOK
      /\ pair' = Fetched(KeyOf(th[t])) /\ th' = Goto(t, Want(t).next)
  BY KeyIsKeyOf, ControlParts DEF cachetable_fetch_pair, Pinned
<1>2. PinNext(th[t].pc, Want(t).next) /\ Want(t).next \in Pcs
  BY <1>1, PinnedNext
<1>3. Stepped(th', t, Want(t).next, "go", {}, th[t].x, th[t].y, th[t].fl, th[t].mod)
  BY <1>1, <1>2, GotoSteps
<1> QED BY <1>1, <1>2, <1>3, KeyTyped

LEMMA cachetable_fetch_pairKeeps ==
  ASSUME ControlOK, TreeOK, CacheTableAssumption, NEW t \in Clients, cachetable_fetch_pair(t)
  PROVE  ControlOK'
<1>1. PICK k : k = KeyOf(th[t])
  OBVIOUS
<1>2. /\ th[t].ph = "insert" /\ th[t].todo = {} /\ Pinned(th[t]) /\ Pinning(t)
      /\ k \in Keys /\ pair' = Fetched(k)
  BY <1>1, cachetable_fetch_pairStep
<1>3. PICK next : /\ PinNext(th[t].pc, next)
                  /\ Stepped(th', t, next, "go", {}, th[t].x, th[t].y, th[t].fl, th[t].mod)
  BY cachetable_fetch_pairStep
<1>4. /\ TypeOK /\ LocksOK /\ ThreadOK(th[t]) /\ closing = "no" /\ t \in Agents
      /\ UNCHANGED <<lock, dm, disk, ckpt, plist, cp, ev, mo, evictions, closing, injected, before>>
  BY <1>2, <1>3, ControlParts, ThreadParts, NotClosing
     DEF Agents, cachetable_fetch_pair, history, PinNext
<1>5. LocksMove(t, {}, {}, {})
  BY <1>4, LocksKept
<1>6. /\ ThreadOK(th'[t]) /\ Quiet(th'[t])
      /\ th'[t].pc \in MoPcs <=> th[t].pc \in MoPcs
      /\ \A j \in Keys : /\ Writes(th'[t], j) <=> Writes(th[t], j)
                         /\ Reads(th'[t], j) <=> Reads(th[t], j)
  <2>1. PICK todo, mod : todo = {} /\ mod = th[t].mod
    OBVIOUS
  <2>2. mod \subseteq th[t].mod /\ Stepped(th', t, next, "go", todo, th[t].x, th[t].y, th[t].fl, mod)
    BY <1>3, <2>1
  <2> QED BY <1>2, <1>3, <2>1, <2>2, PinnedGoesOn
<1>7. LocalOK(t)
  <2>1. \A j \in Keys : /\ Writes(th'[t], j) <=> j \in {} \/ (Writes(th[t], j) /\ j \notin {})
                        /\ Reads(th'[t], j) <=> j \in {} \/ (Reads(th[t], j) /\ j \notin {})
    BY <1>6
  <2>2. mo' = mo
    BY <1>4
  <2> QED BY ONLY ControlOK, t \in Clients, <1>5, <1>6, <2>1, <2>2, LocalFromRecord
<1>8. /\ th' \in [Clients -> Threads] /\ \A u \in Clients : u # t => th'[u] = th[u]
      /\ th'[t].todo = th[t].todo
  BY <1>2, <1>3 DEF Stepped
<1>9. /\ pair' \in [Keys -> Pairs] /\ \A j \in Keys : j # k => pair'[j] = pair[j]
  BY <1>2, <1>4, FetchedIs
<1>10. Fetches(th[t], k) /\ \A j \in Keys : j # k => ~Fetches(th[t], j)
  BY <1>1, <1>2 DEF Fetches
<1>11. \A j \in Keys : ~Departs(th[t], j) /\ ~Awaits(th[t], j) /\ ~Refers(th[t], j)
  BY <1>2 DEF Departs, Awaits, Refers
<1>12. ASSUME NEW j \in Keys PROVE PairOK(j)'
  <2>1. CASE j = k
    <3>1. Fetching(k) /\ lock[k].w = {t} /\ Writes(th[t], k)
      BY <1>2, <1>4, <1>10, FetchesWrites, WrittenThere DEF Fetching
    <3>2. \A u \in Clients : u # t => ~Fetches(th[u], k)
      BY <1>2, <3>1, FetchesWrites, ThreadParts, WritersAlone, ControlParts
    <3>3. ~Fetching(k)'
      <4>1. \A u \in Clients : ~Fetches(th'[u], k)
        BY <1>2, <1>6, <1>8, <3>2 DEF Quiet
      <4>2. "rd" \notin lock'[k].w
        BY <1>4, <3>1 DEF CacheTableAssumption
      <4> QED BY <4>1, <4>2 DEF Fetching, Fetches, KeyOf
    <3>4. ~Leaving(k)'
      <4>1. \A u \in Clients : ~Departs(th[u], k)
        BY <1>2, <3>1, FetchFinds, PairParts DEF PairOK, PairThere, Leaving
      <4>2. \A u \in Clients : ~Departs(th'[u], k)
        BY <1>2, <1>6, <1>8, <4>1 DEF Quiet
      <4> QED BY <4>2 DEF Leaving, Departs
    <3>5. InTodo(k)' <=> InTodo(k)
      BY <1>8 DEF InTodo
    <3> QED BY <1>2, <1>4, <2>1, <3>1, <3>3, <3>4, <3>5, FetchedOK
  <2>2. CASE j # k
    <3>1. PairOK(j) /\ KeyKept(j)
      BY <1>4, <1>9, <2>2, PairParts DEF KeyKept, AtStake
    <3>2. \A u \in Clients : ThreadKept(u, j)
      BY <1>6, <1>8, <1>10, <1>11, <2>2 DEF ThreadKept, Quiet
    <3> QED BY <3>1, <3>2, KeyUntouched
  <2> QED BY <2>1, <2>2
<1>13. PendRest'
  BY <1>2, <1>4, FetchedPendRest
<1> QED BY <1>4, <1>5, <1>7, <1>8, <1>9, <1>12, <1>13, SpecialStep DEF TypeOK

LEMMA put_with_dep_pairsStep ==
  ASSUME ControlOK, CacheTableAssumption, NEW t \in Clients, put_with_dep_pairs(t)
  PROVE  /\ th[t].pc = "split_put" /\ th[t].ph = "go"
         /\ \E y \in Leaves, todo \in SUBSET Keys :
              /\ disk[y] = <<>>
              /\ InsertIs(t, y, <<Node({}, {})>>, TRUE, todo)
              /\ \/ /\ todo = {}
                    /\ Stepped(th', t, "split_do", "go", todo, th[t].x, y, th[t].fl, th[t].mod)
                 \/ Stepped(th', t, "split_put", "resolve", todo, th[t].x, y, th[t].fl, th[t].mod)
<1>1. /\ th[t].pc = "split_put" /\ th[t].ph = "go" /\ Pinning(t) /\ TypeOK /\ ThreadOK(th[t])
      /\ Want(t).next = "split_do" /\ "split_do" \in Pcs
  BY PinCases, PinTable, ControlParts, ThreadParts DEF PinIs, put_with_dep_pairs, Pinning, Pcs
<1>2. PICK y \in Leaves :
        /\ pair[y].st = "none" /\ disk[y] = <<>> /\ lock' = Lock(y, t, "w")
        /\ LET b == BitsOf(t, Deps(t), [pair EXCEPT ![y] = pair_init(<<Node({}, {})>>, TRUE)])
               next == IF b.todo = {} THEN Goto(t, Want(t).next) ELSE Phase(t, "resolve")
           IN /\ pair' = b.pair
              /\ th' = [next EXCEPT ![t].y = y, ![t].todo = b.todo]
  BY DEF put_with_dep_pairs
<1>3. PICK v \in Vals : v = <<Node({}, {})>>
  BY NodeInVals
<1>5. PICK b : b = BitsOf(t, Deps(t), [pair EXCEPT ![y] = pair_init(v, TRUE)])
  OBVIOUS
<1>6. PICK g : g = IF b.todo = {} THEN Goto(t, "split_do") ELSE Phase(t, "resolve")
  OBVIOUS
<1>7. pair' = b.pair /\ th' = [g EXCEPT ![t].y = y, ![t].todo = b.todo]
  BY <1>1, <1>2, <1>3, <1>5, <1>6
<1>8. y \in Keys
  BY DEF Keys
<1>9. InsertIs(t, y, v, TRUE, b.todo)
  <2>1. pair[y].st = "none" /\ lock' = Lock(y, t, "w") /\ pair' = b.pair
    BY <1>2, <1>7
  <2> QED BY <1>1, <1>5, <1>8, <2>1, InsertBits
<1>10. PICK todo : todo = b.todo
  OBVIOUS
<1>11. todo \in SUBSET Keys
  BY <1>9, <1>10 DEF InsertIs
<1>12. th[t].todo = {}
  BY <1>1 DEF ThreadOK
<1>13. CASE todo = {}
  <2>1. Stepped(g, t, "split_do", "go", th[t].todo, th[t].x, th[t].y, th[t].fl, th[t].mod)
    BY <1>1, <1>6, <1>10, <1>13, GotoSteps
  <2>2. Stepped(th', t, "split_do", "go", todo, th[t].x, y, th[t].fl, th[t].mod)
    BY ONLY t \in Clients, <1>7, <1>8, <1>10, <1>11, <2>1, SteppedYTodo
  <2> QED BY <1>1, <1>2, <1>3, <1>9, <1>10, <1>11, <1>13, <2>2
<1>14. CASE todo # {}
  <2>1. Stepped(g, t, "split_put", "resolve", th[t].todo, th[t].x, th[t].y, th[t].fl, th[t].mod)
    BY <1>1, <1>6, <1>10, <1>14, PhaseSteps
  <2>2. Stepped(th', t, "split_put", "resolve", todo, th[t].x, y, th[t].fl, th[t].mod)
    BY ONLY t \in Clients, <1>7, <1>8, <1>10, <1>11, <2>1, SteppedYTodo
  <2> QED BY <1>1, <1>2, <1>3, <1>9, <1>10, <1>11, <2>2
<1> QED BY <1>13, <1>14

LEMMA put_with_dep_pairsKeeps ==
  ASSUME ControlOK, CacheTableAssumption, NEW t \in Clients, put_with_dep_pairs(t)
  PROVE  ControlOK'
<1>1. /\ th[t].pc = "split_put" /\ th[t].ph = "go" /\ ThreadOK(th[t]) /\ closing = "no"
      /\ UNCHANGED <<dm, disk, ckpt, plist, cp, ev, mo, evictions, closing, injected, before>>
  BY put_with_dep_pairsStep, ThreadParts, NotClosing DEF put_with_dep_pairs, history
<1>2. PICK y \in Leaves, todo \in SUBSET Keys :
        /\ InsertIs(t, y, <<Node({}, {})>>, TRUE, todo)
        /\ \/ /\ todo = {}
              /\ Stepped(th', t, "split_do", "go", todo, th[t].x, y, th[t].fl, th[t].mod)
           \/ Stepped(th', t, "split_put", "resolve", todo, th[t].x, y, th[t].fl, th[t].mod)
  BY put_with_dep_pairsStep
<1>3. PICK v, d : v = <<Node({}, {})>> /\ d = TRUE
  OBVIOUS
<1>4. v # <<>>
  BY <1>3
<1>5. InsertIs(t, y, v, d, todo)
  BY <1>2, <1>3
<1>6. /\ y \in Keys /\ pair[y].st = "none"
      /\ \A j \in todo : j \in Keys /\ Writes(th[t], j)
  BY <1>5 DEF InsertIs
<1>7. /\ th' \in [Clients -> Threads] /\ \A u \in Clients : u # t => th'[u] = th[u]
      /\ th'[t].todo = todo /\ th'[t].x = th[t].x /\ th'[t].y = y /\ th'[t].fl = th[t].fl
      /\ th'[t].mod = th[t].mod
      /\ \/ th'[t].pc = "split_do" /\ th'[t].ph = "go" /\ todo = {}
         \/ th'[t].pc = "split_put" /\ th'[t].ph = "resolve"
  BY <1>2 DEF Stepped
<1>8. \A j \in Keys : /\ Writes(th'[t], j) <=> j \in {y} \/ Writes(th[t], j)
                      /\ Reads(th'[t], j) <=> Reads(th[t], j)
  BY <1>1, <1>7 DEF Writes, HasRoot, HasX, HasY, Pinned, Reads, ReadsRoot
<1>9. \A j \in Keys : /\ ~Fetches(th'[t], j)
                      /\ ~Departs(th'[t], j) /\ ~Awaits(th'[t], j) /\ ~Refers(th'[t], j)
  BY <1>7 DEF Fetches, Departs, Awaits, Refers
<1>10. ~Writes(th[t], y) /\ y # th[t].x
  <2>1. ~Writes(th[t], y)
    BY <1>6, NoPairThere
  <2>2. Writes(th[t], th[t].x)
    BY <1>1 DEF Writes, HasX
  <2> QED BY <2>1, <2>2
<1>11. ThreadOK(th'[t])
  <2>1. /\ th'[t].ph \in Phases(th'[t].pc)
        /\ UsesX(th'[t]) => th'[t].x \in Leaves
        /\ UsesY(th'[t]) => th'[t].y \in Leaves /\ th'[t].y # th'[t].x
        /\ th'[t].fl # {} => th'[t].pc \in FlPcs
    BY <1>1, <1>7, <1>10 DEF ThreadOK, Phases, UsesX, UsesY, HasX, HasY, Pinned, FlPcs
  <2>2. \A j \in th'[t].todo : Writes(th'[t], j) /\ ~Fetches(th'[t], j)
    BY <1>6, <1>7, <1>8, <1>9
  <2>3. \A j \in th[t].mod : j \in Keys /\ Writes(th[t], j)
    BY <1>1, ThreadsTyped, ControlParts DEF ThreadOK
  <2>4. \A j \in th'[t].mod : Writes(th'[t], j)
    BY <1>7, <1>8, <2>3
  <2>5. (Pinned(th'[t]) => KeyOf(th'[t]) \notin th'[t].mod) /\ th'[t].ph # "fetch_again"
    BY <1>7, <1>10, <2>3 DEF KeyOf, Pinned
  <2>6. th'[t].todo # {} => th'[t].ph \in {"resolve", "insert"}
    BY <1>7
  <2> QED BY ONLY <2>1, <2>2, <2>4, <2>5, <2>6 DEF ThreadOK
<1>12. Quiet(th[t]) /\ th[t].todo = {}
  BY <1>1 DEF Quiet, Fetches, Departs, Awaits, Refers, ThreadOK
<1>13. th'[t].pc \in MoPcs <=> th[t].pc \in MoPcs
  BY <1>1, <1>7 DEF MoPcs
<1>14. InsertedBy(t, y, v, d, todo)
  <2>1. \A j \in Keys : /\ Fetches(th'[t], j) <=> j = y /\ v = <<>>
                        /\ ~Departs(th'[t], j) /\ ~Awaits(th'[t], j) /\ ~Refers(th'[t], j)
    BY <1>4, <1>9
  <2> QED BY ONLY <1>4, <1>7, <1>8, <1>11, <1>12, <1>13, <2>1 DEF InsertedBy
<1> QED BY ONLY ControlOK, CacheTableAssumption, t \in Clients, <1>1, <1>5, <1>14, InsertKeeps

\* The pair is read for a query and unlocked.
LEMMA FetchAgainStep ==
  ASSUME ControlOK, NEW t \in Clients, FetchAgain(t)
  PROVE  /\ th[t].pc \in {"query_root", "query_child"} /\ th[t].ph = "fetch_again"
         /\ KeyOf(th[t]) \in Keys /\ pair' = Fetched(KeyOf(th[t]))
         /\ lock' = Unlocked(lock, {KeyOf(th[t])}, t)
         /\ Stepped(th', t, "query_root", "go", th[t].todo, th[t].x, th[t].y, th[t].fl, th[t].mod)
<1>1. /\ th[t].ph = "fetch_again" /\ Pinning(t) /\ TypeOK /\ ThreadOK(th[t])
      /\ pair' = Fetched(KeyOf(th[t])) /\ lock' = Unlocked(lock, {KeyOf(th[t])}, t)
      /\ th' = Goto(t, "query_root")
  BY KeyIsKeyOf, ControlParts, ThreadParts DEF FetchAgain
<1>2. th[t].pc \in {"query_root", "query_child"} /\ "query_root" \in Pcs
  BY <1>1, PinTable DEF ThreadOK, Phases, Pcs
<1> QED BY <1>1, <1>2, KeyTyped, GotoSteps

LEMMA FetchAgainKeeps ==
  ASSUME ControlOK, TreeOK, CacheTableAssumption, NEW t \in Clients, FetchAgain(t)
  PROVE  ControlOK'
<1>1. PICK k : k = KeyOf(th[t])
  OBVIOUS
<1>2. /\ th[t].pc \in {"query_root", "query_child"} /\ th[t].ph = "fetch_again"
      /\ k \in Keys /\ pair' = Fetched(k) /\ lock' = Unlocked(lock, {k}, t)
      /\ Stepped(th', t, "query_root", "go", th[t].todo, th[t].x, th[t].y, th[t].fl, th[t].mod)
  BY <1>1, FetchAgainStep
<1>3. /\ TypeOK /\ LocksOK /\ ThreadOK(th[t]) /\ closing = "no" /\ t \in Agents
      /\ UNCHANGED <<dm, disk, ckpt, plist, cp, ev, mo, evictions, closing, injected, before>>
  BY <1>2, ControlParts, ThreadParts, NotClosing DEF Agents, FetchAgain, history
<1>4. {k} \in SUBSET Keys /\ LocksMove(t, {}, {}, {k})
  BY <1>2, <1>3, LocksReleased
<1>5. ThreadOK(th'[t])
  BY <1>2, <1>3 DEF Stepped, ThreadOK, Phases, UsesX, UsesY, HasX, HasY, HasRoot, Writes, Pinned, KeyOf, FlPcs
<1>6. LocalOK(t)
  <2>1. \A j \in Keys : /\ Writes(th'[t], j) <=> j \in {} \/ (Writes(th[t], j) /\ j \notin {k})
                        /\ Reads(th'[t], j) <=> j \in {} \/ (Reads(th[t], j) /\ j \notin {k})
    BY <1>1, <1>2 DEF Stepped, Writes, HasRoot, HasX, HasY, Pinned, Reads, ReadsRoot, KeyOf
  <2>2. mo' = mo /\ (th'[t].pc \in MoPcs <=> th[t].pc \in MoPcs)
    BY <1>2, <1>3 DEF Stepped, MoPcs
  <2> QED BY ONLY ControlOK, t \in Clients, <1>4, <1>5, <2>1, <2>2, LocalFromRecord
<1>7. /\ th' \in [Clients -> Threads] /\ \A u \in Clients : u # t => th'[u] = th[u]
      /\ th'[t].todo = th[t].todo /\ Quiet(th'[t])
  BY <1>2 DEF Stepped, Quiet, Fetches, Departs, Awaits, Refers
<1>8. /\ pair' \in [Keys -> Pairs] /\ \A j \in Keys : j # k => pair'[j] = pair[j]
  BY <1>2, <1>3, FetchedIs
<1>9. Fetches(th[t], k) /\ \A j \in Keys : j # k => ~Fetches(th[t], j)
  BY <1>1, <1>2 DEF Fetches
<1>10. \A j \in Keys : ~Departs(th[t], j) /\ ~Awaits(th[t], j) /\ ~Refers(th[t], j)
  BY <1>2 DEF Departs, Awaits, Refers
<1>11. ASSUME NEW j \in Keys PROVE PairOK(j)'
  <2>1. CASE j = k
    <3>1. Fetching(k) /\ lock[k].w = {t} /\ Writes(th[t], k)
      BY <1>2, <1>3, <1>9, FetchesWrites, WrittenThere DEF Fetching
    <3>2. \A u \in Clients : u # t => ~Fetches(th[u], k)
      BY <1>2, <3>1, FetchesWrites, ThreadParts, WritersAlone, ControlParts
    <3>3. ~Fetching(k)'
      <4>1. \A u \in Clients : ~Fetches(th'[u], k)
        BY <1>2, <1>7, <3>2 DEF Quiet
      <4>2. "rd" \in Agents /\ "rd" # t /\ "rd" \notin lock[k].w
        BY <3>1 DEF CacheTableAssumption, Agents
      <4>3. "rd" \notin lock'[k].w
        BY <1>2, <1>4, <4>2 DEF LocksMove
      <4> QED BY <4>1, <4>3 DEF Fetching, Fetches, KeyOf
    <3>4. ~Leaving(k)'
      <4>1. \A u \in Clients : ~Departs(th[u], k)
        BY <1>2, <3>1, FetchFinds, PairParts DEF PairOK, PairThere, Leaving
      <4>2. \A u \in Clients : ~Departs(th'[u], k)
        BY <1>2, <1>7, <4>1 DEF Quiet
      <4> QED BY <4>2 DEF Leaving, Departs
    <3>5. InTodo(k)' <=> InTodo(k)
      BY <1>7 DEF InTodo
    <3> QED BY <1>2, <1>3, <2>1, <3>1, <3>3, <3>4, <3>5, FetchedOK
  <2>2. CASE j # k
    <3>0. lock'[j] = lock[j]
      BY <1>4, <2>2 DEF LocksMove
    <3>1. PairOK(j) /\ KeyKept(j)
      BY <1>3, <1>8, <2>2, <3>0, PairParts DEF KeyKept, AtStake
    <3>2. \A u \in Clients : ThreadKept(u, j)
      BY <1>7, <1>9, <1>10, <2>2 DEF ThreadKept, Quiet
    <3> QED BY <3>1, <3>2, KeyUntouched
  <2> QED BY <2>1, <2>2
<1>12. PendRest'
  BY <1>2, <1>3, FetchedPendRest
<1> QED BY <1>3, <1>4, <1>6, <1>7, <1>8, <1>11, <1>12, SpecialStep DEF TypeOK

\* ----------------------------------------------------------------- removal

\* Who waits for a leaf has the root locked, so nobody waits for a leaf that a thread
\* removes.
LEMMA NoneAwaits ==
  ASSUME ControlOK, NEW t \in Clients, HasRoot(th[t]), th[t].ph # "wait", NEW k \in Leaves,
         CacheTableAssumption
  PROVE  \A u \in Clients : ~Awaits(th[u], k)
<1>1. ASSUME NEW u \in Clients, Awaits(th[u], k) PROVE FALSE
  <2>1. ThreadOK(th[u]) /\ k # Root /\ Root \in Keys
    BY ThreadParts DEF CacheTableAssumption, Keys
  <2>2. HasRoot(th[u]) \/ ReadsRoot(th[u])
    BY <1>1, <2>1 DEF ThreadOK, Phases, Awaits, KeyOf, HasRoot, ReadsRoot, Pinned
  <2>3. t = u
    BY <2>1, <2>2, WritersAlone, ControlParts DEF Writes, Reads
  <2> QED BY <1>1, <2>3 DEF Awaits
<1> QED BY <1>1

LEMMA unpin_and_removeStep ==
  ASSUME ControlOK, CacheTableAssumption, NEW t \in Clients, unpin_and_remove(t)
  PROVE  LET k == th[t].y
         IN /\ th[t].pc = "merge_remove" /\ th[t].ph = "go" /\ dm[k] = "free"
            /\ k \in Keys /\ k \in Leaves /\ k # th[t].x /\ Writes(th[t], k)
            /\ pair' \in [Keys -> Pairs] /\ \A j \in Keys : j # k => pair'[j] = pair[j]
            /\ pair'[k].st = "removed" /\ pair'[k].pend = FALSE /\ pair'[k].dirty = FALSE
            /\ pair'[k].val = pair[k].val /\ pair'[k].clone = pair[k].clone
            /\ disk' = [disk EXCEPT ![k] = <<>>] /\ disk' \in [Keys -> Vals]
            /\ ckpt' = (IF pair[k].pend THEN [ckpt EXCEPT ![k] = <<>>] ELSE ckpt)
            /\ ckpt' \in [Keys -> Vals]
            /\ lock' = Unlocked(lock, {k}, t) /\ plist' = plist \ {k}
            /\ Stepped(th', t, "merge_remove", "leave", th[t].todo, th[t].x, k, th[t].fl,
                       th[t].mod \ {k})
<1>1. PICK k : k = th[t].y
  OBVIOUS
<1>2. /\ th[t].pc = "merge_remove" /\ th[t].ph = "go" /\ dm[k] = "free" /\ TypeOK /\ ThreadOK(th[t])
      /\ pair \in [Keys -> Pairs] /\ disk \in [Keys -> Vals] /\ ckpt \in [Keys -> Vals]
      /\ <<>> \in Vals
  BY <1>1, ControlParts, ThreadParts DEF unpin_and_remove, TypeOK, Vals
<1>3. k \in Leaves /\ k # th[t].x /\ Writes(th[t], k) /\ k \in Keys
  BY <1>1, <1>2 DEF ThreadOK, UsesY, Writes, HasY, Keys
<1>4. /\ pair' = [pair EXCEPT ![k].st = "removed", ![k].pend = FALSE, ![k].dirty = FALSE]
      /\ disk' = [disk EXCEPT ![k] = <<>>]
      /\ ckpt' = (IF pair[k].pend THEN [ckpt EXCEPT ![k] = <<>>] ELSE ckpt)
      /\ lock' = Unlocked(lock, {k}, t) /\ plist' = plist \ {k}
      /\ th' = [Phase(t, "leave") EXCEPT ![t].mod = @ \ {k}]
  BY <1>1 DEF unpin_and_remove
<1>5. /\ pair' \in [Keys -> Pairs] /\ \A j \in Keys : j # k => pair'[j] = pair[j]
      /\ pair'[k].st = "removed" /\ pair'[k].pend = FALSE /\ pair'[k].dirty = FALSE
      /\ pair'[k].val = pair[k].val /\ pair'[k].clone = pair[k].clone
  <2>1. pair' = [pair EXCEPT ![k].st = "removed", ![k].pend = FALSE, ![k].dirty = FALSE]
    BY <1>4
  <2> QED BY ONLY <1>2, <2>1, <1>3 DEF Pairs
<1>6. disk' \in [Keys -> Vals] /\ ckpt' \in [Keys -> Vals]
  BY <1>2, <1>3, <1>4
<1>7. Stepped(th', t, "merge_remove", "leave", th[t].todo, th[t].x, th[t].y, th[t].fl, th[t].mod \ {k})
  <2>1. PICK g : g = Phase(t, "leave")
    OBVIOUS
  <2>2. Stepped(g, t, th[t].pc, "leave", th[t].todo, th[t].x, th[t].y, th[t].fl, th[t].mod)
    BY <1>2, <2>1, PhaseSteps
  <2>3. PICK K : K = {k}
    OBVIOUS
  <2>4. th' = [g EXCEPT ![t].mod = @ \ K]
    BY <1>4, <2>1, <2>3
  <2>5. Stepped(th', t, th[t].pc, "leave", th[t].todo, th[t].x, th[t].y, th[t].fl, th[t].mod \ K)
    BY ONLY t \in Clients, <2>2, <2>4, SteppedLess
  <2> QED BY <1>2, <2>3, <2>5
<1> QED BY <1>1, <1>2, <1>3, <1>4, <1>5, <1>6, <1>7

LEMMA unpin_and_removeKeeps ==
  ASSUME ControlOK, CacheTableAssumption, NEW t \in Clients, unpin_and_remove(t)
  PROVE  ControlOK'
<1>1. PICK k : k = th[t].y
  OBVIOUS
<1>2. /\ th[t].pc = "merge_remove" /\ th[t].ph = "go" /\ dm[k] = "free"
      /\ k \in Keys /\ k \in Leaves /\ k # th[t].x /\ Writes(th[t], k)
      /\ pair' \in [Keys -> Pairs] /\ \A j \in Keys : j # k => pair'[j] = pair[j]
      /\ pair'[k].st = "removed" /\ pair'[k].pend = FALSE /\ pair'[k].dirty = FALSE
      /\ pair'[k].val = pair[k].val /\ pair'[k].clone = pair[k].clone
      /\ disk' \in [Keys -> Vals] /\ ckpt' \in [Keys -> Vals]
      /\ lock' = Unlocked(lock, {k}, t) /\ plist' = plist \ {k}
      /\ Stepped(th', t, "merge_remove", "leave", th[t].todo, th[t].x, k, th[t].fl, th[t].mod \ {k})
  BY <1>1, unpin_and_removeStep
<1>3. /\ TypeOK /\ LocksOK /\ ThreadOK(th[t]) /\ closing = "no" /\ t \in Agents /\ PairOK(k)
      /\ UNCHANGED <<dm, cp, ev, mo, evictions, closing, injected, before>>
  BY <1>2, ControlParts, ThreadParts, NotClosing, PairParts DEF Agents, unpin_and_remove, history
<1>4. {k} \in SUBSET Keys /\ LocksMove(t, {}, {}, {k})
  BY <1>2, <1>3, LocksReleased
<1>5. /\ th' \in [Clients -> Threads] /\ \A u \in Clients : u # t => th'[u] = th[u]
      /\ th'[t].pc = "merge_remove" /\ th'[t].ph = "leave" /\ th'[t].todo = {} /\ th[t].todo = {}
      /\ th'[t].x = th[t].x /\ th'[t].y = k /\ th'[t].fl = th[t].fl /\ th'[t].mod = th[t].mod \ {k}
  BY <1>2, <1>3 DEF Stepped, ThreadOK
<1>6. \A j \in Keys : /\ Writes(th'[t], j) <=> j \in {} \/ (Writes(th[t], j) /\ j \notin {k})
                      /\ Reads(th'[t], j) <=> j \in {} \/ (Reads(th[t], j) /\ j \notin {k})
  BY <1>1, <1>2, <1>5 DEF Writes, HasRoot, HasX, HasY, Pinned, Reads, ReadsRoot, CacheTableAssumption
<1>7. ThreadOK(th'[t])
  <2>1. /\ th'[t].ph \in Phases(th'[t].pc)
        /\ UsesX(th'[t]) => th'[t].x \in Leaves
        /\ UsesY(th'[t]) => th'[t].y \in Leaves /\ th'[t].y # th'[t].x
        /\ th'[t].fl # {} => th'[t].pc \in FlPcs
    BY <1>2, <1>3, <1>5 DEF ThreadOK, Phases, UsesX, UsesY, HasX, HasY, Pinned, FlPcs
  <2>2. \A j \in th[t].mod : j \in Keys /\ Writes(th[t], j)
    BY <1>3, ThreadsTyped DEF ThreadOK
  <2>3. \A j \in th'[t].mod : Writes(th'[t], j)
    BY <1>5, <1>6, <2>2
  <2>4. th'[t].todo = {} /\ ~Pinned(th'[t]) /\ th'[t].ph # "fetch_again"
    BY <1>5 DEF Pinned
  <2> QED BY ONLY <2>1, <2>3, <2>4 DEF ThreadOK
<1>8. LocalOK(t)
  <2>1. mo' = mo /\ (th'[t].pc \in MoPcs <=> th[t].pc \in MoPcs)
    BY <1>2, <1>3, <1>5
  <2> QED BY ONLY ControlOK, t \in Clients, <1>4, <1>6, <1>7, <2>1, LocalFromRecord
<1>9. \A j \in Keys : ~Fetches(th[t], j) /\ ~Departs(th[t], j) /\ ~Awaits(th[t], j) /\ ~Refers(th[t], j)
  BY <1>2 DEF Fetches, Departs, Awaits, Refers
<1>10. \A j \in Keys : /\ ~Fetches(th'[t], j) /\ ~Awaits(th'[t], j) /\ ~Refers(th'[t], j)
                       /\ Departs(th'[t], j) <=> j = k
  BY <1>5 DEF Fetches, Departs, Awaits, Refers
<1>11. /\ lock[k].w = {t} /\ lock[k].r = {} /\ ev[k] = "no" /\ pair[k].clone = <<>>
       /\ ~(cp.ph = "write" /\ cp.cur = k) /\ ~(cp.ph = "clone" /\ cp.cur = k)
  <2>1. lock[k].w = {t} /\ lock[k].r = {} /\ ev[k] = "no" /\ ~(cp.ph = "write" /\ cp.cur = k)
    BY <1>2, WrittenThere
  <2> QED BY <1>2, <1>3, <2>1 DEF PairOK, PairClone
<1>12. lock'[k].w = {} /\ lock'[k].r = {}
  <2>1. \A b \in Agents : b \notin lock'[k].w /\ b \notin lock'[k].r
    BY <1>2, <1>4, <1>11 DEF LocksMove
  <2> QED BY <1>2, <1>4, <2>1 DEF LocksMove, LockType, Agents
<1>13. ASSUME NEW j \in Keys PROVE PairOK(j)'
  <2>1. CASE j = k
    <3>1. Leaving(k)'
      BY <1>2, <1>10 DEF Leaving, Departs
    <3>2. ~InTodo(k)'
      <4>1. \A u \in Clients : u # t => k \notin th[u].todo
        BY <1>2, WritersAlone, ControlParts, ThreadParts DEF ThreadOK
      <4> QED BY <1>5, <4>1 DEF InTodo
    <3>3. \A u \in Clients : (~Awaits(th[u], k))'
      <4>1. HasRoot(th[t])
        BY <1>2 DEF HasRoot
      <4>2. \A u \in Clients : ~Awaits(th[u], k)
        BY <1>2, <4>1, NoneAwaits
      <4> QED BY <1>2, <1>5, <1>10, <4>2 DEF Awaits, KeyOf
    <3>4. PairThere(k)'
      BY <1>2, <1>11, <1>12, <3>1, <3>3 DEF PairThere
    <3>5. PairValue(k)'
      BY <1>2, <1>3, <1>11 DEF PairValue
    <3>6. PairClone(k)' /\ PairPend(k)'
      BY <1>2, <1>3, <1>11, <3>2 DEF PairClone, PairPend
    <3> QED BY <2>1, <3>4, <3>5, <3>6 DEF PairOK
  <2>2. CASE j # k
    <3>0. lock'[j] = lock[j]
      BY <1>4, <2>2 DEF LocksMove
    <3>1. PairOK(j) /\ KeyKept(j)
      BY <1>2, <1>3, <2>2, <3>0, PairParts DEF KeyKept, AtStake
    <3>2. \A u \in Clients : ThreadKept(u, j)
      BY <1>5, <1>9, <1>10, <2>2 DEF ThreadKept
    <3> QED BY <3>1, <3>2, KeyUntouched
  <2> QED BY <2>1, <2>2
<1>14. PendRest'
  <2>1. cp.ph = "write" => cp.cur # k /\ cp.cur \in Keys
    BY <1>3, <1>11 DEF TypeOK
  <2> QED BY <1>2, <1>3, <2>1, PendRestNow DEF PendRest
<1>15. dm' \in [Keys -> {"free", "bg", "cp"}] /\ plist' \in SUBSET Keys
  BY <1>2, <1>3 DEF TypeOK
<1> QED BY <1>2, <1>3, <1>4, <1>5, <1>8, <1>13, <1>14, <1>15, SpecialStep

LEMMA FreeRemovedStep ==
  ASSUME ControlOK, CacheTableAssumption, NEW t \in Clients, FreeRemoved(t)
  PROVE  LET k == th[t].y
         IN /\ th[t].pc = "merge_remove" /\ th[t].ph = "leave" /\ Deserted(k) /\ k \in Leaves
            /\ k \in Keys /\ k # th[t].x /\ Departs(th[t], k)
            /\ pair' \in [Keys -> Pairs] /\ \A j \in Keys : j # k => pair'[j] = pair[j]
            /\ pair'[k] = NoPair
            /\ Stepped(th', t, "unpin_both", "go", th[t].todo, th[t].x, k, th[t].fl, th[t].mod)
<1>1. PICK k : k = th[t].y
  OBVIOUS
<1>2. /\ th[t].pc = "merge_remove" /\ th[t].ph = "leave" /\ Deserted(k) /\ TypeOK /\ ThreadOK(th[t])
      /\ pair' = [pair EXCEPT ![k] = NoPair] /\ th' = Goto(t, "unpin_both")
      /\ pair \in [Keys -> Pairs] /\ NoPair \in Pairs /\ "unpin_both" \in Pcs
  BY <1>1, ControlParts, ThreadParts DEF FreeRemoved, TypeOK, Pcs, NoPair, Pairs, Vals
<1>3. k \in Leaves /\ k # th[t].x /\ k \in Keys /\ Departs(th[t], k)
  BY <1>1, <1>2 DEF ThreadOK, UsesY, Keys, Departs
<1>4. /\ pair' \in [Keys -> Pairs] /\ \A j \in Keys : j # k => pair'[j] = pair[j]
      /\ pair'[k] = NoPair
  BY <1>2, <1>3
<1>5. Stepped(th', t, "unpin_both", "go", th[t].todo, th[t].x, th[t].y, th[t].fl, th[t].mod)
  BY <1>2, GotoSteps
<1> QED BY <1>1, <1>2, <1>3, <1>4, <1>5

\* Nobody refers to a pair that is deserted, and the checkpoint does not wait for it.
LEMMA DesertedIs ==
  ASSUME ControlOK, NEW k \in Keys, Deserted(k)
  PROVE  /\ \A u \in Clients : ~Refers(th[u], k)
         /\ lock[k].w = {} /\ lock[k].r = {} /\ ~(cp.ph \in {"wait", "write"} /\ cp.cur = k)
<1>1. lock[k].w = {} /\ lock[k].r = {} /\ Waiters(k) = {} /\ refcount(k) = {}
  BY DEF Deserted, users
<1>2. ASSUME NEW u \in Clients, Refers(th[u], k) PROVE FALSE
  <2>1. Pinning(u) /\ Key(u) = k
    <3>1. th[u].pc \in {"query_root", "query_child"}
      BY <1>2, ThreadParts DEF Refers, ThreadOK, Phases
    <3> QED BY <1>2, <3>1, PinsAt, KeyIsKeyOf DEF Refers
  <2> QED BY <1>1, <1>2, <2>1 DEF Refers, Waiters, Waiting, refcount
<1>3. ~(cp.ph \in {"wait", "write"} /\ cp.cur = k)
  BY <1>1, ControlParts DEF Waiters, LocksOK
<1> QED BY <1>1, <1>2, <1>3

LEMMA FreeRemovedKeeps ==
  ASSUME ControlOK, CacheTableAssumption, NEW t \in Clients, FreeRemoved(t)
  PROVE  ControlOK'
<1>1. PICK k : k = th[t].y
  OBVIOUS
<1>2. /\ th[t].pc = "merge_remove" /\ th[t].ph = "leave" /\ Deserted(k)
      /\ k \in Keys /\ k \in Leaves /\ k # th[t].x /\ Departs(th[t], k)
      /\ pair' \in [Keys -> Pairs] /\ \A j \in Keys : j # k => pair'[j] = pair[j]
      /\ pair'[k] = NoPair
      /\ Stepped(th', t, "unpin_both", "go", th[t].todo, th[t].x, k, th[t].fl, th[t].mod)
  BY <1>1, FreeRemovedStep
<1>3. /\ TypeOK /\ LocksOK /\ ThreadOK(th[t]) /\ closing = "no" /\ t \in Agents /\ PairOK(k)
      /\ UNCHANGED <<lock, dm, disk, ckpt, plist, cp, ev, mo, evictions, closing, injected, before>>
  BY <1>2, ControlParts, ThreadParts, NotClosing, PairParts DEF Agents, FreeRemoved, history
<1>4. LocksMove(t, {}, {}, {})
  BY <1>3, LocksKept
<1>5. /\ th' \in [Clients -> Threads] /\ \A u \in Clients : u # t => th'[u] = th[u]
      /\ th'[t].pc = "unpin_both" /\ th'[t].ph = "go" /\ th'[t].todo = {} /\ th[t].todo = {}
      /\ th'[t].x = th[t].x /\ th'[t].y = k /\ th'[t].fl = th[t].fl /\ th'[t].mod = th[t].mod
  BY <1>2, <1>3 DEF Stepped, ThreadOK
<1>6. \A j \in Keys : /\ Writes(th'[t], j) <=> j \in {} \/ (Writes(th[t], j) /\ j \notin {})
                      /\ Reads(th'[t], j) <=> j \in {} \/ (Reads(th[t], j) /\ j \notin {})
  BY <1>1, <1>2, <1>5 DEF Writes, HasRoot, HasX, HasY, Pinned, Reads, ReadsRoot
<1>7. ThreadOK(th'[t])
  <2>1. /\ th'[t].ph \in Phases(th'[t].pc)
        /\ UsesX(th'[t]) => th'[t].x \in Leaves
        /\ UsesY(th'[t]) => th'[t].y \in Leaves /\ th'[t].y # th'[t].x
        /\ th'[t].fl # {} => th'[t].pc \in FlPcs
    BY <1>2, <1>3, <1>5 DEF ThreadOK, Phases, UsesX, UsesY, HasX, HasY, Pinned, FlPcs
  <2>2. \A j \in th[t].mod : j \in Keys /\ Writes(th[t], j)
    BY <1>3, ThreadsTyped DEF ThreadOK
  <2>3. \A j \in th'[t].mod : Writes(th'[t], j)
    BY <1>5, <1>6, <2>2
  <2>4. th'[t].todo = {} /\ ~Pinned(th'[t]) /\ th'[t].ph # "fetch_again"
    BY <1>5 DEF Pinned
  <2> QED BY ONLY <2>1, <2>3, <2>4 DEF ThreadOK
<1>8. LocalOK(t)
  <2>1. mo' = mo /\ (th'[t].pc \in MoPcs <=> th[t].pc \in MoPcs)
    BY <1>2, <1>3, <1>5 DEF MoPcs
  <2> QED BY ONLY ControlOK, t \in Clients, <1>4, <1>6, <1>7, <2>1, LocalFromRecord
<1>9. \A j \in Keys : /\ ~Fetches(th[t], j) /\ ~Awaits(th[t], j) /\ ~Refers(th[t], j)
                      /\ Departs(th[t], j) <=> j = k
  BY <1>1, <1>2 DEF Fetches, Departs, Awaits, Refers
<1>10. Quiet(th'[t])
  BY <1>5 DEF Quiet, Fetches, Departs, Awaits, Refers
<1>11. /\ lock[k].w = {} /\ lock[k].r = {} /\ ~AtStake(k) /\ pair[k].st = "removed"
       /\ ev[k] = "no" /\ dm[k] = "free" /\ ~(cp.ph = "clone" /\ cp.cur = k) /\ ~InTodo(k)
       /\ \A u \in Clients : ~Refers(th[u], k) /\ ~Awaits(th[u], k)
  <2>1. /\ lock[k].w = {} /\ lock[k].r = {} /\ \A u \in Clients : ~Refers(th[u], k)
        /\ ~(cp.ph \in {"wait", "write"} /\ cp.cur = k)
    BY <1>2, DesertedIs
  <2>2. pair[k].st = "removed" /\ k \notin plist /\ pair[k].clone = <<>>
        /\ \A u \in Clients : ~Awaits(th[u], k)
    BY <1>2, <1>3 DEF PairOK, PairThere, Leaving
  <2>3. ev[k] = "no" /\ dm[k] = "free" /\ ~(cp.ph = "clone" /\ cp.cur = k)
    BY <1>2, <1>3, <2>1, <2>2 DEF PairOK, PairClone, LocksOK
  <2>4. ~InTodo(k)
    BY <1>2, <2>1, ThreadParts DEF InTodo, ThreadOK
  <2> QED BY <2>1, <2>2, <2>3, <2>4 DEF AtStake
<1>12. ASSUME NEW j \in Keys PROVE PairOK(j)'
  <2>1. CASE j = k
    <3>1. ~Leaving(k)'
      <4>1. ASSUME NEW u \in Clients, u # t, Departs(th[u], k) PROVE FALSE
        <5>1. HasRoot(th[u]) /\ HasRoot(th[t]) /\ Root \in Keys
          BY <1>2, <4>1, ThreadParts DEF Departs, ThreadOK, Phases, HasRoot, Keys
        <5> QED BY <4>1, <5>1, WritersAlone, ControlParts DEF Writes
      <4>2. \A u \in Clients : ~Departs(th'[u], k)
        BY <1>2, <1>5, <1>10, <4>1 DEF Quiet
      <4> QED BY <4>2 DEF Leaving, Departs
    <3>2. ~InTodo(k)' /\ ~AtStake(k)'
      <4>1. ~AtStake(k)'
        BY <1>3, <1>11 DEF AtStake
      <4>2. \A u \in Clients : k \notin th[u].todo
        BY <1>11 DEF InTodo
      <4> QED BY <1>5, <4>1, <4>2 DEF InTodo
    <3>3. \A u \in Clients : (~Refers(th[u], k))' /\ (~Awaits(th[u], k))'
      BY <1>2, <1>5, <1>10, <1>11 DEF Quiet, Refers, Awaits, KeyOf
    <3>4. /\ pair'[k].st = "none" /\ pair'[k].val = <<>> /\ pair'[k].dirty = FALSE
          /\ pair'[k].pend = FALSE /\ pair'[k].clone = <<>>
      BY <1>2 DEF NoPair
    <3>5. PairThere(k)'
      <4>1. pair'[k] = NoPair /\ lock'[k].w = {} /\ lock'[k].r = {}
        BY <1>2, <1>3, <1>11
      <4> QED BY <3>1, <3>2, <3>3, <3>4, <4>1 DEF PairThere, NoPair
    <3>6. PairValue(k)'
      BY <1>3, <1>11, <3>4 DEF PairValue
    <3>7. PairClone(k)' /\ PairPend(k)'
      BY <1>3, <1>11, <3>2, <3>4 DEF PairClone, PairPend
    <3> QED BY <2>1, <3>5, <3>6, <3>7 DEF PairOK
  <2>2. CASE j # k
    <3>1. PairOK(j) /\ KeyKept(j)
      BY <1>2, <1>3, <2>2, PairParts DEF KeyKept, AtStake
    <3>2. \A u \in Clients : ThreadKept(u, j)
      BY <1>5, <1>9, <1>10, <2>2 DEF ThreadKept, Quiet
    <3> QED BY <3>1, <3>2, KeyUntouched
  <2> QED BY <2>1, <2>2
<1>13. PendRest'
  <2>1. cp.ph = "write" => cp.cur # k /\ cp.cur \in Keys
    BY <1>3, <1>11 DEF TypeOK, AtStake
  <2> QED BY <1>2, <1>3, <2>1, PendRestNow DEF PendRest
<1> QED BY <1>2, <1>3, <1>4, <1>5, <1>8, <1>12, <1>13, SpecialStep DEF TypeOK

\* ------------------------------------- steps of the other threads than clients

\* A step of another agent than the clients, with the locks it takes and gives up.
LEMMA LocksFollowBg ==
  ASSUME LocksOK, CacheTableAssumption, NEW a \in {"cp", "ev", "rd"}, th' = th,
         NEW aw, NEW ar, NEW rel, LocksMove(a, aw, ar, rel),
         \A k \in Keys : /\ "cp" \in lock'[k].w <=> cp'.ph = "write" /\ cp'.cur = k
                         /\ "ev" \in lock'[k].w <=> ev'[k] # "no"
  PROVE  LocksOK' /\ lock' \in [Keys -> LockType]
<1> USE DEF LocksOK, LocksMove, Agents, CacheTableAssumption
<1>1. \A k \in Keys : Exclusive(lock[k])'
  BY DEF Exclusive
<1>2. \A k \in Keys, u \in Clients : /\ u \in lock'[k].w <=> Writes(th'[u], k)
                                     /\ u \in lock'[k].r <=> Reads(th'[u], k)
  OBVIOUS
<1> QED BY <1>1, <1>2 DEF Writes, Reads, HasRoot, HasX, HasY, ReadsRoot, Pinned

\* The same locks.
LEMMA LocksStay ==
  ASSUME ControlOK, CacheTableAssumption, th' = th, lock' = lock,
         \A k \in Keys : /\ "cp" \in lock[k].w <=> cp'.ph = "write" /\ cp'.cur = k
                         /\ "ev" \in lock[k].w <=> ev'[k] # "no"
  PROVE  LocksOK' /\ lock' \in [Keys -> LockType]
<1>1. LocksMove("rd", {}, {}, {})
  BY LocksKept, ControlParts DEF Agents
<1> QED BY <1>1, LocksFollowBg, ControlParts

LEMMA BgUntouched ==
  ASSUME ControlOK, NEW k \in Keys, th' = th, KeyKept(k)
  PROVE  PairOK(k)'
<1>1. \A u \in Clients : ThreadKept(u, k)
  BY DEF ThreadKept
<1> QED BY <1>1, PairParts, KeyUntouched

\* The pair stays in the table with its value; all else about it may change.
TableOK(k) ==
  /\ pair[k].st = "table" /\ pair'[k].st = "table" /\ pair'[k].val = pair[k].val
  /\ "rd" \in lock'[k].w <=> "rd" \in lock[k].w
  /\ pair'[k].dirty => pair[k].dirty
  /\ pair'[k].clone # <<>> => InMemory(k)
  /\ dm'[k] # "free" <=> pair'[k].clone # <<>>
  /\ dm'[k] = "cp" <=> cp'.ph = "clone" /\ cp'.cur = k
  /\ ev'[k] # "no" => InMemory(k)
  /\ ev'[k] \in {"remove", "written"} => ~pair'[k].dirty
  /\ pair'[k].pend \/ InTodo(k) \/ ev'[k] = "write_ckpt" => AtStake(k)' /\ dm'[k] = "free"
  /\ pair'[k].pend => ~InTodo(k) /\ ev'[k] \in {"no", "queued", "remove"}
LEMMA TableKept ==
  ASSUME ControlOK, NEW k \in Keys, th' = th, TableOK(k)
  PROVE  PairOK(k)'
<1>1. PairOK(k)
  BY PairParts
<1>2. (Fetching(k)' <=> Fetching(k)) /\ (InTodo(k)' <=> InTodo(k)) /\ ~Leaving(k)'
  <2>1. Fetching(k)' <=> Fetching(k)
    BY DEF TableOK, Fetching, Fetches, KeyOf
  <2>2. InTodo(k)' <=> InTodo(k)
    BY DEF InTodo
  <2>3. ~Leaving(k)'
    <3>1. ~Leaving(k)
      BY <1>1 DEF TableOK, PairOK, PairThere
    <3> QED BY <3>1 DEF Leaving, Departs
  <2> QED BY <2>1, <2>2, <2>3
<1>3. PairThere(k)'
  BY <1>2 DEF TableOK, PairThere
<1>4. PairValue(k)'
  BY <1>1, <1>2 DEF TableOK, PairOK, PairValue, InMemory
<1>5. PairClone(k)' /\ PairPend(k)'
  BY <1>2 DEF TableOK, PairClone, PairPend, InMemory
<1> QED BY <1>3, <1>4, <1>5 DEF PairOK

LEMMA toku_cachefile_prefetchKeeps ==
  ASSUME ControlOK, CacheTableAssumption, NEW t \in Clients, toku_cachefile_prefetch(t)
  PROVE  ControlOK'
<1>1. th[t].pc = "query_pick" /\ th[t].ph = "go" /\ closing = "no" /\ TypeOK /\ LocksOK
      /\ UNCHANGED <<dm, disk, ckpt, plist, cp, ev, mo, th, evictions, closing, injected, before>>
  BY NotClosing, ControlParts DEF toku_cachefile_prefetch, At, history
<1>2. Kids \in SUBSET Leaves
  BY <1>1, KidsTyped DEF ReadsRoot, Fetches
<1>3. PICK k \in Kids : /\ pair[k].st = "none" /\ pair' = [pair EXCEPT ![k] = pair_init(<<>>, FALSE)]
                        /\ lock' = Lock(k, "rd", "w")
  BY DEF toku_cachefile_prefetch
<1>4. k \in Keys
  BY <1>2 DEF Keys
<1>5. lock[k].w = {} /\ lock[k].r = {} /\ "rd" \in Agents
  BY <1>3, <1>4, NoPairThere DEF Agents
<1>6. LocksMove("rd", {k}, {}, {})
  BY <1>1, <1>3, <1>4, <1>5, LockedForWriting
<1>7. LocksOK' /\ lock' \in [Keys -> LockType]
  <2>1. \A j \in Keys : /\ "cp" \in lock'[j].w <=> cp'.ph = "write" /\ cp'.cur = j
                        /\ "ev" \in lock'[j].w <=> ev'[j] # "no"
    BY <1>1, <1>6 DEF LocksMove, LocksOK, Agents
  <2> QED BY <1>1, <1>6, <2>1, LocksFollowBg
<1>8. /\ pair' \in [Keys -> Pairs] /\ \A j \in Keys : j # k => pair'[j] = pair[j]
      /\ pair'[k] = pair_init(<<>>, FALSE)
  <2>1. pair_init(<<>>, FALSE) \in Pairs
    BY PairInit DEF Vals
  <2> QED BY <1>1, <1>3, <1>4, <2>1 DEF TypeOK
<1>9. ASSUME NEW j \in Keys PROVE PairOK(j)'
  <2>1. CASE j = k
    <3>1. /\ pair'[j].st = "table" /\ pair'[j].pend = FALSE /\ pair'[j].clone = <<>>
          /\ pair'[j].val = <<>> /\ pair'[j].dirty = FALSE
      <4>1. <<>> \in Vals
        BY DEF Vals
      <4> QED BY <1>8, <2>1, <4>1, PairInit
    <3>2. Fetching(j)'
      BY <1>4, <1>6, <2>1 DEF Fetching, LocksMove
    <3>3. ~InTodo(j) /\ ~Leaving(j)
      BY <1>3, <2>1, NoPairThere
    <3>4. ~InTodo(j)' /\ ~Leaving(j)'
      BY <1>1, <3>3 DEF InTodo, Leaving, Departs
    <3> QED BY <1>1, <1>3, <2>1, <3>1, <3>2, <3>4, Inserted
  <2>2. CASE j # k
    <3>1. lock'[j] = lock[j]
      BY <1>6, <2>2 DEF LocksMove
    <3>2. KeyKept(j)
      BY <1>1, <1>8, <2>2, <3>1 DEF KeyKept, AtStake
    <3> QED BY <1>1, <3>2, BgUntouched
  <2> QED BY <2>1, <2>2
<1>10. PendRest'
  <2>1. cp.ph = "write" => cp.cur # k /\ cp.cur \in Keys
    BY <1>1, <1>3, <1>4, NoPairThere DEF TypeOK
  <2> QED BY <1>1, <1>8, <2>1, PendRestNow DEF PendRest
<1>11. ClosingOK'
  BY <1>1 DEF ClosingOK
<1> QED BY <1>1, <1>7, <1>8, <1>9, <1>10, <1>11, BackgroundStep DEF TypeOK

LEMMA cachetable_readerKeeps ==
  ASSUME ControlOK, TreeOK, CacheTableAssumption, NEW k \in Keys, cachetable_reader(k)
  PROVE  ControlOK'
<1>1. /\ TypeOK /\ LocksOK /\ lock[k].w = {"rd"} /\ pair' = Fetched(k)
      /\ lock' = Unlocked(lock, {k}, "rd") /\ "rd" \in Agents
      /\ UNCHANGED <<dm, disk, ckpt, plist, cp, ev, mo, th, evictions, closing, injected, before>>
  BY ControlParts DEF cachetable_reader, history, Agents
<1>2. {k} \in SUBSET Keys /\ LocksMove("rd", {}, {}, {k})
  BY <1>1, LocksReleased
<1>3. LocksOK' /\ lock' \in [Keys -> LockType]
  <2>1. \A j \in Keys : /\ "cp" \in lock'[j].w <=> cp'.ph = "write" /\ cp'.cur = j
                        /\ "ev" \in lock'[j].w <=> ev'[j] # "no"
    BY <1>1, <1>2 DEF LocksMove, LocksOK, Agents
  <2> QED BY <1>1, <1>2, <2>1, LocksFollowBg
<1>4. /\ pair' \in [Keys -> Pairs] /\ \A j \in Keys : j # k => pair'[j] = pair[j]
  BY <1>1, FetchedIs
<1>5. ASSUME NEW j \in Keys PROVE PairOK(j)'
  <2>1. CASE j = k
    <3>1. Fetching(k)
      BY <1>1 DEF Fetching
    <3>2. ~Fetching(k)'
      <4>1. ASSUME NEW u \in Clients, Fetches(th[u], k) PROVE FALSE
        BY <1>1, <4>1, FetchesWrites, ThreadParts DEF CacheTableAssumption
      <4>2. "rd" \notin lock'[k].w
        BY <1>2 DEF LocksMove
      <4> QED BY <1>1, <4>1, <4>2 DEF Fetching, Fetches, KeyOf
    <3>3. ~Leaving(k)
      BY <3>1, FetchFinds, PairParts DEF PairOK, PairThere
    <3>4. ~Leaving(k)' /\ (InTodo(k)' <=> InTodo(k))
      BY <1>1, <3>3 DEF Leaving, Departs, InTodo
    <3> QED BY <1>1, <2>1, <3>1, <3>2, <3>4, FetchedOK
  <2>2. CASE j # k
    <3>1. lock'[j] = lock[j]
      BY <1>2, <2>2 DEF LocksMove
    <3>2. KeyKept(j)
      BY <1>1, <1>4, <2>2, <3>1 DEF KeyKept, AtStake
    <3> QED BY <1>1, <3>2, BgUntouched
  <2> QED BY <2>1, <2>2
<1>6. PendRest'
  BY <1>1, FetchedPendRest
<1>7. ClosingOK'
  BY <1>1, ControlParts DEF ClosingOK
<1> QED BY <1>1, <1>3, <1>4, <1>5, <1>6, <1>7, BackgroundStep DEF TypeOK

\* -------------------------------------------------- steps of the checkpoint

LEMMA begin_checkpointKeeps ==
  ASSUME ControlOK, CacheTableAssumption, begin_checkpoint
  PROVE  ControlOK'
<1>1. /\ cp.ph = "idle" /\ closing = "no" /\ \A k \in Keys : ev[k] \in {"no", "queued", "remove"}
      /\ plist' = InTable /\ ckpt' = disk /\ before' = injected
      /\ cp' = [cp EXCEPT !.ph = "pairs", !.n = @ + 1]
      /\ UNCHANGED <<lock, dm, disk, ev, mo, th, evictions, closing, injected>>
      /\ TypeOK /\ LocksOK
  BY ControlParts DEF begin_checkpoint
<1>2. pair' = [k \in Keys |-> IF k \in InTable THEN [pair[k] EXCEPT !.pend = TRUE] ELSE pair[k]]
  BY DEF begin_checkpoint
<1>3. ASSUME NEW k \in Keys
      PROVE  /\ pair'[k] \in Pairs
             /\ pair[k].st # "table" => pair'[k] = pair[k]
             /\ pair[k].st = "table" =>
                  /\ pair'[k].st = pair[k].st /\ pair'[k].val = pair[k].val
                  /\ pair'[k].dirty = pair[k].dirty /\ pair'[k].pend = TRUE
                  /\ pair'[k].clone = pair[k].clone
  <2>1. pair[k] \in Pairs
    BY <1>1 DEF TypeOK
  <2>2. CASE pair[k].st = "table"
    <3>1. pair'[k] = [pair[k] EXCEPT !.pend = TRUE]
      BY <1>2, <2>2 DEF InTable
    <3> QED BY ONLY <2>1, <2>2, <3>1 DEF Pairs
  <2>3. CASE pair[k].st # "table"
    BY <1>2, <2>1, <2>3 DEF InTable
  <2> QED BY <2>2, <2>3
<1>4. pair' \in [Keys -> Pairs]
  BY <1>2, <1>3
<1>5. cp'.ph = "pairs" /\ cp' \in [ph : {"idle", "pairs", "wait", "write", "clone", "done"}, cur : Keys, n : Nat]
  <2>1. cp \in [ph : {"idle", "pairs", "wait", "write", "clone", "done"}, cur : Keys, n : Nat]
    BY <1>1 DEF TypeOK
  <2>2. PICK n \in Nat : n = cp.n + 1
    BY <2>1
  <2>3. cp' = [cp EXCEPT !.ph = "pairs", !.n = n]
    BY <1>1, <2>2
  <2> QED BY ONLY <2>1, <2>3, n \in Nat
<1>6. LocksOK' /\ lock' \in [Keys -> LockType]
  <2>1. \A k \in Keys : /\ "cp" \in lock[k].w <=> cp'.ph = "write" /\ cp'.cur = k
                        /\ "ev" \in lock[k].w <=> ev'[k] # "no"
    BY <1>1, <1>5 DEF LocksOK
  <2> QED BY <1>1, <2>1, LocksStay
<1>7. plist = {} /\ \A k \in Keys : ~AtStake(k) /\ dm[k] = "free" /\ ~InTodo(k)
  <2>1. plist = {} /\ \A k \in Keys : dm[k] # "bg"
    BY <1>1, PendRestNow DEF PendRest
  <2>2. \A k \in Keys : ~AtStake(k)
    BY <1>1, <2>1 DEF AtStake
  <2>3. \A k \in Keys : dm[k] # "cp" /\ ~InTodo(k)
    BY <1>1, <2>2, PairParts DEF PairOK, PairClone, PairPend
  <2> QED BY <1>1, <2>1, <2>2, <2>3 DEF TypeOK
<1>8. ASSUME NEW k \in Keys PROVE PairOK(k)'
  <2>1. CASE pair[k].st = "table"
    <3>1. k \in plist'
      BY <1>1, <2>1 DEF InTable
    <3>2. TableOK(k)
      <4>1. /\ pair'[k].st = pair[k].st /\ pair'[k].val = pair[k].val
            /\ pair'[k].dirty = pair[k].dirty /\ pair'[k].clone = pair[k].clone
        BY <1>3, <2>1
      <4>2. PairValue(k) /\ PairClone(k) /\ dm[k] = "free" /\ ~InTodo(k)
        BY <1>7, PairParts DEF PairOK
      <4>3. AtStake(k)'
        BY <3>1 DEF AtStake
      <4>4. ev[k] \in {"no", "queued", "remove"} /\ dm'[k] = dm[k] /\ ev'[k] = ev[k] /\ lock' = lock
        BY <1>1
      <4> QED BY ONLY <1>5, <2>1, <4>1, <4>2, <4>3, <4>4 DEF TableOK, PairClone, PairValue
    <3> QED BY <1>1, <3>2, TableKept
  <2>2. CASE pair[k].st # "table"
    <3>1. ~AtStake(k)' /\ k \notin plist'
      BY <1>1, <1>5, <2>2 DEF AtStake, InTable
    <3>2. KeyKept(k)
      BY <1>1, <1>3, <1>5, <1>7, <2>2, <3>1 DEF KeyKept
    <3> QED BY <1>1, <3>2, BgUntouched
  <2> QED BY <2>1, <2>2
<1>9. PendRest' /\ ClosingOK'
  BY <1>1, <1>5 DEF PendRest, ClosingOK
<1>10. plist' \in SUBSET Keys
  BY <1>1 DEF InTable
<1> QED BY <1>1, <1>4, <1>5, <1>6, <1>8, <1>9, <1>10, BackgroundStep DEF TypeOK

\* While the checkpoint is under way the file is not closed.
LEMMA CheckpointOpen ==
  ASSUME ControlOK, cp.ph # "idle"
  PROVE  closing = "no"
BY ControlParts DEF ClosingOK

LEMMA CpTyped ==
  ASSUME TypeOK, NEW k \in Keys, NEW ph \in {"idle", "pairs", "wait", "write", "clone", "done"},
         cp' = [cp EXCEPT !.ph = ph, !.cur = k]
  PROVE  /\ cp' \in [ph : {"idle", "pairs", "wait", "write", "clone", "done"}, cur : Keys, n : Nat]
         /\ cp'.ph = ph /\ cp'.cur = k
BY DEF TypeOK

LEMMA CpPhase ==
  ASSUME TypeOK, NEW ph \in {"idle", "pairs", "wait", "write", "clone", "done"}, cp' = Cp(ph)
  PROVE  /\ cp' \in [ph : {"idle", "pairs", "wait", "write", "clone", "done"}, cur : Keys, n : Nat]
         /\ cp'.ph = ph /\ cp'.cur = cp.cur /\ cp.cur \in Keys
BY DEF TypeOK, Cp

LEMMA checkpoint_pending_pairsKeeps ==
  ASSUME ControlOK, CacheTableAssumption, checkpoint_pending_pairs
  PROVE  ControlOK'
<1>1. /\ cp.ph = "pairs" /\ closing = "no" /\ TypeOK /\ LocksOK
      /\ UNCHANGED <<pair, lock, dm, disk, ckpt, ev, mo, th, evictions, closing, injected, before>>
  BY CheckpointOpen, ControlParts DEF checkpoint_pending_pairs, history
<1>2. ASSUME NEW k \in plist, plist' = plist \ {k}, cp' = [cp EXCEPT !.ph = "wait", !.cur = k]
      PROVE  ControlOK'
  <2>1. k \in Keys
    BY <1>1 DEF TypeOK
  <2>2. /\ cp' \in [ph : {"idle", "pairs", "wait", "write", "clone", "done"}, cur : Keys, n : Nat]
        /\ cp'.ph = "wait" /\ cp'.cur = k
    BY <1>1, <1>2, <2>1, CpTyped
  <2>3. LocksOK' /\ lock' \in [Keys -> LockType]
    <3>1. \A j \in Keys : /\ "cp" \in lock[j].w <=> cp'.ph = "write" /\ cp'.cur = j
                          /\ "ev" \in lock[j].w <=> ev'[j] # "no"
      BY <1>1, <2>2 DEF LocksOK
    <3> QED BY <1>1, <3>1, LocksStay
  <2>4. \A j \in Keys : AtStake(j)' <=> AtStake(j)
    BY <1>1, <1>2, <2>2 DEF AtStake
  <2>5. ASSUME NEW j \in Keys PROVE PairOK(j)'
    <3>1. CASE j = k
      <4>1. PairOK(j) /\ pair[j] \in Pairs
        BY <1>1, PairParts DEF TypeOK
      <4>2. pair[j].st = "table"
        BY <1>2, <3>1, <4>1 DEF PairOK, PairThere, AtStake, Pairs
      <4>3. TableOK(j)
        BY <1>1, <2>2, <2>4, <4>1, <4>2 DEF TableOK, PairOK, PairValue, PairClone, PairPend
      <4> QED BY <1>1, <4>3, TableKept
    <3>2. CASE j # k
      <4>1. KeyKept(j)
        BY <1>1, <1>2, <2>2, <2>4, <3>2 DEF KeyKept
      <4> QED BY <1>1, <4>1, BgUntouched
    <3> QED BY <3>1, <3>2
  <2>6. PendRest' /\ ClosingOK' /\ plist' \in SUBSET Keys
    BY <1>1, <1>2, <2>2 DEF PendRest, ClosingOK, TypeOK
  <2> QED BY <1>1, <2>2, <2>3, <2>5, <2>6, BackgroundStep DEF TypeOK
<1>3. ASSUME plist = {}, \A k \in Keys : dm[k] # "bg", cp' = Cp("done"), plist' = plist
      PROVE  ControlOK'
  <2>2. /\ cp' \in [ph : {"idle", "pairs", "wait", "write", "clone", "done"}, cur : Keys, n : Nat]
        /\ cp'.ph = "done"
    BY <1>1, <1>3, CpPhase
  <2>3. LocksOK' /\ lock' \in [Keys -> LockType]
    <3>1. \A j \in Keys : /\ "cp" \in lock[j].w <=> cp'.ph = "write" /\ cp'.cur = j
                          /\ "ev" \in lock[j].w <=> ev'[j] # "no"
      BY <1>1, <2>2 DEF LocksOK
    <3> QED BY <1>1, <3>1, LocksStay
  <2>5. ASSUME NEW j \in Keys PROVE PairOK(j)'
    <3>1. KeyKept(j)
      BY <1>1, <1>3, <2>2 DEF KeyKept, AtStake
    <3> QED BY <1>1, <3>1, BgUntouched
  <2>6. PendRest' /\ ClosingOK' /\ plist' \in SUBSET Keys
    BY <1>1, <1>3, <2>2 DEF PendRest, ClosingOK, TypeOK
  <2> QED BY <1>1, <2>2, <2>3, <2>5, <2>6, BackgroundStep DEF TypeOK
<1> QED BY <1>2, <1>3 DEF checkpoint_pending_pairs

LEMMA end_checkpointKeeps ==
  ASSUME ControlOK, CacheTableAssumption, end_checkpoint
  PROVE  ControlOK'
<1>1. /\ cp.ph = "done" /\ closing = "no" /\ TypeOK /\ LocksOK /\ cp' = Cp("idle")
      /\ UNCHANGED <<pair, lock, dm, disk, ckpt, plist, ev, mo, th, evictions, closing, injected, before>>
  BY CheckpointOpen, ControlParts DEF end_checkpoint, history
<1>2. /\ cp' \in [ph : {"idle", "pairs", "wait", "write", "clone", "done"}, cur : Keys, n : Nat]
      /\ cp'.ph = "idle"
  BY <1>1, CpPhase
<1>3. LocksOK' /\ lock' \in [Keys -> LockType]
  <2>1. \A j \in Keys : /\ "cp" \in lock[j].w <=> cp'.ph = "write" /\ cp'.cur = j
                        /\ "ev" \in lock[j].w <=> ev'[j] # "no"
    BY <1>1, <1>2 DEF LocksOK
  <2> QED BY <1>1, <2>1, LocksStay
<1>4. ASSUME NEW j \in Keys PROVE PairOK(j)'
  <2>1. KeyKept(j)
    BY <1>1, <1>2 DEF KeyKept, AtStake
  <2> QED BY <1>1, <2>1, BgUntouched
<1>5. PendRest' /\ ClosingOK'
  BY <1>1, <1>2, PendRestNow DEF PendRest, ClosingOK
<1> QED BY <1>1, <1>2, <1>3, <1>4, <1>5, BackgroundStep DEF TypeOK

\* Nobody else sees to a pair that nobody has locked.
LEMMA UnlockedQuiet ==
  ASSUME ControlOK, NEW k \in Keys, lock[k].w \cap Clients = {}
  PROVE  ~InTodo(k)
BY ThreadParts DEF InTodo, ThreadOK

LEMMA ClearPendingKeeps ==
  ASSUME ControlOK, CacheTableAssumption, ClearPending
  PROVE  ControlOK'
<1>1. PICK k : k = cp.cur
  OBVIOUS
<1>2. /\ cp.ph = "wait" /\ closing = "no" /\ TypeOK /\ LocksOK /\ k \in Keys /\ PairOK(k)
      /\ lock[k].w = {} /\ lock[k].r = {} /\ pair \in [Keys -> Pairs] /\ AtStake(k)
      /\ UNCHANGED <<dm, disk, ckpt, plist, ev, mo, th, evictions, closing, injected, before>>
  BY <1>1, CheckpointOpen, ControlParts, PairParts DEF ClearPending, history, CanLock, TypeOK, AtStake
<1>3. ~InTodo(k) /\ ev[k] = "no"
  BY <1>2, UnlockedQuiet DEF LocksOK
<1>4. ASSUME pair[k].pend, pair[k].dirty, lock' = Lock(k, "cp", "w"), cp' = Cp("write"), pair' = pair
      PROVE  ControlOK'
  <2>1. /\ cp' \in [ph : {"idle", "pairs", "wait", "write", "clone", "done"}, cur : Keys, n : Nat]
        /\ cp'.ph = "write" /\ cp'.cur = k
    BY <1>1, <1>2, <1>4, CpPhase
  <2>2. LocksMove("cp", {k}, {}, {})
    BY <1>2, <1>4, LockedForWriting DEF Agents
  <2>3. LocksOK' /\ lock' \in [Keys -> LockType]
    <3>1. \A j \in Keys : /\ "cp" \in lock'[j].w <=> cp'.ph = "write" /\ cp'.cur = j
                          /\ "ev" \in lock'[j].w <=> ev'[j] # "no"
      BY <1>2, <2>1, <2>2 DEF LocksMove, LocksOK, Agents
    <3> QED BY <1>2, <2>2, <3>1, LocksFollowBg
  <2>4. \A j \in Keys : AtStake(j)' <=> AtStake(j)
    BY <1>1, <1>2, <2>1 DEF AtStake
  <2>5. ASSUME NEW j \in Keys PROVE PairOK(j)'
    <3>1. CASE j = k
      <4>1. pair[k].st = "table"
        BY <1>2, <1>4 DEF PairOK, PairThere, Pairs
      <4>2. "rd" \in lock'[k].w <=> "rd" \in lock[k].w
        BY <1>2, <2>2 DEF LocksMove, Agents
      <4>3. TableOK(k)
        BY <1>2, <1>4, <2>1, <2>4, <4>1, <4>2 DEF TableOK, PairOK, PairValue, PairClone, PairPend
      <4> QED BY <1>2, <3>1, <4>3, TableKept
    <3>2. CASE j # k
      <4>1. lock'[j] = lock[j]
        BY <2>2, <3>2 DEF LocksMove
      <4>2. KeyKept(j)
        BY <1>2, <1>4, <2>1, <2>4, <3>2, <4>1 DEF KeyKept
      <4> QED BY <1>2, <4>2, BgUntouched
    <3> QED BY <3>1, <3>2
  <2>6. PendRest' /\ ClosingOK'
    BY <1>2, <1>4, <2>1, PendRestNow DEF PendRest, ClosingOK
  <2> QED BY <1>2, <1>4, <2>1, <2>3, <2>5, <2>6, BackgroundStep DEF TypeOK
<1>5. ASSUME pair' = [pair EXCEPT ![k].pend = FALSE], cp' = Cp("pairs"), lock' = lock
      PROVE  ControlOK'
  <2>1. /\ cp' \in [ph : {"idle", "pairs", "wait", "write", "clone", "done"}, cur : Keys, n : Nat]
        /\ cp'.ph = "pairs" /\ cp'.cur = k
    BY <1>1, <1>2, <1>5, CpPhase
  <2>2. /\ pair' \in [Keys -> Pairs] /\ \A j \in Keys : j # k => pair'[j] = pair[j]
        /\ pair'[k].st = pair[k].st /\ pair'[k].val = pair[k].val /\ pair'[k].dirty = pair[k].dirty
        /\ pair'[k].pend = FALSE /\ pair'[k].clone = pair[k].clone
    BY ONLY <1>2, <1>5 DEF Pairs
  <2>3. LocksOK' /\ lock' \in [Keys -> LockType]
    <3>1. \A j \in Keys : /\ "cp" \in lock[j].w <=> cp'.ph = "write" /\ cp'.cur = j
                          /\ "ev" \in lock[j].w <=> ev'[j] # "no"
      BY <1>2, <2>1 DEF LocksOK
    <3> QED BY <1>2, <1>5, <3>1, LocksStay
  <2>5. ASSUME NEW j \in Keys PROVE PairOK(j)'
    <3>1. CASE j = k
      <4>1. /\ Fetching(k)' <=> Fetching(k)
            /\ Leaving(k)' <=> Leaving(k)
            /\ ~InTodo(k)'
        BY <1>2, <1>3, <1>5 DEF Fetching, Fetches, KeyOf, Leaving, Departs, InTodo
      <4>2. pair[k].st # "none"
        BY <1>2 DEF PairOK, PairThere
      <4>3. PairThere(k)'
        <5>1. \A u \in Clients : (Awaits(th[u], k))' => pair[k].st = "table"
          BY <1>2 DEF PairOK, PairThere, Awaits, KeyOf
        <5> QED BY <1>2, <1>5, <2>2, <4>1, <4>2, <5>1 DEF PairOK, PairThere
      <4>4. PairValue(k)'
        BY <1>2, <2>2, <4>1 DEF PairOK, PairValue, InMemory
      <4>5. PairClone(k)' /\ PairPend(k)'
        BY <1>2, <1>3, <2>1, <2>2, <4>1 DEF PairOK, PairClone, PairPend, InMemory
      <4> QED BY <3>1, <4>3, <4>4, <4>5 DEF PairOK
    <3>2. CASE j # k
      <4>1. KeyKept(j)
        BY <1>1, <1>2, <1>5, <2>1, <2>2, <3>2 DEF KeyKept, AtStake
      <4> QED BY <1>2, <4>1, BgUntouched
    <3> QED BY <3>1, <3>2
  <2>6. PendRest' /\ ClosingOK'
    BY <1>2, <2>1, PendRestNow DEF PendRest, ClosingOK
  <2> QED BY <1>2, <2>1, <2>2, <2>3, <2>5, <2>6, BackgroundStep DEF TypeOK
<1> QED BY <1>1, <1>4, <1>5 DEF ClearPending

\* What the checkpoint thread does to the pair it has locked.
LEMMA write_pairStep ==
  ASSUME ControlOK, CacheTableAssumption, write_pair_for_checkpoint_thread
  PROVE  LET k == cp.cur
         IN /\ cp.ph = "write" /\ dm[k] = "free" /\ k \in Keys /\ InMemory(k)
            /\ pair[k].pend /\ pair[k].dirty /\ lock[k].w = {"cp"} /\ ev[k] = "no" /\ ~InTodo(k)
            /\ lock' = Unlocked(lock, {k}, "cp")
            /\ pair' \in [Keys -> Pairs] /\ \A j \in Keys : j # k => pair'[j] = pair[j]
            /\ pair'[k].st = "table" /\ pair'[k].val = pair[k].val /\ pair'[k].dirty = FALSE
            /\ pair'[k].pend = FALSE
            /\ disk' \in [Keys -> Vals] /\ ckpt' \in [Keys -> Vals]
            /\ \/ /\ pair'[k].clone = pair[k].val /\ dm' = [dm EXCEPT ![k] = "cp"]
                  /\ cp' = Cp("clone") /\ disk' = disk /\ ckpt' = ckpt
               \/ /\ pair'[k].clone = <<>> /\ dm' = dm /\ cp' = Cp("pairs")
                  /\ disk' = [disk EXCEPT ![k] = pair[k].val] /\ ckpt' = [ckpt EXCEPT ![k] = pair[k].val]
<1>1. PICK k : k = cp.cur
  OBVIOUS
<1>2. /\ cp.ph = "write" /\ dm[k] = "free" /\ k \in Keys /\ pair[k].pend /\ pair[k].dirty
      /\ lock[k].w = {"cp"} /\ TypeOK /\ pair \in [Keys -> Pairs] /\ pair[k].val \in Vals
      /\ lock' = Unlocked(lock, {k}, "cp")
      /\ pair' = [pair EXCEPT ![k].pend = FALSE, ![k].dirty = FALSE,
                              ![k].clone = IF k \in Cloneable THEN pair[k].val ELSE <<>>]
  <2>1. /\ cp.ph = "write" /\ dm[k] = "free" /\ TypeOK
        /\ lock' = Unlocked(lock, {k}, "cp")
        /\ pair' = [pair EXCEPT ![k].pend = FALSE, ![k].dirty = FALSE,
                                ![k].clone = IF k \in Cloneable THEN pair[k].val ELSE <<>>]
    BY <1>1, ControlParts DEF write_pair_for_checkpoint_thread
  <2>2. k \in Keys /\ pair[k].pend /\ pair[k].dirty
    BY <1>1, <2>1, PendRestNow DEF PendRest, TypeOK
  <2>3. lock[k].w = {"cp"}
    BY <1>1, <2>1, <2>2, ControlParts DEF LocksOK, Exclusive
  <2>4. pair \in [Keys -> Pairs] /\ pair[k].val \in Vals
    BY <2>1, <2>2 DEF TypeOK, Pairs
  <2> QED BY <2>1, <2>2, <2>3, <2>4
<1>3. InMemory(k) /\ ev[k] = "no" /\ ~InTodo(k)
  <2>1. PairOK(k)
    BY <1>2, PairParts
  <2>2. pair[k].st = "table" /\ pair[k].val # <<>> /\ ~InTodo(k)
    BY <1>2, <2>1 DEF PairOK, PairThere, PairValue, PairPend, Pairs
  <2>3. ev[k] = "no"
    BY <1>2, ControlParts DEF LocksOK
  <2> QED BY <2>2, <2>3 DEF InMemory
<1>4. PICK c \in Vals : c = IF k \in Cloneable THEN pair[k].val ELSE <<>>
  BY <1>2 DEF Vals
<1>5. /\ pair' \in [Keys -> Pairs] /\ \A j \in Keys : j # k => pair'[j] = pair[j]
      /\ pair'[k].st = pair[k].st /\ pair'[k].val = pair[k].val /\ pair'[k].dirty = FALSE
      /\ pair'[k].pend = FALSE /\ pair'[k].clone = c
  <2>1. pair' = [pair EXCEPT ![k].pend = FALSE, ![k].dirty = FALSE, ![k].clone = c]
    BY <1>2, <1>4
  <2> QED BY ONLY <1>2, <2>1, c \in Vals DEF Pairs
<1>6. CASE k \in Cloneable
  <2>1. dm' = [dm EXCEPT ![k] = "cp"] /\ cp' = Cp("clone") /\ disk' = disk /\ ckpt' = ckpt
    BY <1>1, <1>6 DEF write_pair_for_checkpoint_thread
  <2> QED BY <1>1, <1>2, <1>3, <1>4, <1>5, <1>6, <2>1 DEF InMemory, TypeOK
<1>7. CASE k \notin Cloneable
  <2>1. /\ dm' = dm /\ cp' = Cp("pairs")
        /\ disk' = [disk EXCEPT ![k] = pair[k].val] /\ ckpt' = [ckpt EXCEPT ![k] = pair[k].val]
    BY <1>1, <1>7 DEF write_pair_for_checkpoint_thread, WriteBlock
  <2>2. disk' \in [Keys -> Vals] /\ ckpt' \in [Keys -> Vals]
    BY <1>2, <2>1 DEF TypeOK
  <2> QED BY <1>1, <1>2, <1>3, <1>4, <1>5, <1>7, <2>1, <2>2 DEF InMemory
<1> QED BY <1>6, <1>7

LEMMA write_pairKeeps ==
  ASSUME ControlOK, CacheTableAssumption, write_pair_for_checkpoint_thread
  PROVE  ControlOK'
<1>1. PICK k : k = cp.cur
  OBVIOUS
<1>2. /\ cp.ph = "write" /\ dm[k] = "free" /\ k \in Keys /\ InMemory(k)
      /\ pair[k].pend /\ pair[k].dirty /\ lock[k].w = {"cp"} /\ ev[k] = "no" /\ ~InTodo(k)
      /\ lock' = Unlocked(lock, {k}, "cp")
      /\ pair' \in [Keys -> Pairs] /\ \A j \in Keys : j # k => pair'[j] = pair[j]
      /\ pair'[k].st = "table" /\ pair'[k].val = pair[k].val /\ pair'[k].dirty = FALSE
      /\ pair'[k].pend = FALSE
      /\ disk' \in [Keys -> Vals] /\ ckpt' \in [Keys -> Vals]
      /\ \/ pair'[k].clone = pair[k].val /\ dm' = [dm EXCEPT ![k] = "cp"] /\ cp' = Cp("clone")
         \/ pair'[k].clone = <<>> /\ dm' = dm /\ cp' = Cp("pairs")
  BY <1>1, write_pairStep
<1>3. /\ closing = "no" /\ TypeOK /\ LocksOK /\ PairOK(k)
      /\ UNCHANGED <<plist, ev, mo, th, evictions, closing, injected, before>>
  BY <1>2, CheckpointOpen, ControlParts, PairParts DEF write_pair_for_checkpoint_thread, history
<1>4. PICK ph \in {"clone", "pairs"} :
        /\ cp' = Cp(ph) /\ pair'[k].clone = (IF ph = "clone" THEN pair[k].val ELSE <<>>)
        /\ dm'[k] = (IF ph = "clone" THEN "cp" ELSE "free")
        /\ dm' \in [Keys -> {"free", "bg", "cp"}] /\ \A j \in Keys : j # k => dm'[j] = dm[j]
  BY <1>2, <1>3 DEF TypeOK
<1>5. /\ cp' \in [ph : {"idle", "pairs", "wait", "write", "clone", "done"}, cur : Keys, n : Nat]
      /\ cp'.ph = ph /\ cp'.cur = k
  BY <1>1, <1>3, <1>4, CpPhase
<1>6. {k} \in SUBSET Keys /\ LocksMove("cp", {}, {}, {k})
  BY <1>2, <1>3, LocksReleased DEF Agents
<1>7. LocksOK' /\ lock' \in [Keys -> LockType]
  <2>1. \A j \in Keys : /\ "cp" \in lock'[j].w <=> cp'.ph = "write" /\ cp'.cur = j
                        /\ "ev" \in lock'[j].w <=> ev'[j] # "no"
    <3>1. \A j \in Keys : "cp" \in lock[j].w => j = k
      BY <1>1, <1>3 DEF LocksOK
    <3>2. \A j \in Keys : "cp" \notin lock'[j].w
      BY <1>6, <3>1 DEF LocksMove
    <3>3. \A j \in Keys : "ev" \in lock'[j].w <=> ev[j] # "no"
      BY <1>3, <1>6 DEF LocksMove, LocksOK, Agents
    <3> QED BY <1>3, <1>4, <1>5, <3>2, <3>3
  <2> QED BY <1>3, <1>6, <2>1, LocksFollowBg
<1>8. ASSUME NEW j \in Keys PROVE PairOK(j)'
  <2>1. CASE j = k
    <3>1. "rd" \in lock'[k].w <=> "rd" \in lock[k].w
      BY <1>2, <1>6 DEF LocksMove, Agents
    <3>2. TableOK(k)
      BY <1>2, <1>3, <1>4, <1>5, <3>1 DEF TableOK, InMemory
    <3> QED BY <1>3, <2>1, <3>2, TableKept
  <2>2. CASE j # k
    <3>1. lock'[j] = lock[j]
      BY <1>6, <2>2 DEF LocksMove
    <3>2. KeyKept(j)
      BY <1>1, <1>2, <1>3, <1>4, <1>5, <2>2, <3>1 DEF KeyKept, AtStake
    <3> QED BY <1>3, <3>2, BgUntouched
  <2> QED BY <2>1, <2>2
<1>9. PendRest' /\ ClosingOK'
  BY <1>3, <1>4, <1>5 DEF PendRest, ClosingOK
<1> QED BY <1>2, <1>3, <1>4, <1>5, <1>7, <1>8, <1>9, BackgroundStep DEF TypeOK

LEMMA checkpoint_cloned_pairKeeps ==
  ASSUME ControlOK, CacheTableAssumption, NEW k \in Keys, checkpoint_cloned_pair(k)
  PROVE  ControlOK'
<1>1. /\ dm[k] = "bg" \/ dm[k] = "cp"
      /\ disk' = [disk EXCEPT ![k] = pair[k].clone] /\ ckpt' = [ckpt EXCEPT ![k] = pair[k].clone]
      /\ pair' = [pair EXCEPT ![k].clone = <<>>] /\ dm' = [dm EXCEPT ![k] = "free"]
      /\ cp' = (IF dm[k] = "cp" THEN Cp("pairs") ELSE cp)
      /\ UNCHANGED <<lock, plist, ev, mo, th, evictions, closing, injected, before>>
      /\ TypeOK /\ LocksOK /\ PairOK(k) /\ pair \in [Keys -> Pairs] /\ <<>> \in Vals
  BY ControlParts, PairParts DEF checkpoint_cloned_pair, WriteBlock, history, TypeOK, Vals
<1>2. /\ InMemory(k) /\ pair[k].clone # <<>> /\ (dm[k] = "cp" <=> cp.ph = "clone" /\ cp.cur = k)
      /\ ~pair[k].pend /\ ~InTodo(k) /\ ev[k] # "write_ckpt"
  BY <1>1 DEF PairOK, PairClone, PairPend
<1>3. closing = "no"
  <2>1. cp.ph # "idle"
    BY <1>1, <1>2, PendRestNow DEF PendRest
  <2> QED BY <2>1, CheckpointOpen
<1>4. /\ pair' \in [Keys -> Pairs] /\ \A j \in Keys : j # k => pair'[j] = pair[j]
      /\ pair'[k].st = pair[k].st /\ pair'[k].val = pair[k].val /\ pair'[k].dirty = pair[k].dirty
      /\ pair'[k].pend = pair[k].pend /\ pair'[k].clone = <<>>
  <2>1. PICK c \in Vals : c = <<>>
    BY <1>1
  <2>2. pair' = [pair EXCEPT ![k].clone = c]
    BY <1>1, <2>1
  <2>3. /\ pair' \in [Keys -> Pairs] /\ \A j \in Keys : j # k => pair'[j] = pair[j]
        /\ pair'[k].st = pair[k].st /\ pair'[k].val = pair[k].val /\ pair'[k].dirty = pair[k].dirty
        /\ pair'[k].pend = pair[k].pend /\ pair'[k].clone = c
    BY ONLY <1>1, <2>2, k \in Keys, c \in Vals DEF Pairs
  <2> QED BY <2>1, <2>3
<1>5. /\ disk' \in [Keys -> Vals] /\ ckpt' \in [Keys -> Vals]
      /\ dm' \in [Keys -> {"free", "bg", "cp"}] /\ dm'[k] = "free"
      /\ \A j \in Keys : j # k => dm'[j] = dm[j]
  <2>1. pair[k].clone \in Vals
    BY <1>1 DEF Pairs
  <2> QED BY <1>1, <2>1 DEF TypeOK
<1>6. /\ cp' \in [ph : {"idle", "pairs", "wait", "write", "clone", "done"}, cur : Keys, n : Nat]
      /\ cp'.cur = cp.cur /\ (cp'.ph = cp.ph \/ (cp'.ph = "pairs" /\ cp.ph = "clone" /\ cp.cur = k))
      /\ ~(cp'.ph = "clone" /\ cp'.cur = k)
  <2>1. CASE dm[k] = "cp"
    BY <1>1, <1>2, <2>1, CpPhase
  <2>2. CASE dm[k] # "cp"
    BY <1>1, <1>2, <2>2 DEF TypeOK
  <2> QED BY <2>1, <2>2
<1>7. LocksOK' /\ lock' \in [Keys -> LockType]
  <2>1. \A j \in Keys : /\ "cp" \in lock[j].w <=> cp'.ph = "write" /\ cp'.cur = j
                        /\ "ev" \in lock[j].w <=> ev'[j] # "no"
    BY <1>1, <1>6 DEF LocksOK
  <2> QED BY <1>1, <2>1, LocksStay
<1>8. \A j \in Keys : AtStake(j)' <=> AtStake(j)
  BY <1>1, <1>6 DEF AtStake
<1>9. ASSUME NEW j \in Keys PROVE PairOK(j)'
  <2>1. CASE j = k
    <3>1. TableOK(k)
      BY <1>1, <1>2, <1>4, <1>5, <1>6, <1>8 DEF TableOK, InMemory, PairOK, PairValue
    <3> QED BY <1>1, <2>1, <3>1, TableKept
  <2>2. CASE j # k
    <3>1. KeyKept(j)
      BY <1>1, <1>4, <1>5, <1>6, <1>8, <2>2 DEF KeyKept
    <3> QED BY <1>1, <3>1, BgUntouched
  <2> QED BY <2>1, <2>2
<1>10. PendRest'
  <2>1. cp.cur \in Keys /\ \A j \in Keys : pair'[j].pend = pair[j].pend /\ pair'[j].dirty = pair[j].dirty
    BY <1>1, <1>4 DEF TypeOK
  <2>2. \A j \in Keys : dm'[j] = "bg" => dm[j] = "bg"
    BY <1>5
  <2> QED BY <1>1, <1>6, <2>1, <2>2, PendRestNow DEF PendRest
<1>11. ClosingOK'
  BY <1>1, <1>3 DEF ClosingOK
<1> QED BY <1>1, <1>4, <1>5, <1>6, <1>7, <1>9, <1>10, <1>11, BackgroundStep DEF TypeOK

\* --------------------------------------------------------- eviction and close

\* A pair whose eviction is under way is locked by the evicter alone.
LEMMA EvictingAlone ==
  ASSUME ControlOK, CacheTableAssumption, NEW k \in Keys, ev[k] # "no"
  PROVE  /\ lock[k].w = {"ev"} /\ lock[k].r = {} /\ InMemory(k) /\ ~InTodo(k)
         /\ ~(cp.ph = "write" /\ cp.cur = k) /\ PairOK(k) /\ closing \in {"no", "jobs"}
<1>1. lock[k].w = {"ev"} /\ lock[k].r = {}
  BY ControlParts DEF LocksOK, Exclusive
<1>2. ~InTodo(k)
  BY <1>1, UnlockedQuiet DEF CacheTableAssumption
<1>3. ~(cp.ph = "write" /\ cp.cur = k)
  BY <1>1, ControlParts DEF LocksOK
<1>4. closing \in {"no", "jobs"}
  BY <1>1, ControlParts DEF ClosingOK, TypeOK
<1>5. PairOK(k) /\ InMemory(k)
  BY PairParts DEF PairOK, PairValue
<1> QED BY <1>1, <1>2, <1>3, <1>4, <1>5

LEMMA run_eviction_on_pairKeeps ==
  ASSUME ControlOK, CacheTableAssumption, NEW k \in Keys, run_eviction_on_pair(k)
  PROVE  ControlOK'
<1>1. /\ closing = "no" /\ pair[k].st = "table" /\ lock[k].w = {} /\ lock[k].r = {}
      /\ dm[k] = "free" /\ lock' = Lock(k, "ev", "w")
      /\ ev' = [ev EXCEPT ![k] = IF pair[k].dirty THEN "queued" ELSE "remove"]
      /\ evictions' = evictions + 1
      /\ UNCHANGED <<pair, dm, disk, ckpt, plist, cp, mo, th, closing, injected, before>>
      /\ TypeOK /\ LocksOK /\ PairOK(k)
  BY ControlParts, PairParts DEF run_eviction_on_pair, users, Ev, history
<1>2. InMemory(k) /\ ~InTodo(k) /\ ev[k] = "no"
  BY <1>1, UnlockedThere, UnlockedQuiet DEF LocksOK
<1>3. /\ ev' \in [Keys -> {"no", "queued", "remove", "write", "write_ckpt", "written"}]
      /\ ev'[k] \in {"queued", "remove"} /\ (ev'[k] = "remove" => ~pair[k].dirty)
      /\ \A j \in Keys : j # k => ev'[j] = ev[j]
  BY <1>1 DEF TypeOK
<1>4. LocksMove("ev", {k}, {}, {})
  BY <1>1, LockedForWriting DEF Agents
<1>5. LocksOK' /\ lock' \in [Keys -> LockType]
  <2>1. \A j \in Keys : /\ "cp" \in lock'[j].w <=> cp'.ph = "write" /\ cp'.cur = j
                        /\ "ev" \in lock'[j].w <=> ev'[j] # "no"
    BY <1>1, <1>3, <1>4 DEF LocksMove, LocksOK, Agents
  <2> QED BY <1>1, <1>4, <2>1, LocksFollowBg
<1>6. ASSUME NEW j \in Keys PROVE PairOK(j)'
  <2>1. CASE j = k
    <3>1. "rd" \in lock'[k].w <=> "rd" \in lock[k].w
      BY <1>4 DEF LocksMove, Agents
    <3>2. AtStake(k)' <=> AtStake(k)
      BY <1>1 DEF AtStake
    <3>3. TableOK(k)
      BY <1>1, <1>2, <1>3, <3>1, <3>2 DEF TableOK, PairOK, PairClone, PairPend
    <3> QED BY <1>1, <2>1, <3>3, TableKept
  <2>2. CASE j # k
    <3>1. lock'[j] = lock[j]
      BY <1>4, <2>2 DEF LocksMove
    <3>2. KeyKept(j)
      BY <1>1, <1>3, <2>2, <3>1 DEF KeyKept, AtStake
    <3> QED BY <1>1, <3>2, BgUntouched
  <2> QED BY <2>1, <2>2
<1>7. PendRest' /\ ClosingOK' /\ evictions' \in Nat
  BY <1>1, PendRestNow DEF PendRest, ClosingOK, TypeOK
<1> QED BY <1>1, <1>3, <1>5, <1>6, <1>7, BackgroundStep DEF TypeOK

\* A step of the evicter that keeps its lock.
LEMMA EvictStepKeeps ==
  ASSUME ControlOK, CacheTableAssumption, NEW k \in Keys, ev[k] # "no",
         ev' \in [Keys -> {"no", "queued", "remove", "write", "write_ckpt", "written"}],
         ev'[k] # "no", \A j \in Keys : j # k => ev'[j] = ev[j],
         pair' \in [Keys -> Pairs], \A j \in Keys : j # k => pair'[j] = pair[j],
         disk' \in [Keys -> Vals], ckpt' \in [Keys -> Vals], TableOK(k),
         UNCHANGED <<lock, dm, plist, cp, mo, th, evictions, closing, injected, before>>
  PROVE  ControlOK'
<1>1. TypeOK /\ LocksOK /\ ~(cp.ph = "write" /\ cp.cur = k)
  BY ControlParts, EvictingAlone
<1>2. LocksOK' /\ lock' \in [Keys -> LockType]
  <2>1. \A j \in Keys : /\ "cp" \in lock[j].w <=> cp'.ph = "write" /\ cp'.cur = j
                        /\ "ev" \in lock[j].w <=> ev'[j] # "no"
    BY <1>1 DEF LocksOK
  <2> QED BY <2>1, LocksStay
<1>3. ASSUME NEW j \in Keys PROVE PairOK(j)'
  <2>1. CASE j = k
    BY <2>1, TableKept
  <2>2. CASE j # k
    <3>1. KeyKept(j)
      BY <2>2 DEF KeyKept, AtStake
    <3> QED BY <3>1, BgUntouched
  <2> QED BY <2>1, <2>2
<1>4. PendRest'
  <2>1. cp.ph = "write" => cp.cur # k /\ cp.cur \in Keys
    BY <1>1 DEF TypeOK
  <2> QED BY <2>1, PendRestNow DEF PendRest
<1>5. ClosingOK'
  BY ControlParts DEF ClosingOK
<1> QED BY <1>1, <1>2, <1>3, <1>4, <1>5, BackgroundStep DEF TypeOK

LEMMA cachetable_evicterKeeps ==
  ASSUME ControlOK, CacheTableAssumption, NEW k \in Keys, cachetable_evicter(k)
  PROVE  ControlOK'
<1>1. /\ ev[k] = "queued" /\ ev' = [ev EXCEPT ![k] = IF pair[k].pend THEN "write_ckpt" ELSE "write"]
      /\ pair' = [pair EXCEPT ![k].pend = FALSE]
      /\ UNCHANGED <<lock, dm, disk, ckpt, plist, cp, mo, th, evictions, closing, injected, before>>
      /\ TypeOK /\ pair \in [Keys -> Pairs]
  BY ControlParts DEF cachetable_evicter, Ev, history, TypeOK
<1>2. InMemory(k) /\ ~InTodo(k) /\ PairOK(k)
  BY <1>1, EvictingAlone
<1>3. /\ ev' \in [Keys -> {"no", "queued", "remove", "write", "write_ckpt", "written"}]
      /\ ev'[k] \in {"write", "write_ckpt"} /\ (ev'[k] = "write_ckpt" => pair[k].pend)
      /\ \A j \in Keys : j # k => ev'[j] = ev[j]
  BY <1>1 DEF TypeOK
<1>4. /\ pair' \in [Keys -> Pairs] /\ \A j \in Keys : j # k => pair'[j] = pair[j]
      /\ pair'[k].st = pair[k].st /\ pair'[k].val = pair[k].val /\ pair'[k].dirty = pair[k].dirty
      /\ pair'[k].pend = FALSE /\ pair'[k].clone = pair[k].clone
  BY ONLY <1>1, k \in Keys DEF Pairs
<1>5. TableOK(k)
  <2>1. AtStake(k)' <=> AtStake(k)
    BY <1>1 DEF AtStake
  <2> QED BY <1>1, <1>2, <1>3, <1>4, <2>1 DEF TableOK, InMemory, PairOK, PairClone, PairPend
<1> QED BY <1>1, <1>3, <1>4, <1>5, EvictStepKeeps DEF TypeOK

LEMMA evict_writeKeeps ==
  ASSUME ControlOK, CacheTableAssumption, NEW k \in Keys, evict_write(k)
  PROVE  ControlOK'
<1>1. /\ ev[k] \in {"write", "write_ckpt"} /\ ev' = [ev EXCEPT ![k] = "written"]
      /\ pair' = [pair EXCEPT ![k].dirty = FALSE] /\ dm' = dm /\ dm[k] = "free"
      /\ disk' = [disk EXCEPT ![k] = pair[k].val]
      /\ ckpt' = (IF ev[k] = "write_ckpt" THEN [ckpt EXCEPT ![k] = pair[k].val] ELSE ckpt)
      /\ UNCHANGED <<lock, plist, cp, mo, th, evictions, closing, injected, before>>
      /\ TypeOK /\ pair \in [Keys -> Pairs] /\ pair[k].val \in Vals
  BY ControlParts DEF evict_write, cachetable_write_locked_pair, WriteBlock, Ev, history, TypeOK, Pairs
<1>2. InMemory(k) /\ ~InTodo(k) /\ PairOK(k)
  BY <1>1, EvictingAlone
<1>3. /\ ev' \in [Keys -> {"no", "queued", "remove", "write", "write_ckpt", "written"}]
      /\ ev'[k] = "written" /\ \A j \in Keys : j # k => ev'[j] = ev[j]
  BY <1>1 DEF TypeOK
<1>4. /\ pair' \in [Keys -> Pairs] /\ \A j \in Keys : j # k => pair'[j] = pair[j]
      /\ pair'[k].st = pair[k].st /\ pair'[k].val = pair[k].val /\ pair'[k].dirty = FALSE
      /\ pair'[k].pend = pair[k].pend /\ pair'[k].clone = pair[k].clone
  BY ONLY <1>1, k \in Keys DEF Pairs
<1>5. disk' \in [Keys -> Vals] /\ ckpt' \in [Keys -> Vals]
  BY <1>1 DEF TypeOK
<1>6. TableOK(k)
  BY <1>1, <1>2, <1>3, <1>4 DEF TableOK, InMemory, PairOK, PairClone, PairPend
<1> QED BY <1>1, <1>3, <1>4, <1>5, <1>6, EvictStepKeeps

\* When only the evicter uses the pair no thread waits for it or refers to it.
LEMMA UnusedIs ==
  ASSUME ControlOK, CacheTableAssumption, NEW k \in Keys, Unused(k)
  PROVE  /\ \A u \in Clients : ~Refers(th[u], k) /\ ~Awaits(th[u], k)
         /\ ~(cp.ph = "wait" /\ cp.cur = k)
<1>1. Waiters(k) \subseteq {"ev"} /\ refcount(k) = {}
  BY DEF Unused, users
<1>2. ASSUME NEW u \in Clients, Refers(th[u], k) \/ Awaits(th[u], k) PROVE FALSE
  <2>1. Pinning(u) /\ Key(u) = k
    <3>1. th[u].pc \in {"inject_root", "bg_child", "flush_root", "flush_child", "split_put",
             "merge_a", "merge_b", "clean_pick", "query_root", "query_child"}
      BY <1>2, ThreadParts DEF Refers, Awaits, ThreadOK, Phases
    <3> QED BY <1>2, <3>1, PinsAt, KeyIsKeyOf DEF Refers, Awaits
  <2>2. u \in refcount(k) \/ u \in Waiters(k)
    BY <1>2, <2>1 DEF Refers, Awaits, Waiters, Waiting, refcount
  <2> QED BY <1>1, <2>2 DEF CacheTableAssumption
<1>3. ~(cp.ph = "wait" /\ cp.cur = k)
  BY <1>1 DEF Waiters
<1> QED BY <1>2, <1>3

LEMMA evict_pairKeeps ==
  ASSUME ControlOK, CacheTableAssumption, NEW k \in Keys, evict_pair(k)
  PROVE  ControlOK'
<1>1. /\ ev[k] \in {"written", "remove"} /\ dm[k] = "free" /\ lock' = Unlocked(lock, {k}, "ev")
      /\ ev' = [ev EXCEPT ![k] = "no"]
      /\ \/ Unused(k) /\ pair' = [pair EXCEPT ![k] = NoPair] /\ plist' = plist \ {k}
         \/ pair' = pair /\ plist' = plist
      /\ UNCHANGED <<dm, disk, ckpt, cp, mo, th, evictions, closing, injected, before>>
      /\ TypeOK /\ LocksOK /\ pair \in [Keys -> Pairs]
  BY ControlParts DEF evict_pair, Ev, history, TypeOK
<1>2. /\ lock[k].w = {"ev"} /\ lock[k].r = {} /\ InMemory(k) /\ ~InTodo(k)
      /\ ~(cp.ph = "write" /\ cp.cur = k) /\ PairOK(k) /\ closing \in {"no", "jobs"}
  BY <1>1, EvictingAlone
<1>3. /\ ev' \in [Keys -> {"no", "queued", "remove", "write", "write_ckpt", "written"}]
      /\ ev'[k] = "no" /\ \A j \in Keys : j # k => ev'[j] = ev[j]
  BY <1>1 DEF TypeOK
<1>4. {k} \in SUBSET Keys /\ LocksMove("ev", {}, {}, {k})
  BY <1>1, LocksReleased DEF Agents
<1>5. LocksOK' /\ lock' \in [Keys -> LockType]
  <2>1. \A j \in Keys : "cp" \in lock'[j].w <=> cp'.ph = "write" /\ cp'.cur = j
    <3>1. \A j \in Keys : "cp" \in lock'[j].w <=> "cp" \in lock[j].w
      BY <1>4 DEF LocksMove, Agents
    <3> QED BY <1>1, <3>1 DEF LocksOK
  <2>2. \A j \in Keys : "ev" \in lock'[j].w <=> ev'[j] # "no"
    <3>1. \A j \in Keys : "ev" \in lock'[j].w <=> "ev" \in lock[j].w /\ j # k
      BY <1>4 DEF LocksMove
    <3>2. \A j \in Keys : "ev" \in lock[j].w <=> ev[j] # "no"
      BY <1>1 DEF LocksOK
    <3> QED BY <1>3, <3>1, <3>2
  <2>3. \A j \in Keys : /\ "cp" \in lock'[j].w <=> cp'.ph = "write" /\ cp'.cur = j
                        /\ "ev" \in lock'[j].w <=> ev'[j] # "no"
    BY <2>1, <2>2
  <2> QED BY <1>1, <1>4, <2>3, LocksFollowBg
<1>6. lock'[k].w = {} /\ lock'[k].r = {}
  <2>1. \A b \in Agents : b \notin lock'[k].w /\ b \notin lock'[k].r
    BY <1>2, <1>4 DEF LocksMove
  <2> QED BY <1>5, <2>1 DEF LockType, Agents
<1>7. ClosingOK' /\ evictions' \in Nat
  BY <1>1, <1>2, ControlParts DEF ClosingOK, TypeOK
<1>8. CASE Unused(k) /\ pair' = [pair EXCEPT ![k] = NoPair] /\ plist' = plist \ {k}
  <2>1. /\ pair' \in [Keys -> Pairs] /\ pair'[k] = NoPair /\ plist' \in SUBSET Keys
        /\ \A j \in Keys : j # k => pair'[j] = pair[j]
    <3>1. NoPair \in Pairs
      BY DEF NoPair, Pairs, Vals
    <3> QED BY <1>1, <1>8, <3>1 DEF TypeOK
  <2>2. ASSUME NEW j \in Keys PROVE PairOK(j)'
    <3>1. CASE j = k
      <4>1. /\ \A u \in Clients : ~Refers(th[u], k) /\ ~Awaits(th[u], k)
            /\ ~(cp.ph = "wait" /\ cp.cur = k)
        BY <1>8, UnusedIs
      <4>2. ~AtStake(k)'
        BY <1>1, <1>2, <1>8, <4>1 DEF AtStake
      <4>3. ~Leaving(k)' /\ ~InTodo(k)'
        <5>1. ~Leaving(k)
          BY <1>2 DEF PairOK, PairThere, InMemory
        <5> QED BY <1>1, <1>2, <5>1 DEF Leaving, Departs, InTodo
      <4>4. \A u \in Clients : (~Refers(th[u], k))' /\ (~Awaits(th[u], k))'
        BY <1>1, <4>1 DEF Refers, Awaits, KeyOf
      <4>5. /\ pair'[k].st = "none" /\ pair'[k].val = <<>> /\ pair'[k].dirty = FALSE
            /\ pair'[k].pend = FALSE /\ pair'[k].clone = <<>>
        BY <2>1 DEF NoPair
      <4>6. PairThere(k)'
        BY <1>6, <2>1, <4>2, <4>3, <4>4, <4>5 DEF PairThere, NoPair
      <4>7. PairValue(k)' /\ PairPend(k)'
        BY <1>3, <4>3, <4>5 DEF PairValue, PairPend
      <4>8. PairClone(k)'
        BY <1>1, <1>2, <4>5 DEF PairOK, PairClone
      <4> QED BY <3>1, <4>6, <4>7, <4>8 DEF PairOK
    <3>2. CASE j # k
      <4>1. lock'[j] = lock[j]
        BY <1>4, <3>2 DEF LocksMove
      <4>2. KeyKept(j)
        BY <1>1, <1>3, <1>8, <2>1, <3>2, <4>1 DEF KeyKept, AtStake
      <4> QED BY <1>1, <4>2, BgUntouched
    <3> QED BY <3>1, <3>2
  <2>3. PendRest'
    <3>1. cp.ph = "write" => cp.cur # k /\ cp.cur \in Keys
      BY <1>1, <1>2 DEF TypeOK
    <3> QED BY <1>1, <1>8, <2>1, <3>1, PendRestNow DEF PendRest
  <2> QED BY <1>1, <1>3, <1>5, <1>7, <2>1, <2>2, <2>3, BackgroundStep DEF TypeOK
<1>9. CASE pair' = pair /\ plist' = plist
  <2>1. ASSUME NEW j \in Keys PROVE PairOK(j)'
    <3>1. CASE j = k
      <4>1. "rd" \in lock'[k].w <=> "rd" \in lock[k].w
        BY <1>4 DEF LocksMove, Agents
      <4>2. AtStake(k)' <=> AtStake(k)
        BY <1>1, <1>9 DEF AtStake
      <4>3. TableOK(k)
        BY <1>1, <1>2, <1>3, <1>9, <4>1, <4>2 DEF TableOK, InMemory, PairOK, PairClone, PairPend
      <4> QED BY <1>1, <3>1, <4>3, TableKept
    <3>2. CASE j # k
      <4>1. lock'[j] = lock[j]
        BY <1>4, <3>2 DEF LocksMove
      <4>2. KeyKept(j)
        BY <1>1, <1>3, <1>9, <3>2, <4>1 DEF KeyKept, AtStake
      <4> QED BY <1>1, <4>2, BgUntouched
    <3> QED BY <3>1, <3>2
  <2>2. PendRest'
    BY <1>1, <1>9, PendRestNow DEF PendRest
  <2> QED BY <1>1, <1>3, <1>5, <1>7, <1>9, <2>1, <2>2, BackgroundStep DEF TypeOK
<1> QED BY <1>1, <1>8, <1>9

LEMMA CloseKeeps ==
  ASSUME ControlOK, CacheTableAssumption, Close
  PROVE  ControlOK'
<1>1. /\ UNCHANGED <<lock, dm, plist, cp, ev, mo, th, evictions, injected, before>> /\ TypeOK
      /\ LocksOK /\ ClosingOK /\ pair \in [Keys -> Pairs]
  BY ControlParts DEF Close, history, TypeOK
<1>2. LocksOK' /\ lock' \in [Keys -> LockType]
  <2>1. \A j \in Keys : /\ "cp" \in lock[j].w <=> cp'.ph = "write" /\ cp'.cur = j
                        /\ "ev" \in lock[j].w <=> ev'[j] # "no"
    BY <1>1 DEF LocksOK
  <2> QED BY <1>1, <2>1, LocksStay
<1>3. ASSUME UNCHANGED <<pair, disk, ckpt>>,
             \/ closing = "no" /\ Finished /\ cp.ph = "idle" /\ closing' = "jobs"
             \/ closing = "jobs" /\ (\A k \in Keys : lock[k].w = {}) /\ closing' = "write"
      PROVE  ControlOK'
  <2>1. ClosingOK' /\ closing' \in {"no", "jobs", "write", "closed"}
    BY <1>1, <1>3 DEF ClosingOK, Finished, Idle
  <2>2. ASSUME NEW j \in Keys PROVE PairOK(j)'
    <3>1. KeyKept(j)
      BY <1>1, <1>3 DEF KeyKept, AtStake
    <3> QED BY <1>1, <3>1, BgUntouched
  <2>3. PendRest'
    BY <1>1, <1>3, PendRestNow DEF PendRest
  <2> QED BY <1>1, <1>2, <1>3, <2>1, <2>2, <2>3, BackgroundStep DEF TypeOK
<1>4. ASSUME closing = "write", closing' = closing, NEW k \in Keys, pair[k].dirty,
             WriteBlock(k, pair[k].val, FALSE), pair' = [pair EXCEPT ![k].dirty = FALSE]
      PROVE  ControlOK'
  <2>1. ClosingOK' /\ cp.ph = "idle" /\ closing' \in {"no", "jobs", "write", "closed"}
    BY <1>1, <1>4 DEF ClosingOK
  <2>2. /\ pair' \in [Keys -> Pairs] /\ \A j \in Keys : j # k => pair'[j] = pair[j]
        /\ pair'[k].st = pair[k].st /\ pair'[k].val = pair[k].val /\ pair'[k].dirty = FALSE
        /\ pair'[k].pend = pair[k].pend /\ pair'[k].clone = pair[k].clone
    BY ONLY <1>1, <1>4 DEF Pairs
  <2>3. disk' \in [Keys -> Vals] /\ ckpt' \in [Keys -> Vals]
    <3>1. pair[k].val \in Vals
      BY <1>1 DEF Pairs
    <3> QED BY <1>1, <1>4, <3>1 DEF TypeOK, WriteBlock
  <2>4. ASSUME NEW j \in Keys PROVE PairOK(j)'
    <3>1. CASE j = k
      <4>1. PairOK(k) /\ pair[k] \in Pairs
        BY <1>1, PairParts
      <4>2. pair[k].st = "table"
        <5>1. NoPair.dirty = FALSE
          BY DEF NoPair
        <5> QED BY <1>4, <4>1, <5>1 DEF PairOK, PairThere, Pairs
      <4>3. AtStake(k)' <=> AtStake(k)
        BY <1>1 DEF AtStake
      <4>4. TableOK(k)
        BY <1>1, <2>2, <4>1, <4>2, <4>3 DEF TableOK, PairOK, PairValue, PairClone, PairPend
      <4> QED BY <1>1, <3>1, <4>4, TableKept
    <3>2. CASE j # k
      <4>1. KeyKept(j)
        BY <1>1, <2>2, <3>2 DEF KeyKept, AtStake
      <4> QED BY <1>1, <4>1, BgUntouched
    <3> QED BY <3>1, <3>2
  <2>5. PendRest'
    BY <1>1, <2>1, PendRestNow DEF PendRest
  <2> QED BY <1>1, <1>2, <2>1, <2>2, <2>3, <2>4, <2>5, BackgroundStep DEF TypeOK
<1>5. ASSUME closing = "write", closing' = "closed", pair' = [k \in Keys |-> NoPair],
             UNCHANGED <<disk, ckpt>>
      PROVE  ControlOK'
  <2>1. /\ cp.ph = "idle" /\ \A t \in Clients : th[t].pc = "idle" /\ th[t].work = <<>>
        /\ \A k \in Keys : lock[k].w = {}
    BY <1>1, <1>5 DEF ClosingOK
  <2>2. ClosingOK' /\ closing' \in {"no", "jobs", "write", "closed"}
    BY <1>1, <1>5, <2>1 DEF ClosingOK
  <2>3. pair' \in [Keys -> Pairs]
    <3>1. NoPair \in Pairs
      BY DEF NoPair, Pairs, Vals
    <3> QED BY <1>5, <3>1
  <2>4. plist = {} /\ \A k \in Keys : dm[k] # "bg"
    BY <2>1, PendRestNow DEF PendRest
  <2>5. \A t \in Clients : th[t].ph = "go" /\ th[t].todo = {}
    BY <2>1, ThreadParts DEF ThreadOK, Phases
  <2>6. ASSUME NEW k \in Keys PROVE PairOK(k)'
    <3>1. /\ pair'[k] = NoPair /\ pair'[k].st = "none" /\ pair'[k].val = <<>>
          /\ pair'[k].dirty = FALSE /\ pair'[k].pend = FALSE /\ pair'[k].clone = <<>>
      BY <1>5 DEF NoPair
    <3>2. lock'[k].w = {} /\ lock'[k].r = {}
      <4>1. \A t \in Clients : ~Reads(th[t], k)
        BY <2>1 DEF Reads, ReadsRoot
      <4>2. lock[k].r \in SUBSET Clients
        BY <1>1 DEF TypeOK
      <4> QED BY <1>1, <2>1, <4>1, <4>2 DEF LocksOK
    <3>3. ev[k] = "no" /\ dm[k] = "free"
      <4>1. dm[k] # "cp"
        BY <2>1, PairParts DEF PairOK, PairClone
      <4> QED BY <1>1, <2>1, <2>4, <4>1 DEF LocksOK, TypeOK
    <3>4. ~AtStake(k)' /\ ~InTodo(k)' /\ ~Leaving(k)'
      BY <1>1, <2>1, <2>4, <2>5 DEF AtStake, InTodo, Leaving, Departs
    <3>5. \A t \in Clients : (~Refers(th[t], k))' /\ (~Awaits(th[t], k))'
      BY <1>1, <2>5 DEF Refers, Awaits
    <3>6. PairThere(k)'
      BY <3>1, <3>2, <3>4, <3>5 DEF PairThere, NoPair
    <3>7. PairValue(k)' /\ PairPend(k)'
      BY <1>1, <3>1, <3>3, <3>4 DEF PairValue, PairPend
    <3>8. PairClone(k)'
      BY <1>1, <2>1, <3>1, <3>3 DEF PairClone
    <3> QED BY <3>6, <3>7, <3>8 DEF PairOK
  <2>7. PendRest'
    BY <1>1, <2>1, <2>4 DEF PendRest
  <2> QED BY <1>1, <1>2, <1>5, <2>2, <2>3, <2>6, <2>7, BackgroundStep DEF TypeOK
<1> QED BY <1>3, <1>4, <1>5 DEF Close, toku_cachefile_close

\* ------------------------------------------------------- the steps of a client

\* The kinds of steps an operation is made of.
MultiOp(t, pc, next) ==
  \/ MultiOpLock(t) /\ pc = "inject_mo" /\ next = "inject_root"
  \/ MultiOpUnlock(t, pc, next) /\ pc = "inject_done" /\ next = "idle"
  \/ MultiOpUnlock(t, pc, next) /\ pc = "bg_mo" /\ next = "flush_give"
  \/ MultiOpUnlock(t, pc, next) /\ pc = "bg_fail" /\ next = "flush_pick"
Unpins(t) == \E pc, k, next : UnpinIs(t, pc, k, next) /\ At(t, pc) /\ Unpin(t, k, next)
Detaches(t) == \E pc, next : /\ pc \in {"bg_detach", "flush_detach"} /\ ContentIs(pc, next)
                             /\ At(t, pc) /\ Detach(t, next)
Flushes(t) == \E pc, next : /\ pc \in {"flush_give", "flush_give_both"} /\ ContentIs(pc, next)
                            /\ At(t, pc) /\ flush_to_child(t, next)
Picks(t) == \E pc, next : /\ \/ pc = "flush_pick" /\ next = "flush_child"
                             \/ pc = "query_pick" /\ next = "query_child"
                          /\ At(t, pc) /\ \E x \in Kids : th' = [Goto(t, next) EXCEPT ![t].x = x]
                          /\ UNCHANGED mo /\ OnlyThread

LEMMA OperationCases ==
  ASSUME NEW t, Operation(t)
  PROVE  \/ Start(t) \/ (\E pc, next : MultiOp(t, pc, next)) \/ Inject(t) \/ Unpins(t)
         \/ Detaches(t) \/ Flushes(t) \/ Picks(t) \/ SplitDo(t) \/ MergeUnpin(t) \/ MergeDo(t)
         \/ run_cleaner(t) \/ toku_cachefile_prefetch(t)
<1>1. ASSUME BackgroundFlush(t)
      PROVE  (\E pc, next : MultiOp(t, pc, next)) \/ Unpins(t) \/ Detaches(t)
  BY <1>1 DEF BackgroundFlush, MultiOp, Unpins, Detaches, UnpinIs, ContentIs
<1>2. ASSUME flush_some_child(t)
      PROVE  Unpins(t) \/ Detaches(t) \/ Flushes(t) \/ Picks(t)
  <2>1. ASSUME PickChild(t) PROVE Picks(t)
    BY <2>1 DEF PickChild, Picks
  <2>2. ASSUME At(t, "flush_detach"), Detach(t, "flush_unpin") \/ Detach(t, "flush_give_both")
        PROVE  Detaches(t)
    BY <2>2 DEF Detaches, ContentIs
  <2>3. ASSUME At(t, "flush_give"), flush_to_child(t, "unpin_x") PROVE Flushes(t)
    BY <2>3 DEF Flushes, ContentIs
  <2>4. ASSUME At(t, "flush_give_both"),
               \/ flush_to_child(t, "unpin_both") \/ flush_to_child(t, "split_put")
               \/ flush_to_child(t, "merge_unpin")
        PROVE  Flushes(t)
    BY <2>4 DEF Flushes, ContentIs
  <2>5. ASSUME \/ At(t, "flush_unpin") /\ Unpin(t, Root, "flush_give")
               \/ At(t, "unpin_both") /\ Unpin(t, Root, "unpin_x")
               \/ At(t, "unpin_x") /\ Unpin(t, th[t].x, "idle")
        PROVE  Unpins(t)
    BY <2>5 DEF Unpins, UnpinIs
  <2> QED BY <1>2, <2>1, <2>2, <2>3, <2>4, <2>5 DEF flush_some_child
<1>3. ASSUME ft_split_child(t) PROVE Unpins(t) \/ SplitDo(t)
  BY <1>3 DEF ft_split_child, SplitDo, Unpins, UnpinIs
<1>4. ASSUME ft_merge_child(t) PROVE MergeUnpin(t) \/ MergeDo(t)
  BY <1>4 DEF ft_merge_child, MergeUnpin, MergeDo
<1>5. ASSUME Query(t) PROVE Picks(t) \/ Unpins(t)
  BY <1>5 DEF Query, Picks, Unpins, UnpinIs
<1>6. ASSUME At(t, "inject_unpin"), Unpin(t, Root, "inject_done") PROVE Unpins(t)
  BY <1>6 DEF Unpins, UnpinIs
<1>7. ASSUME MultiOpLock(t) \/ MultiOpUnlock(t, "inject_done", "idle")
      PROVE  \E pc, next : MultiOp(t, pc, next)
  BY <1>7 DEF MultiOp
<1> QED BY <1>1, <1>2, <1>3, <1>4, <1>5, <1>6, <1>7 DEF Operation

LEMMA PinStepKeepsControl ==
  ASSUME ControlOK, TreeOK, CacheTableAssumption, NEW t \in Clients, PinStep(t)
  PROVE  ControlOK'
BY get_and_pinKeeps, try_pin_pairKeeps, get_checkpoint_pendingKeeps, write_lockedKeeps,
   cachetable_insert_atKeeps, cachetable_fetch_pairKeeps, put_with_dep_pairsKeeps,
   maybe_get_and_pin_cleanKeeps, get_and_pin_nonblockingKeeps, FetchAgainKeeps,
   maybe_pin_pairKeeps, unpin_and_removeKeeps, FreeRemovedKeeps DEF PinStep

LEMMA OperationKeepsControl ==
  ASSUME ControlOK, CacheTableAssumption, NEW t \in Clients, Operation(t)
  PROVE  ControlOK'
<1>1. ASSUME \E pc, next : MultiOp(t, pc, next) PROVE ControlOK'
  BY <1>1, MultiOpKeeps DEF MultiOp
<1>2. ASSUME Unpins(t) PROVE ControlOK'
  BY <1>2, UnpinKeeps DEF Unpins
<1>3. ASSUME Detaches(t) PROVE ControlOK'
  BY <1>3, DetachKeeps DEF Detaches
<1>4. ASSUME Flushes(t) PROVE ControlOK'
  BY <1>4, FlushToChildKeeps DEF Flushes
<1>5. ASSUME Picks(t) PROVE ControlOK'
  BY <1>5, PickKeeps DEF Picks
<1> QED BY <1>1, <1>2, <1>3, <1>4, <1>5, OperationCases, StartKeeps, InjectKeeps, SplitDoKeeps,
           MergeUnpinKeeps, MergeDoKeeps, run_cleanerKeeps, toku_cachefile_prefetchKeeps

LEMMA BackgroundKeepsControl ==
  ASSUME ControlOK, TreeOK, CacheTableAssumption, Background
  PROVE  ControlOK'
BY begin_checkpointKeeps, checkpoint_pending_pairsKeeps, ClearPendingKeeps, write_pairKeeps,
   end_checkpointKeeps, checkpoint_cloned_pairKeeps, run_eviction_on_pairKeeps,
   cachetable_evicterKeeps, evict_writeKeeps, evict_pairKeeps, cachetable_readerKeeps
   DEF Background

LEMMA StutterKeepsControl ==
  ASSUME ControlOK, UNCHANGED vars
  PROVE  ControlOK'
<1>1. UNCHANGED <<pair, lock, dm, disk, ckpt, plist, cp, ev, mo, th, evictions, closing, injected,
                  before>>
  BY DEF vars
<1>2. TypeOK' /\ LocksOK' /\ ClosingOK' /\ ThreadsOK'
  <2>1. TypeOK'
    BY <1>1, ControlParts DEF TypeOK
  <2>2. ThreadsOK'
    BY <1>1, ControlParts DEF ThreadsOK, ThreadOK, Phases, UsesX, UsesY, HasX, HasY, HasRoot, Pinned,
       Writes, Fetches, KeyOf
  <2>3. LocksOK'
    BY <1>1, ControlParts DEF LocksOK, Exclusive, Writes, Reads, ReadsRoot, HasX, HasY, HasRoot, Pinned
  <2>4. ClosingOK'
    BY <1>1, ControlParts DEF ClosingOK
  <2> QED BY <2>1, <2>2, <2>3, <2>4
<1>3. ASSUME NEW k \in Keys PROVE PairOK(k)'
  <2>1. KeyKept(k)
    BY <1>1 DEF KeyKept, AtStake
  <2> QED BY <1>1, <2>1, BgUntouched
<1>4. PendRest'
  BY <1>1, PendRestNow DEF PendRest
<1> QED BY <1>2, <1>3, <1>4, Assembled

LEMMA NextKeepsControl ==
  ASSUME ControlOK, TreeOK, CacheTableAssumption, [Next]_vars
  PROVE  ControlOK'
BY PinStepKeepsControl, OperationKeepsControl, BackgroundKeepsControl, CloseKeeps,
   StutterKeepsControl DEF Next, Done

LEMMA InitControl ==
  ASSUME Init, CacheTableAssumption
  PROVE  ControlOK
<1>1. PICK w \in Works :
       /\ disk = [k \in Keys |-> CASE k = Root -> <<Node(w.kids, {})>>
                                   [] k \in w.kids -> <<Node({}, {})>> [] OTHER -> <<>>]
       /\ th = [t \in Clients |-> [Thread EXCEPT !.work = w.ops[t]]]
  BY DEF Init
<1>2. w.kids \subseteq Leaves /\ w.ops \in [Clients -> Seq(Jobs)] /\ Root \in Keys
  BY DEF CacheTableAssumption, Keys
<1>3. /\ pair = [k \in Keys |-> NoPair] /\ lock = [k \in Keys |-> [w |-> {}, r |-> {}]]
      /\ dm = [k \in Keys |-> "free"] /\ ckpt = [k \in Keys |-> <<>>] /\ plist = {}
      /\ cp = [ph |-> "idle", cur |-> Root, n |-> 0] /\ ev = [k \in Keys |-> "no"] /\ mo = {}
      /\ evictions = 0 /\ closing = "no" /\ injected = {} /\ before = {}
  BY DEF Init
<1>4. /\ th \in [Clients -> Threads]
      /\ \A t \in Clients : /\ th[t].pc = "idle" /\ th[t].ph = "go" /\ th[t].todo = {}
                            /\ th[t].fl = {} /\ th[t].mod = {}
  <2>1. "idle" \in Pcs
    BY DEF Pcs
  <2> QED BY <1>1, <1>2, <2>1 DEF Thread, Threads
<1>5. disk \in [Keys -> Vals]
  <2>1. <<Node(w.kids, {})>> \in Vals /\ <<Node({}, {})>> \in Vals /\ <<>> \in Vals
    BY <1>2, NodeInVals DEF Vals
  <2> QED BY <1>1, <2>1
<1>6. TypeOK
  <2>1. NoPair \in Pairs /\ ckpt \in [Keys -> Vals]
    BY <1>3 DEF NoPair, Pairs, Vals
  <2> QED BY <1>2, <1>3, <1>4, <1>5, <2>1 DEF TypeOK
<1>7. ASSUME NEW t \in Clients
      PROVE  /\ ThreadOK(th[t]) /\ \A k \in Keys : ~Writes(th[t], k) /\ ~Reads(th[t], k)
             /\ \A k : ~Fetches(th[t], k) /\ ~Awaits(th[t], k) /\ ~Refers(th[t], k) /\ ~Departs(th[t], k)
             /\ t \notin mo /\ th[t].pc \notin MoPcs
  <2>1. /\ th[t].pc = "idle" /\ th[t].ph = "go" /\ th[t].todo = {} /\ th[t].fl = {} /\ th[t].mod = {}
    BY <1>4
  <2>2. ~HasRoot(th[t]) /\ ~HasX(th[t]) /\ ~HasY(th[t]) /\ ~ReadsRoot(th[t])
    BY <2>1 DEF HasRoot, HasX, HasY, ReadsRoot, Pinned
  <2>3. ThreadOK(th[t])
    BY <2>1, <2>2 DEF ThreadOK, Phases, UsesX, UsesY, Pinned
  <2> QED BY <1>3, <2>1, <2>2, <2>3 DEF Writes, Reads, Fetches, Awaits, Refers, Departs, MoPcs
<1>8. ThreadsOK /\ LocksOK /\ ClosingOK
  BY <1>3, <1>7 DEF ThreadsOK, LocksOK, ClosingOK, Exclusive
<1>9. ASSUME NEW k \in Keys PROVE PairThere(k) /\ PairValue(k) /\ PairClone(k) /\ PairPend(k)
  <2>1. ~InTodo(k) /\ ~Fetching(k) /\ ~Leaving(k) /\ ~AtStake(k)
    BY <1>3, <1>4, <1>7 DEF InTodo, Fetching, Leaving, AtStake
  <2> QED BY <1>3, <1>7, <2>1 DEF PairThere, PairValue, PairClone, PairPend, NoPair
<1> QED BY <1>3, <1>6, <1>8, <1>9 DEF ControlOK, PairsOK, PendOK
=============================================================================
