-------------------------- MODULE CacheTreeProofs ---------------------------
(***************************************************************************)
(* Proofs about what the nodes of a cachefile hold, for any nodes,         *)
(* clients, workloads and any number of checkpoints and evictions: the     *)
(* tree in memory and on disk has every message once, and so has the image *)
(* of the tree that a checkpoint will have on disk, from its begin to its  *)
(* end.                                                                    *)
(*                                                                         *)
(* The control part of the invariant, from CacheTableProofs, says who may  *)
(* change a node and when.  Here the tree's part is kept by every step,    *)
(* then the image's; the theorems are at the end.                          *)
(***************************************************************************)
EXTENDS CacheTableProofs

\* ------------------------------------------------- trees and what they hold

\* These lemmas are about any contents c of the nodes and any messages f in flight: they
\* are used of the tree now and of the tree the checkpoint will have.
Tree(c) == c \in [Keys -> Vals] /\ Whole(c)

LEMMA TreeIs ==
  ASSUME CacheTableAssumption, NEW c, Tree(c)
  PROVE  /\ c[Root] # <<>> /\ KidsOf(c) \in SUBSET Leaves /\ Root \notin KidsOf(c)
         /\ \A k : k \in Reachable(c) <=> k = Root \/ k \in KidsOf(c)
         /\ \A k, m : In(c, k, m) <=> (k = Root \/ k \in KidsOf(c)) /\ m \in c[k][1].toks
<1>1. c[Root] # <<>>
  BY DEF Tree, Whole, Reachable
<1>2. KidsOf(c) \in SUBSET Leaves
  <2>1. c[Root] \in Vals
    BY DEF Tree, Keys
  <2> QED BY <1>1, <2>1 DEF Vals, KidsOf
<1>3. \A k : k \in Reachable(c) <=> k = Root \/ k \in KidsOf(c)
  BY <1>1 DEF Reachable, KidsOf
<1> QED BY <1>1, <1>2, <1>3 DEF In, CacheTableAssumption

LEMMA TreeFrom ==
  ASSUME NEW c \in [Keys -> Vals], c[Root] # <<>>, \A k \in KidsOf(c) : c[k] # <<>>
  PROVE  Tree(c)
BY DEF Tree, Whole, Reachable, KidsOf

\* The same messages in the same places.
LEMMA HoldsSame ==
  ASSUME NEW c, NEW d, NEW f, NEW g, NEW ms, Holds(c, f, ms),
         \A k \in Keys, m \in Tokens : In(d, k, m) <=> In(c, k, m),
         \A t \in Clients : g[t] = f[t]
  PROVE  Holds(d, g, ms)
<1> SUFFICES ASSUME NEW m \in Tokens
             PROVE  IF m \in ms THEN Once(d, g, m) ELSE Nowhere(d, g, m)
  BY DEF Holds
<1>1. IF m \in ms THEN Once(c, f, m) ELSE Nowhere(c, f, m)
  BY DEF Holds
<1>2. \A k \in Keys : In(d, k, m) <=> In(c, k, m)
  OBVIOUS
<1>3. \A t \in Clients : m \in g[t] <=> m \in f[t]
  OBVIOUS
<1> QED BY ONLY <1>1, <1>2, <1>3 DEF Once, Nowhere

\* A new message at one node.
LEMMA HoldsMore ==
  ASSUME NEW c, NEW d, NEW f, NEW ms, Holds(c, f, ms), NEW r \in Keys, NEW a \in Tokens, a \notin ms,
         \A k \in Keys, m \in Tokens : In(d, k, m) <=> In(c, k, m) \/ (k = r /\ m = a)
  PROVE  Holds(d, f, ms \cup {a})
<1> SUFFICES ASSUME NEW m \in Tokens
             PROVE  IF m \in ms \cup {a} THEN Once(d, f, m) ELSE Nowhere(d, f, m)
  BY DEF Holds
<1>1. IF m \in ms THEN Once(c, f, m) ELSE Nowhere(c, f, m)
  BY DEF Holds
<1>2. \A k \in Keys : In(d, k, m) <=> In(c, k, m) \/ (k = r /\ m = a)
  OBVIOUS
<1>3. CASE m = a
  BY <1>1, <1>2, <1>3 DEF Once, Nowhere
<1>4. CASE m # a
  BY <1>1, <1>2, <1>4 DEF Once, Nowhere
<1> QED BY <1>3, <1>4

\* The messages of one node go to a thread.
LEMMA HoldsTaken ==
  ASSUME NEW c, NEW d, NEW f, NEW g, NEW ms, Holds(c, f, ms), NEW r \in Keys, NEW t \in Clients,
         \A k \in Keys, m \in Tokens : In(d, k, m) <=> In(c, k, m) /\ k # r,
         \A u \in Clients : u # t => g[u] = f[u],
         \A m \in Tokens : m \in g[t] <=> In(c, r, m) \/ m \in f[t]
  PROVE  Holds(d, g, ms)
<1> SUFFICES ASSUME NEW m \in Tokens
             PROVE  IF m \in ms THEN Once(d, g, m) ELSE Nowhere(d, g, m)
  BY DEF Holds
<1>1. IF m \in ms THEN Once(c, f, m) ELSE Nowhere(c, f, m)
  BY DEF Holds
<1>2. \A k \in Keys : In(d, k, m) <=> In(c, k, m) /\ k # r
  OBVIOUS
<1>3. \A u \in Clients : m \in g[u] <=> m \in f[u] \/ (u = t /\ In(c, r, m))
  OBVIOUS
<1>4. CASE m \in ms
  <2>1. Once(c, f, m)
    BY <1>1, <1>4
  <2>2. (\E k \in Keys : In(d, k, m)) \/ (\E u \in Clients : m \in g[u])
    BY <1>2, <1>3, <2>1 DEF Once
  <2>3. Once(d, g, m)
    BY <1>2, <1>3, <2>1, <2>2 DEF Once
  <2> QED BY <1>4, <2>3
<1>5. CASE m \notin ms
  BY <1>1, <1>2, <1>3, <1>5 DEF Nowhere
<1> QED BY <1>4, <1>5

\* The messages of a thread go to one node.
LEMMA HoldsGiven ==
  ASSUME NEW c, NEW d, NEW f, NEW g, NEW ms, Holds(c, f, ms), NEW r \in Keys, NEW t \in Clients,
         \A k \in Keys, m \in Tokens : In(d, k, m) <=> In(c, k, m) \/ (k = r /\ m \in f[t]),
         \A u \in Clients : u # t => g[u] = f[u], g[t] = {}
  PROVE  Holds(d, g, ms)
<1> SUFFICES ASSUME NEW m \in Tokens
             PROVE  IF m \in ms THEN Once(d, g, m) ELSE Nowhere(d, g, m)
  BY DEF Holds
<1>1. IF m \in ms THEN Once(c, f, m) ELSE Nowhere(c, f, m)
  BY DEF Holds
<1>2. \A k \in Keys : In(d, k, m) <=> In(c, k, m) \/ (k = r /\ m \in f[t])
  OBVIOUS
<1>3. \A u \in Clients : m \in g[u] <=> m \in f[u] /\ u # t
  OBVIOUS
<1>4. CASE m \in ms
  <2>1. Once(c, f, m)
    BY <1>1, <1>4
  <2>2. (\E k \in Keys : In(d, k, m)) \/ (\E u \in Clients : m \in g[u])
    BY <1>2, <1>3, <2>1 DEF Once
  <2>3. Once(d, g, m)
    BY <1>2, <1>3, <2>1, <2>2 DEF Once
  <2> QED BY <1>4, <2>3
<1>5. CASE m \notin ms
  BY <1>1, <1>2, <1>3, <1>5 DEF Nowhere
<1> QED BY <1>4, <1>5

\* Messages go from some nodes to one: those of from are at most at x or y afterwards.
\* Each message is at one of x and y if it was at one of the nodes of from.
LEMMA HoldsMoved ==
  ASSUME NEW c, NEW d, NEW f, NEW ms, Holds(c, f, ms), NEW from \in SUBSET Keys,
         \A k \in Keys \ from, m \in Tokens : In(d, k, m) <=> In(c, k, m),
         \A m \in Tokens : (\E k \in from : In(d, k, m)) <=> (\E k \in from : In(c, k, m)),
         \A k, l \in from, m \in Tokens : In(d, k, m) /\ In(d, l, m) => k = l
  PROVE  Holds(d, f, ms)
<1> SUFFICES ASSUME NEW m \in Tokens
             PROVE  IF m \in ms THEN Once(d, f, m) ELSE Nowhere(d, f, m)
  BY DEF Holds
<1>1. IF m \in ms THEN Once(c, f, m) ELSE Nowhere(c, f, m)
  BY DEF Holds
<1>2. \A k \in Keys : k \notin from => (In(d, k, m) <=> In(c, k, m))
  OBVIOUS
<1>3. (\E k \in from : In(d, k, m)) <=> (\E k \in from : In(c, k, m))
  OBVIOUS
<1>4. \A k, l \in from : In(d, k, m) /\ In(d, l, m) => k = l
  OBVIOUS
<1>5. CASE m \in ms
  <2>1. Once(c, f, m)
    BY <1>1, <1>5
  <2>2. (\E k \in Keys : In(d, k, m)) \/ (\E u \in Clients : m \in f[u])
    BY <1>2, <1>3, <2>1 DEF Once
  <2>3. \A k, l \in Keys : In(d, k, m) /\ In(d, l, m) => k = l
    BY <1>2, <1>3, <1>4, <2>1 DEF Once
  <2>4. \A k \in Keys, u \in Clients : ~(In(d, k, m) /\ m \in f[u])
    BY <1>2, <1>3, <2>1 DEF Once
  <2> QED BY <1>5, <2>1, <2>2, <2>3, <2>4 DEF Once
<1>6. CASE m \notin ms
  BY <1>1, <1>2, <1>3, <1>6 DEF Nowhere
<1> QED BY <1>5, <1>6

\* A node that is not linked changes.
LEMMA TreeUnlinked ==
  ASSUME CacheTableAssumption, NEW c, Tree(c), NEW d \in [Keys -> Vals], NEW k \in Leaves,
         k \notin KidsOf(c), \A j \in Keys : j # k => d[j] = c[j],
         NEW f, NEW ms, Holds(c, f, ms)
  PROVE  Tree(d) /\ KidsOf(d) = KidsOf(c) /\ Holds(d, f, ms)
<1>1. d[Root] = c[Root] /\ KidsOf(d) = KidsOf(c)
  BY DEF CacheTableAssumption, Keys, KidsOf
<1>2. \A j \in KidsOf(d) : d[j] = c[j] /\ d[j] # <<>>
  BY <1>1, TreeIs DEF Tree, Whole, Keys
<1>3. Tree(d)
  BY <1>1, <1>2, TreeIs, TreeFrom
<1>4. \A j \in Keys, m \in Tokens : In(d, j, m) <=> In(c, j, m)
  BY <1>1, <1>2, <1>3, TreeIs
<1> QED BY <1>1, <1>3, <1>4, HoldsSame

\* A message arrives at the root.
LEMMA TreeMore ==
  ASSUME CacheTableAssumption, NEW c, Tree(c), NEW d \in [Keys -> Vals], NEW a \in Tokens,
         d[Root] = <<Node(KidsOf(c), c[Root][1].toks \cup {a})>>,
         \A j \in Keys : j # Root => d[j] = c[j],
         NEW f, NEW ms, Holds(c, f, ms), a \notin ms
  PROVE  Tree(d) /\ KidsOf(d) = KidsOf(c) /\ Holds(d, f, ms \cup {a})
<1>1. Root \in Keys /\ d[Root] # <<>> /\ KidsOf(d) = KidsOf(c)
      /\ d[Root][1].toks = c[Root][1].toks \cup {a}
  BY DEF Keys, KidsOf, Node
<1>2. \A j \in KidsOf(d) : d[j] = c[j] /\ d[j] # <<>>
  BY <1>1, TreeIs DEF Tree, Whole, Keys
<1>3. Tree(d)
  BY <1>1, <1>2, TreeFrom
<1>4. \A j \in Keys, m \in Tokens : In(d, j, m) <=> In(c, j, m) \/ (j = Root /\ m = a)
  <2> SUFFICES ASSUME NEW j \in Keys, NEW m \in Tokens
               PROVE  In(d, j, m) <=> In(c, j, m) \/ (j = Root /\ m = a)
    OBVIOUS
  <2>1. CASE j = Root
    BY <1>1, <1>3, <2>1, TreeIs
  <2>2. CASE j # Root
    BY <1>1, <1>2, <1>3, <2>2, TreeIs
  <2> QED BY <2>1, <2>2
<1> QED BY <1>1, <1>3, <1>4, HoldsMore

\* The messages of the root are detached from it by t.
Taken(c, d, f, g, t) ==
  /\ d \in [Keys -> Vals] /\ d[Root] = <<Node(KidsOf(c), {})>>
  /\ \A j \in Keys : j # Root => d[j] = c[j]
  /\ f[t] = {} /\ g[t] = c[Root][1].toks /\ \A u \in Clients : u # t => g[u] = f[u]
LEMMA TreeTaken ==
  ASSUME CacheTableAssumption, NEW c, NEW d, NEW f, NEW g, NEW ms, NEW t \in Clients,
         Tree(c), Holds(c, f, ms), Taken(c, d, f, g, t)
  PROVE  Tree(d) /\ KidsOf(d) = KidsOf(c) /\ Holds(d, g, ms)
<1> USE DEF Taken
<1>1. Root \in Keys /\ d[Root] # <<>> /\ KidsOf(d) = KidsOf(c) /\ d[Root][1].toks = {}
  BY DEF Keys, KidsOf, Node
<1>2. \A j \in KidsOf(d) : d[j] = c[j] /\ d[j] # <<>>
  BY <1>1, TreeIs DEF Tree, Whole, Keys
<1>3. Tree(d)
  BY <1>1, <1>2, TreeFrom
<1>4. \A j \in Keys, m \in Tokens : In(d, j, m) <=> In(c, j, m) /\ j # Root
  <2> SUFFICES ASSUME NEW j \in Keys, NEW m \in Tokens
               PROVE  In(d, j, m) <=> In(c, j, m) /\ j # Root
    OBVIOUS
  <2>1. CASE j = Root
    BY <1>1, <1>3, <2>1, TreeIs
  <2>2. CASE j # Root
    BY <1>1, <1>2, <1>3, <2>2, TreeIs
  <2> QED BY <2>1, <2>2
<1>5. \A m \in Tokens : m \in g[t] <=> In(c, Root, m) \/ m \in f[t]
  BY TreeIs
<1> QED BY <1>1, <1>3, <1>4, <1>5, HoldsTaken

\* The messages that t has are put into a child.
Given(c, d, f, g, t, x) ==
  /\ d \in [Keys -> Vals] /\ x \in KidsOf(c)
  /\ d[x] # <<>> /\ d[x][1].toks = c[x][1].toks \cup f[t]
  /\ \A j \in Keys : j # x => d[j] = c[j]
  /\ g[t] = {} /\ \A u \in Clients : u # t => g[u] = f[u]
LEMMA TreeGiven ==
  ASSUME CacheTableAssumption, NEW c, NEW d, NEW f, NEW g, NEW ms, NEW t \in Clients, NEW x,
         Tree(c), Holds(c, f, ms), Given(c, d, f, g, t, x)
  PROVE  Tree(d) /\ KidsOf(d) = KidsOf(c) /\ Holds(d, g, ms)
<1> USE DEF Given
<1>1. x \in Keys /\ x # Root /\ d[x] # <<>> /\ d[x][1].toks = c[x][1].toks \cup f[t]
  BY TreeIs DEF Keys, Node
<1>2. d[Root] = c[Root] /\ KidsOf(d) = KidsOf(c)
  BY <1>1 DEF Keys, KidsOf
<1>3. \A j \in KidsOf(d) : d[j] # <<>>
  BY <1>1, <1>2, TreeIs DEF Tree, Whole, Keys
<1>4. Tree(d)
  BY <1>2, <1>3, TreeIs, TreeFrom
<1>5. \A j \in Keys, m \in Tokens : In(d, j, m) <=> In(c, j, m) \/ (j = x /\ m \in f[t])
  <2> SUFFICES ASSUME NEW j \in Keys, NEW m \in Tokens
               PROVE  In(d, j, m) <=> In(c, j, m) \/ (j = x /\ m \in f[t])
    OBVIOUS
  <2>1. CASE j = x
    BY <1>1, <1>2, <1>4, <2>1, TreeIs
  <2>2. CASE j # x
    BY <1>1, <1>2, <1>4, <2>2, TreeIs
  <2> QED BY <2>1, <2>2
<1> QED BY <1>1, <1>2, <1>4, <1>5, HoldsGiven

\* A child is split.
SplitInto(c, d, x, y, ts) ==
  /\ d \in [Keys -> Vals] /\ x \in KidsOf(c) /\ y \in Leaves /\ y \notin KidsOf(c)
  /\ ts \in SUBSET c[x][1].toks
  /\ d[x] # <<>> /\ d[x][1].toks = c[x][1].toks \ ts
  /\ d[y] # <<>> /\ d[y][1].toks = ts
  /\ d[Root] = <<Node(KidsOf(c) \cup {y}, c[Root][1].toks)>>
  /\ \A j \in Keys : j # x /\ j # y /\ j # Root => d[j] = c[j]
LEMMA TreeSplit ==
  ASSUME CacheTableAssumption, NEW c, NEW d, NEW f, NEW ms, NEW x, NEW y, NEW ts,
         Tree(c), Holds(c, f, ms), SplitInto(c, d, x, y, ts)
  PROVE  Tree(d) /\ KidsOf(d) = KidsOf(c) \cup {y} /\ Holds(d, f, ms)
<1> USE DEF SplitInto
<1>1. /\ x \in Keys /\ x # Root /\ y \in Keys /\ x # y /\ y # Root /\ Root \in Keys
      /\ d[x] # <<>> /\ d[x][1].toks = c[x][1].toks \ ts
      /\ d[y] # <<>> /\ d[y][1].toks = ts
      /\ d[Root] # <<>> /\ KidsOf(d) = KidsOf(c) \cup {y} /\ d[Root][1].toks = c[Root][1].toks
  BY TreeIs DEF Keys, Node, KidsOf, CacheTableAssumption
<1>2. \A j \in KidsOf(d) : d[j] # <<>>
  BY <1>1, TreeIs DEF Tree, Whole, Keys
<1>3. Tree(d)
  BY <1>1, <1>2, TreeFrom
<1>4. \A j \in Keys \ {x, y}, m \in Tokens : In(d, j, m) <=> In(c, j, m)
  <2> SUFFICES ASSUME NEW j \in Keys \ {x, y}, NEW m \in Tokens
               PROVE  In(d, j, m) <=> In(c, j, m)
    OBVIOUS
  <2>1. CASE j = Root
    BY <1>1, <1>3, <2>1, TreeIs
  <2>2. CASE j # Root
    BY <1>1, <1>3, <2>2, TreeIs
  <2> QED BY <2>1, <2>2
<1>5. \A m \in Tokens : /\ In(d, x, m) <=> In(c, x, m) /\ m \notin ts
                        /\ In(d, y, m) <=> m \in ts
                        /\ m \in ts => In(c, x, m)
                        /\ ~In(c, y, m)
  BY <1>1, <1>3, TreeIs
<1>6. {x, y} \in SUBSET Keys
  BY <1>1
<1>7. \A m \in Tokens : (\E k \in {x, y} : In(d, k, m)) <=> (\E k \in {x, y} : In(c, k, m))
  BY <1>5
<1>8. \A k, l \in {x, y}, m \in Tokens : In(d, k, m) /\ In(d, l, m) => k = l
  BY <1>5
<1>9. Holds(d, f, ms)
  BY ONLY Holds(c, f, ms), <1>4, <1>6, <1>7, <1>8, HoldsMoved
<1> QED BY <1>1, <1>3, <1>9

\* Two children are merged and the messages of the root go with them.
MergedInto(c, d, x, y) ==
  /\ d \in [Keys -> Vals] /\ x \in KidsOf(c) /\ y \in KidsOf(c) /\ x # y
  /\ d[x] # <<>> /\ d[x][1].toks = c[x][1].toks \cup c[y][1].toks \cup c[Root][1].toks
  /\ d[Root] = <<Node(KidsOf(c) \ {y}, {})>>
  /\ \A j \in Keys : j # x /\ j # Root => d[j] = c[j]
LEMMA TreeMerged ==
  ASSUME CacheTableAssumption, NEW c, NEW d, NEW f, NEW ms, NEW x, NEW y,
         Tree(c), Holds(c, f, ms), MergedInto(c, d, x, y)
  PROVE  Tree(d) /\ KidsOf(d) = KidsOf(c) \ {y} /\ Holds(d, f, ms)
<1> USE DEF MergedInto
<1>1. /\ x \in Keys /\ x # Root /\ y \in Keys /\ y # Root /\ Root \in Keys
      /\ d[x] # <<>> /\ d[x][1].toks = c[x][1].toks \cup c[y][1].toks \cup c[Root][1].toks
      /\ d[Root] # <<>> /\ KidsOf(d) = KidsOf(c) \ {y} /\ d[Root][1].toks = {}
  BY TreeIs DEF Keys, Node, KidsOf, CacheTableAssumption
<1>2. \A j \in KidsOf(d) : d[j] # <<>>
  BY <1>1, TreeIs DEF Tree, Whole, Keys
<1>3. Tree(d)
  BY <1>1, <1>2, TreeFrom
<1>4. \A j \in Keys \ {x, y, Root}, m \in Tokens : In(d, j, m) <=> In(c, j, m)
  BY <1>1, <1>3, TreeIs
<1>5. \A m \in Tokens : /\ In(d, x, m) <=> In(c, x, m) \/ In(c, y, m) \/ In(c, Root, m)
                        /\ ~In(d, y, m) /\ ~In(d, Root, m)
  BY <1>1, <1>3, TreeIs
<1>6. {x, y, Root} \in SUBSET Keys
  BY <1>1
<1>7. \A m \in Tokens : (\E k \in {x, y, Root} : In(d, k, m)) <=> (\E k \in {x, y, Root} : In(c, k, m))
  BY <1>5
<1>8. \A k, l \in {x, y, Root}, m \in Tokens : In(d, k, m) /\ In(d, l, m) => k = l
  BY <1>5
<1>9. Holds(d, f, ms)
  BY ONLY Holds(c, f, ms), <1>4, <1>6, <1>7, <1>8, HoldsMoved
<1> QED BY <1>1, <1>3, <1>9

\* --------------------------------------------------- steps and the tree now

LEMMA TreeParts ==
  ASSUME ControlOK, TreeOK
  PROVE  /\ Tree(Now) /\ Holds(Now, InFlight, injected)
         /\ \A k \in Keys : ValueOK(k)
         /\ \A k \in Leaves : LeafOK(k)
         /\ \A t \in Clients : LinksOK(th[t], KidsOf(Now))
<1>1. Now \in [Keys -> Vals]
  BY ControlParts DEF TypeOK, Pairs, Now
<1> QED BY <1>1 DEF TreeOK, Tree

LEMMA TreeAssembled ==
  ASSUME \A k \in Keys : ValueOK(k)', NEW c, NEW f, Now' = c, InFlight' = f,
         Tree(c), Holds(c, f, injected'),
         \A k \in Leaves : \/ pair'[k].st # "table" \/ k \in KidsOf(c)
                           \/ \E t \in Clients : Unlinked(th'[t], k),
         \A t \in Clients : LinksOK(th'[t], KidsOf(c))
  PROVE  TreeOK'
<1>1. Whole(Now)'
  BY DEF Whole, Reachable, Tree
<1>2. Holds(Now, InFlight, injected)'
  BY DEF Holds, Once, Nowhere, In, Reachable
<1>3. \A k \in Leaves : LeafOK(k)'
  BY DEF LeafOK, KidsOf, Unlinked
<1>4. \A t \in Clients : LinksOK(th[t], KidsOf(Now))'
  BY DEF LinksOK, KidsOf, KidX, KidY, HasX, Pinned, Unlinked
<1> QED BY <1>1, <1>2, <1>3, <1>4 DEF TreeOK

\* The node's contents stay, and what is known of its value.
Steady(k) == /\ ValueOK(k)' /\ Now'[k] = Now[k]
             /\ pair'[k].st = "table" => pair[k].st = "table" \/ k = Root \/ k \in KidsOf(Now)
\* The leaves that a thread works on stay.
LinksStay(t) == /\ \A k \in Leaves : Unlinked(th'[t], k) <=> Unlinked(th[t], k)
                /\ KidX(th'[t]) => th'[t].x \in KidsOf(Now)
                /\ KidY(th'[t]) => th'[t].y \in KidsOf(Now)
LEMMA TreeStays ==
  ASSUME ControlOK, TreeOK, CacheTableAssumption, NEW t \in Clients,
         \A u \in Clients : u # t => th'[u] = th[u], th'[t].fl = th[t].fl, injected' = injected,
         \A k \in Keys : Steady(k), LinksStay(t)
  PROVE  TreeOK'
<1>1. Now' = Now
  BY DEF Now, Steady
<1>2. InFlight' = InFlight
  BY DEF InFlight
<1>3. PICK c, f : c = Now /\ f = InFlight
  OBVIOUS
<1>4. Tree(c) /\ Holds(c, f, injected')
  BY <1>3, TreeParts
<1>5. \A k \in Leaves : \/ pair'[k].st # "table" \/ k \in KidsOf(c)
                        \/ \E u \in Clients : Unlinked(th'[u], k)
  <2> SUFFICES ASSUME NEW k \in Leaves, pair'[k].st = "table", k \notin KidsOf(c)
               PROVE  \E u \in Clients : Unlinked(th'[u], k)
    OBVIOUS
  <2>1. k \in Keys /\ k # Root
    BY DEF Keys, CacheTableAssumption
  <2>2. pair[k].st = "table"
    BY <1>3, <2>1 DEF Steady
  <2>3. PICK u \in Clients : Unlinked(th[u], k)
    BY <1>3, <2>2, TreeParts DEF LeafOK
  <2>4. Unlinked(th'[u], k)
    BY <2>3 DEF LinksStay
  <2> QED BY <2>4
<1>6. \A u \in Clients : LinksOK(th'[u], KidsOf(c))
  <2>1. \A u \in Clients : LinksOK(th[u], KidsOf(c))
    BY <1>3, TreeParts
  <2>2. LinksOK(th'[t], KidsOf(c))
    BY <1>3, <2>1 DEF LinksOK, LinksStay
  <2> QED BY <2>1, <2>2
<1>7. \A k \in Keys : ValueOK(k)'
  BY DEF Steady
<1>8. Now' = c /\ InFlight' = f
  BY <1>1, <1>2, <1>3
<1> QED BY <1>4, <1>5, <1>6, <1>7, <1>8, TreeAssembled

\* The same for a step of another agent.
LEMMA TreeStaysBg ==
  ASSUME ControlOK, TreeOK, CacheTableAssumption, th' = th, injected' = injected,
         \A k \in Keys : Steady(k)
  PROVE  TreeOK'
<1>1. Now' = Now
  BY DEF Now, Steady
<1>2. InFlight' = InFlight
  BY DEF InFlight
<1>3. PICK c, f : c = Now /\ f = InFlight
  OBVIOUS
<1>4. Tree(c) /\ Holds(c, f, injected')
  BY <1>3, TreeParts
<1>5. \A k \in Leaves : \/ pair'[k].st # "table" \/ k \in KidsOf(c)
                        \/ \E u \in Clients : Unlinked(th'[u], k)
  <2> SUFFICES ASSUME NEW k \in Leaves, pair'[k].st = "table", k \notin KidsOf(c)
               PROVE  \E u \in Clients : Unlinked(th[u], k)
    BY DEF Unlinked
  <2>1. k \in Keys /\ k # Root
    BY DEF Keys, CacheTableAssumption
  <2>2. pair[k].st = "table"
    BY <1>3, <2>1 DEF Steady
  <2> QED BY <1>3, <2>2, TreeParts DEF LeafOK
<1>6. \A u \in Clients : LinksOK(th'[u], KidsOf(c))
  BY <1>3, TreeParts DEF LinksOK, KidX, KidY, HasX, Pinned, Unlinked
<1>7. \A k \in Keys : ValueOK(k)'
  BY DEF Steady
<1>8. Now' = c /\ InFlight' = f
  BY <1>1, <1>2, <1>3
<1> QED BY <1>4, <1>5, <1>6, <1>7, <1>8, TreeAssembled

\* A pair that keeps its value, its clone and its block, and that is not clean if it was not.
KeyStays(k) ==
  /\ pair'[k].st = pair[k].st /\ pair'[k].val = pair[k].val /\ pair'[k].clone = pair[k].clone
  /\ disk'[k] = disk[k]
  /\ pair[k].dirty \/ Modified(k) => pair'[k].dirty \/ Modified(k)'
LEMMA KeySteady ==
  ASSUME ControlOK, TreeOK, NEW k \in Keys, KeyStays(k)
  PROVE  Steady(k)
<1>1. ValueOK(k)
  BY DEF TreeOK
<1>2. InMemory(k)' <=> InMemory(k)
  BY DEF KeyStays, InMemory
<1>3. ValueOK(k)'
  BY <1>1, <1>2 DEF ValueOK, Clean, KeyStays
<1>4. Now'[k] = Now[k]
  BY <1>2 DEF Now, KeyStays
<1> QED BY <1>3, <1>4 DEF Steady, KeyStays

\* A pair that is there with its value and has it from its block or its clone.
LEMMA StoredSteady ==
  ASSUME TreeOK, NEW k \in Keys, InMemory(k), pair'[k].st = pair[k].st, pair'[k].val = pair[k].val,
         pair[k].val = IF pair'[k].clone = <<>> THEN disk'[k] ELSE pair'[k].clone
  PROVE  Steady(k)
<1>1. InMemory(k)'
  BY DEF InMemory
<1>2. ValueOK(k)'
  BY DEF ValueOK
<1> QED BY <1>1, <1>2 DEF Steady, Now, InMemory

\* A pair that is not in memory afterwards and whose block has what the node held.
LEMMA AwaySteady ==
  ASSUME ControlOK, TreeOK, NEW k \in Keys, ~InMemory(k)', disk'[k] = Now[k],
         pair'[k].st = "table" => pair[k].st = "table" \/ k = Root \/ k \in KidsOf(Now)
  PROVE  Steady(k)
BY DEF Steady, ValueOK, Clean, Now

\* A pair read from its block.
LEMMA ReadSteady ==
  ASSUME ControlOK, TreeOK, NEW k \in Keys, pair[k].st = "table", pair[k].val = <<>>,
         pair'[k].st = "table", pair'[k].val = disk[k], pair'[k].clone = <<>>,
         disk'[k] = disk[k]
  PROVE  Steady(k)
<1>1. Now[k] = disk[k]
  BY DEF Now, InMemory
<1>2. Now'[k] = disk[k]
  BY DEF Now, InMemory
<1>3. ValueOK(k)'
  BY DEF ValueOK
<1> QED BY <1>1, <1>2, <1>3 DEF Steady

\* ------------------------------------------- the steps that only move a thread

LEMMA ModifiedIs ==
  ASSUME NEW t \in Clients, NEW k, \A u \in Clients : u # t => th'[u] = th[u]
  PROVE  Modified(k)' <=> k \in th'[t].mod \/ \E u \in Clients : u # t /\ k \in th[u].mod
BY DEF Modified

LEMMA QuietTree ==
  ASSUME ControlOK, TreeOK, CacheTableAssumption, NEW t \in Clients,
         NEW pc, NEW ph, NEW todo, NEW x, NEW y,
         Stepped(th', t, pc, ph, todo, x, y, th[t].fl, th[t].mod),
         UNCHANGED <<pair, disk, injected>>, LinksStay(t)
  PROVE  TreeOK'
<1>1. ASSUME NEW k \in Keys PROVE Steady(k)
  <2>1. Modified(k)' <=> Modified(k)
    BY DEF Modified, Stepped
  <2>2. KeyStays(k)
    BY <2>1 DEF KeyStays
  <2> QED BY <2>2, KeySteady
<1>2. (\A u \in Clients : u # t => th'[u] = th[u]) /\ th'[t].fl = th[t].fl
  BY DEF Stepped
<1> QED BY <1>1, <1>2, TreeStays

\* Which leaves a thread works on before and after such a step.
LEMMA LinksOf ==
  ASSUME ControlOK, TreeOK, NEW t \in Clients
  PROVE  LinksOK(th[t], KidsOf(Now)) /\ ThreadOK(th[t])
BY TreeParts, ThreadParts

LEMMA get_and_pinTree ==
  ASSUME ControlOK, TreeOK, CacheTableAssumption, NEW t \in Clients, get_and_pin(t)
  PROVE  TreeOK'
<1>1. /\ th[t].pc \in {"inject_root", "flush_root", "flush_child", "merge_a", "merge_b"}
      /\ th[t].ph = "go"
      /\ Stepped(th', t, th[t].pc, "wait", th[t].todo, th[t].x, th[t].y, th[t].fl, th[t].mod)
  BY get_and_pinStep
<1>2. LinksStay(t)
  BY <1>1, LinksOf DEF LinksStay, LinksOK, Stepped, KidX, KidY, HasX, Pinned, Unlinked
<1>3. UNCHANGED <<pair, disk, injected>>
  BY DEF get_and_pin, history
<1> QED BY <1>1, <1>2, <1>3, QuietTree

LEMMA try_pin_pairTree ==
  ASSUME ControlOK, TreeOK, CacheTableAssumption, NEW t \in Clients, try_pin_pair(t)
  PROVE  TreeOK'
<1>1. th[t].ph = "wait"
  BY DEF try_pin_pair
<1>2. UNCHANGED <<pair, disk, injected>>
  BY DEF try_pin_pair, history
<1>3. CASE /\ th[t].pc \in {"inject_root", "flush_root", "flush_child", "merge_a", "merge_b",
                            "bg_child"}
           /\ Stepped(th', t, th[t].pc, "bits", th[t].todo, th[t].x, th[t].y, th[t].fl, th[t].mod)
  <2>1. LinksStay(t)
    BY <1>1, <1>3, LinksOf DEF LinksStay, LinksOK, Stepped, KidX, KidY, HasX, Pinned, Unlinked
  <2> QED BY <1>2, <1>3, <2>1, QuietTree
<1>4. CASE \E next : /\ \/ th[t].pc = "query_root" /\ next = "query_pick"
                        \/ th[t].pc = "query_child" /\ next = "query_unpin"
                     /\ Stepped(th', t, next, "go", th[t].todo, th[t].x, th[t].y, th[t].fl, th[t].mod)
  <2>1. PICK next : /\ \/ th[t].pc = "query_root" /\ next = "query_pick"
                       \/ th[t].pc = "query_child" /\ next = "query_unpin"
                    /\ Stepped(th', t, next, "go", th[t].todo, th[t].x, th[t].y, th[t].fl, th[t].mod)
    BY <1>4
  <2>2. LinksStay(t)
    BY <1>1, <2>1, LinksOf DEF LinksStay, LinksOK, Stepped, KidX, KidY, HasX, Pinned, Unlinked
  <2> QED BY <1>2, <2>1, <2>2, QuietTree
<1> QED BY <1>3, <1>4, try_pin_pairStep

LEMMA maybe_get_and_pin_cleanTree ==
  ASSUME ControlOK, TreeOK, CacheTableAssumption, NEW t \in Clients, maybe_get_and_pin_clean(t)
  PROVE  TreeOK'
<1>1. PICK pc, ph : /\ (pc = "bg_child" /\ ph \in {"bits", "wait"}) \/ (pc = "bg_fail" /\ ph = "go")
                    /\ Stepped(th', t, pc, ph, th[t].todo, th[t].x, th[t].y, th[t].fl, th[t].mod)
  BY maybe_get_and_pin_cleanStep
<1>2. th[t].pc = "bg_child" /\ th[t].ph = "go"
  BY maybe_get_and_pin_cleanStep
<1>3. LinksStay(t)
  BY <1>1, <1>2, LinksOf DEF LinksStay, LinksOK, Stepped, KidX, KidY, HasX, Pinned, Unlinked
<1>4. UNCHANGED <<pair, disk, injected>>
  BY DEF maybe_get_and_pin_clean, history
<1> QED BY <1>1, <1>3, <1>4, QuietTree

LEMMA maybe_pin_pairTree ==
  ASSUME ControlOK, TreeOK, CacheTableAssumption, NEW t \in Clients, maybe_pin_pair(t)
  PROVE  TreeOK'
<1>1. PICK pc, ph : /\ (pc = th[t].pc /\ ph = "try_again") \/ (pc = "query_root" /\ ph = "go")
                    /\ Stepped(th', t, pc, ph, th[t].todo, th[t].x, th[t].y, th[t].fl, th[t].mod)
  BY maybe_pin_pairStep
<1>2. th[t].pc \in {"query_root", "query_child"} /\ th[t].ph \in {"ref", "try_again"}
  BY maybe_pin_pairStep
<1>3. LinksStay(t)
  BY <1>1, <1>2, LinksOf DEF LinksStay, LinksOK, Stepped, KidX, KidY, HasX, Pinned, Unlinked
<1>4. UNCHANGED <<pair, disk, injected>>
  BY DEF maybe_pin_pair, history
<1> QED BY <1>1, <1>3, <1>4, QuietTree

LEMMA StartTree ==
  ASSUME ControlOK, TreeOK, CacheTableAssumption, NEW t \in Clients, Start(t)
  PROVE  TreeOK'
<1>1. PICK pc \in {"inject_mo", "flush_root", "query_root", "clean_pick"} :
        Stepped(th', t, pc, "go", th[t].todo, th[t].x, th[t].y, th[t].fl, th[t].mod)
  BY StartStep
<1>2. th[t].pc = "idle" /\ th[t].ph = "go"
  BY StartStep
<1>3. LinksStay(t)
  BY <1>1, <1>2, LinksOf DEF LinksStay, LinksOK, Stepped, KidX, KidY, HasX, Pinned, Unlinked
<1>4. UNCHANGED <<pair, disk, injected>>
  BY DEF Start, OnlyThread, history
<1> QED BY <1>1, <1>3, <1>4, QuietTree

LEMMA MultiOpTree ==
  ASSUME ControlOK, TreeOK, CacheTableAssumption, NEW t \in Clients, NEW pc, NEW next,
         MultiOp(t, pc, next)
  PROVE  TreeOK'
<1>1. /\ th[t].pc = pc /\ th[t].ph = "go"
      /\ Stepped(th', t, next, "go", th[t].todo, th[t].x, th[t].y, th[t].fl, th[t].mod)
  BY MultiOpStep DEF MultiOp
<1>2. \/ pc = "inject_mo" /\ next = "inject_root"
      \/ pc = "inject_done" /\ next = "idle"
      \/ pc = "bg_mo" /\ next = "flush_give"
      \/ pc = "bg_fail" /\ next = "flush_pick"
  BY DEF MultiOp
<1>3. LinksStay(t)
  BY <1>1, <1>2, LinksOf DEF LinksStay, LinksOK, Stepped, KidX, KidY, HasX, Pinned, Unlinked
<1>4. UNCHANGED <<pair, disk, injected>>
  BY DEF MultiOp, MultiOpLock, MultiOpUnlock, OnlyThread, history
<1> QED BY <1>1, <1>3, <1>4, QuietTree

\* The children that a thread with the root locked sees are those of the tree.
LEMMA KidsNow ==
  ASSUME InMemory(Root), Root \in Keys
  PROVE  Kids = KidsOf(Now)
BY DEF Now, KidsOf, Kids, Val

LEMMA PicksTree ==
  ASSUME ControlOK, TreeOK, CacheTableAssumption, NEW t \in Clients, Picks(t)
  PROVE  TreeOK'
<1>1. PICK pc, next : /\ \/ pc = "flush_pick" /\ next = "flush_child"
                         \/ pc = "query_pick" /\ next = "query_child"
                      /\ At(t, pc) /\ \E x \in Kids : th' = [Goto(t, next) EXCEPT ![t].x = x]
                      /\ UNCHANGED mo /\ OnlyThread
  BY DEF Picks
<1>2. PICK x \in Kids : th' = [Goto(t, next) EXCEPT ![t].x = x]
  BY <1>1
<1>3. /\ th[t].pc = pc /\ th[t].ph = "go" /\ InMemory(Root)
      /\ Stepped(th', t, next, "go", th[t].todo, x, th[t].y, th[t].fl, th[t].mod)
  BY <1>1, <1>2, PickStep
<1>4. x \in KidsOf(Now)
  BY <1>2, <1>3, KidsNow DEF Keys
<1>5. LinksStay(t)
  BY <1>1, <1>3, <1>4, LinksOf DEF LinksStay, LinksOK, Stepped, KidX, KidY, HasX, Pinned, Unlinked
<1>6. UNCHANGED <<pair, disk, injected>>
  BY <1>1 DEF OnlyThread, history
<1> QED BY <1>3, <1>5, <1>6, QuietTree

LEMMA run_cleanerTree ==
  ASSUME ControlOK, TreeOK, CacheTableAssumption, NEW t \in Clients, run_cleaner(t)
  PROVE  TreeOK'
<1>1. PICK pc, ph : /\ (pc = "clean_pick" /\ ph = "bits") \/ (pc = "idle" /\ ph = "go")
                    /\ Stepped(th', t, pc, ph, th[t].todo, th[t].x, th[t].y, th[t].fl, th[t].mod)
  BY run_cleanerStep
<1>2. th[t].pc = "clean_pick" /\ th[t].ph = "go"
  BY run_cleanerStep
<1>3. LinksStay(t)
  BY <1>1, <1>2, LinksOf DEF LinksStay, LinksOK, Stepped, KidX, KidY, HasX, Pinned, Unlinked
<1>4. UNCHANGED <<pair, disk, injected>>
  BY DEF run_cleaner, history
<1> QED BY <1>1, <1>3, <1>4, QuietTree

\* ------------------------------------------- pins, unpins, reads and writes

LEMMA UnpinTree ==
  ASSUME ControlOK, TreeOK, CacheTableAssumption, NEW t \in Clients, NEW k \in Keys,
         NEW pc, NEW x, NEW y,
         Stepped(th', t, pc, "go", th[t].todo, x, y, th[t].fl, th[t].mod \ {k}),
         pair' = [pair EXCEPT ![k].dirty = @ \/ k \in th[t].mod], th[t].ph = "go",
         disk' = disk, injected' = injected, LinksStay(t)
  PROVE  TreeOK'
<1>1. pair' \in [Keys -> Pairs] /\ \A j \in Keys : j # k => pair'[j] = pair[j]
  BY DirtiedKept DEF PairKept
<1>2. /\ pair'[k].st = pair[k].st /\ pair'[k].val = pair[k].val /\ pair'[k].clone = pair[k].clone
      /\ pair'[k].dirty = (pair[k].dirty \/ k \in th[t].mod)
  <2>1. pair \in [Keys -> Pairs]
    BY ControlParts DEF TypeOK
  <2> QED BY ONLY <2>1, k \in Keys, pair' = [pair EXCEPT ![k].dirty = @ \/ k \in th[t].mod] DEF Pairs
<1>3. ASSUME NEW j \in Keys PROVE Steady(j)
  <2>1. th'[t].mod = th[t].mod \ {k} /\ \A u \in Clients : u # t => th'[u] = th[u]
    BY DEF Stepped
  <2>2. CASE j = k
    <3>1. pair[j].dirty \/ Modified(j) => pair'[j].dirty \/ Modified(j)'
      BY <1>2, <2>1, <2>2 DEF Modified
    <3> QED BY <1>2, <2>2, <3>1, KeySteady DEF KeyStays
  <2>3. CASE j # k
    <3>1. pair'[j] = pair[j]
      BY <1>1, <2>3
    <3>2. Modified(j) => Modified(j)'
      BY <2>1, <2>3 DEF Modified
    <3> QED BY <3>1, <3>2, KeySteady DEF KeyStays
  <2> QED BY <2>2, <2>3
<1>4. (\A u \in Clients : u # t => th'[u] = th[u]) /\ th'[t].fl = th[t].fl
  BY DEF Stepped
<1> QED BY <1>3, <1>4, TreeStays

LEMMA UnpinsTree ==
  ASSUME ControlOK, TreeOK, CacheTableAssumption, NEW t \in Clients, Unpins(t)
  PROVE  TreeOK'
<1>1. PICK pc, k, next : UnpinIs(t, pc, k, next) /\ At(t, pc) /\ Unpin(t, k, next)
  BY DEF Unpins
<1>2. /\ th[t].pc = pc /\ th[t].ph = "go" /\ k \in Keys
      /\ Stepped(th', t, next, "go", th[t].todo, th[t].x, th[t].y, th[t].fl, th[t].mod \ {k})
  BY <1>1, UnpinStep
<1>3. LinksStay(t)
  BY <1>1, <1>2, LinksOf DEF UnpinIs, LinksStay, LinksOK, Stepped, KidX, KidY, HasX, Pinned, Unlinked
<1>4. /\ pair' = [pair EXCEPT ![k].dirty = @ \/ k \in th[t].mod]
      /\ disk' = disk /\ injected' = injected
  BY <1>1 DEF Unpin, history
<1> QED BY <1>2, <1>3, <1>4, UnpinTree

LEMMA MergeUnpinTree ==
  ASSUME ControlOK, TreeOK, CacheTableAssumption, NEW t \in Clients, MergeUnpin(t)
  PROVE  TreeOK'
<1>1. /\ th[t].pc = "merge_unpin" /\ th[t].ph = "go" /\ th[t].x \in Leaves /\ InMemory(Root)
  BY MergeUnpinStep
<1>2. PICK a \in Kids, b \in Kids :
        Stepped(th', t, "merge_a", "go", th[t].todo, a, b, th[t].fl, th[t].mod \ {th[t].x})
  BY MergeUnpinStep
<1>3. a \in KidsOf(Now) /\ b \in KidsOf(Now) /\ th[t].x \in Keys
  BY <1>1, <1>2, KidsNow DEF Keys
<1>4. LinksStay(t)
  BY <1>1, <1>2, <1>3 DEF LinksStay, Stepped, KidX, KidY, HasX, Pinned, Unlinked
<1>5. /\ pair' = [pair EXCEPT ![th[t].x].dirty = @ \/ th[t].x \in th[t].mod]
      /\ disk' = disk /\ injected' = injected
  BY DEF MergeUnpin, history
<1>6. PICK k \in Keys : k = th[t].x
  BY <1>3
<1>7. /\ Stepped(th', t, "merge_a", "go", th[t].todo, a, b, th[t].fl, th[t].mod \ {k})
      /\ pair' = [pair EXCEPT ![k].dirty = @ \/ k \in th[t].mod]
  BY <1>2, <1>5, <1>6
<1> QED BY <1>1, <1>4, <1>5, <1>7, UnpinTree

\* A thread that pins works on the leaves it worked on, in the step it goes on to.
LEMMA PinnedLinks ==
  ASSUME ControlOK, TreeOK, NEW t \in Clients, Pinned(th[t]), NEW pc, NEW ph, NEW todo, NEW mod,
         Stepped(th', t, pc, ph, todo, th[t].x, th[t].y, th[t].fl, mod),
         \/ PinNext(th[t].pc, pc) /\ ph = "go"
         \/ pc = th[t].pc /\ ph = th[t].ph
         \/ pc = th[t].pc /\ th[t].ph = "bits" /\ ph = "resolve"
  PROVE  LinksStay(t)
<1>1. LinksOK(th[t], KidsOf(Now)) /\ th[t].ph \in Phases(th[t].pc)
  BY LinksOf DEF ThreadOK
<1>2. CASE PinNext(th[t].pc, pc) /\ ph = "go"
  <2>1. \A k \in Leaves : Unlinked(th'[t], k) <=> Unlinked(th[t], k)
    BY <1>1, <1>2 DEF Stepped, Unlinked, PinNext, Phases, Pinned
  <2>2. KidX(th'[t]) => KidX(th[t])
    BY <1>2 DEF Stepped, PinNext, Pinned, KidX, HasX
  <2>3. KidY(th'[t]) => KidY(th[t])
    BY <1>2 DEF Stepped, PinNext, KidY
  <2> QED BY <1>1, <2>1, <2>2, <2>3 DEF LinksOK, LinksStay, Stepped
<1>3. CASE pc = th[t].pc /\ ph = th[t].ph
  BY <1>1, <1>3 DEF Stepped, LinksStay, LinksOK, Unlinked, KidX, KidY, HasX, Pinned
<1>4. CASE pc = th[t].pc /\ th[t].ph = "bits" /\ ph = "resolve"
  BY <1>1, <1>4 DEF Stepped, LinksStay, LinksOK, Unlinked, KidX, KidY, HasX, Pinned, Phases
<1> QED BY <1>2, <1>3, <1>4

LEMMA get_checkpoint_pendingTree ==
  ASSUME ControlOK, TreeOK, CacheTableAssumption, NEW t \in Clients, get_checkpoint_pending(t)
  PROVE  TreeOK'
<1>1. th[t].ph = "bits" /\ Pinned(th[t])
  BY get_checkpoint_pendingStep
<1>2. PICK pc, ph, todo : /\ Stepped(th', t, pc, ph, todo, th[t].x, th[t].y, th[t].fl, th[t].mod)
                          /\ \/ PinNext(th[t].pc, pc) /\ ph = "go"
                             \/ pc = th[t].pc /\ ph = "resolve"
  BY get_checkpoint_pendingStep
<1>3. LinksStay(t)
  BY <1>1, <1>2, PinnedLinks
<1>4. ASSUME NEW j \in Keys PROVE Steady(j)
  <2>1. /\ pair'[j].st = pair[j].st /\ pair'[j].val = pair[j].val /\ pair'[j].clone = pair[j].clone
        /\ pair[j].dirty => pair'[j].dirty
    BY get_checkpoint_pendingStep
  <2>2. Modified(j)' <=> Modified(j)
    BY <1>2 DEF Modified, Stepped
  <2>3. disk' = disk
    BY DEF get_checkpoint_pending
  <2> QED BY <2>1, <2>2, <2>3, KeySteady DEF KeyStays
<1>5. (\A u \in Clients : u # t => th'[u] = th[u]) /\ th'[t].fl = th[t].fl /\ injected' = injected
  BY <1>2 DEF Stepped, get_checkpoint_pending, history
<1> QED BY <1>3, <1>4, <1>5, TreeStays

LEMMA write_lockedTree ==
  ASSUME ControlOK, TreeOK, CacheTableAssumption, NEW t \in Clients,
         write_locked_pair_for_checkpoint(t)
  PROVE  TreeOK'
<1>1. th[t].ph \in {"resolve", "insert"} /\ Pinned(th[t])
  BY write_lockedStep
<1>2. PICK k \in th[t].todo :
        /\ k \in Keys /\ InMemory(k)
        /\ IF k \in Cloneable THEN clone_pair(k, "bg") ELSE cachetable_write_locked_pair(k, TRUE)
        /\ \/ /\ th[t].todo \ {k} = {} /\ th[t].ph = "resolve"
              /\ \E next : /\ PinNext(th[t].pc, next)
                           /\ Stepped(th', t, next, "go", {}, th[t].x, th[t].y, th[t].fl,
                                      th[t].mod \ {k})
           \/ Stepped(th', t, th[t].pc, th[t].ph, th[t].todo \ {k}, th[t].x, th[t].y, th[t].fl,
                      th[t].mod \ {k})
  BY write_lockedStep
<1>3. PICK pc, ph, todo : /\ Stepped(th', t, pc, ph, todo, th[t].x, th[t].y, th[t].fl, th[t].mod \ {k})
                          /\ \/ PinNext(th[t].pc, pc) /\ ph = "go"
                             \/ pc = th[t].pc /\ ph = th[t].ph
  BY <1>2
<1>4. LinksStay(t)
  BY <1>1, <1>3, PinnedLinks
<1>5. /\ dm[k] = "free" /\ \A j \in Keys : j # k => pair'[j] = pair[j]
      /\ pair'[k].st = pair[k].st /\ pair'[k].val = pair[k].val
      /\ \/ pair'[k].clone = pair[k].val /\ disk' = disk
         \/ /\ pair'[k].clone = pair[k].clone /\ disk' = [disk EXCEPT ![k] = pair[k].val]
  BY <1>2, ClonedOrWritten, ControlParts
<1>6. pair[k].clone = <<>> /\ disk \in [Keys -> Vals]
  BY <1>2, <1>5, PairParts, ControlParts DEF PairOK, PairClone, TypeOK
<1>7. ASSUME NEW j \in Keys PROVE Steady(j)
  <2>1. CASE j = k
    <3>1. pair[k].val = IF pair'[k].clone = <<>> THEN disk'[k] ELSE pair'[k].clone
      BY <1>2, <1>5, <1>6 DEF InMemory
    <3> QED BY <1>2, <1>5, <2>1, <3>1, StoredSteady
  <2>2. CASE j # k
    <3>1. Modified(j) => Modified(j)'
      BY <1>3, <2>2 DEF Modified, Stepped
    <3>2. disk'[j] = disk[j] /\ pair'[j] = pair[j]
      BY <1>5, <1>6, <2>2
    <3> QED BY <3>1, <3>2, KeySteady DEF KeyStays
  <2> QED BY <2>1, <2>2
<1>8. (\A u \in Clients : u # t => th'[u] = th[u]) /\ th'[t].fl = th[t].fl
  BY <1>3 DEF Stepped
<1>9. injected' = injected
  BY DEF write_locked_pair_for_checkpoint, history
<1> QED BY <1>4, <1>7, <1>8, <1>9, TreeStays

\* A pair that is not in the table: what the node holds is its block.
LEMMA AbsentNow ==
  ASSUME NEW k \in Keys, pair[k].st # "table" \/ pair[k].val = <<>>
  PROVE  Now[k] = disk[k]
BY DEF Now, InMemory

\* The pairs that the new one depends on stay, and so do the others.
LEMMA InsertSteady ==
  ASSUME ControlOK, TreeOK, NEW t \in Clients, NEW k, NEW v, NEW d, NEW todo,
         InsertIs(t, k, v, d, todo), NEW j \in Keys, j # k, disk' = disk,
         th'[t].mod = th[t].mod, \A u \in Clients : u # t => th'[u] = th[u]
  PROVE  Steady(j)
<1>1. Modified(j)' <=> Modified(j)
  BY DEF Modified
<1>2. KeyStays(j)
  BY <1>1 DEF KeyStays, InsertIs
<1> QED BY <1>2, KeySteady

LEMMA cachetable_insert_atTree ==
  ASSUME ControlOK, TreeOK, CacheTableAssumption, NEW t \in Clients, cachetable_insert_at(t)
  PROVE  TreeOK'
<1>1. /\ th[t].pc \in {"inject_root", "flush_root", "flush_child", "merge_a", "merge_b"}
      /\ th[t].ph = "go"
  BY cachetable_insert_atStep
<1>2. PICK todo : /\ InsertIs(t, KeyOf(th[t]), <<>>, FALSE, todo)
                  /\ Stepped(th', t, th[t].pc, "insert", todo, th[t].x, th[t].y, th[t].fl, th[t].mod)
  BY cachetable_insert_atStep
<1>3. PICK k : k = KeyOf(th[t])
  OBVIOUS
<1>4. k \in Keys /\ pair[k].st = "none" /\ pair'[k].val = <<>> /\ InsertIs(t, k, <<>>, FALSE, todo)
  BY <1>2, <1>3 DEF InsertIs
<1>5. disk' = disk /\ injected' = injected
  BY DEF cachetable_insert_at, history
<1>6. /\ \A u \in Clients : u # t => th'[u] = th[u]
      /\ th'[t].fl = th[t].fl /\ th'[t].mod = th[t].mod
  BY <1>2 DEF Stepped
<1>7. k = Root \/ k \in KidsOf(Now)
  BY <1>1, <1>3, LinksOf DEF LinksOK, KeyOf, KidX, KidY, HasX
<1>8. ASSUME NEW j \in Keys PROVE Steady(j)
  <2>1. CASE j = k
    <3>1. ~InMemory(j)' /\ disk'[j] = Now[j]
      BY <1>4, <1>5, <2>1, AbsentNow DEF InMemory
    <3> QED BY <1>7, <2>1, <3>1, AwaySteady
  <2>2. CASE j # k
    BY <1>4, <1>5, <1>6, <2>2, InsertSteady
  <2> QED BY <2>1, <2>2
<1>9. LinksStay(t)
  BY <1>1, <1>2, LinksOf DEF LinksStay, LinksOK, Stepped, KidX, KidY, HasX, Pinned, Unlinked
<1> QED BY <1>5, <1>6, <1>8, <1>9, TreeStays

\* A pair is read, by a thread or by the reader.
LEMMA FetchedSteady ==
  ASSUME ControlOK, TreeOK, CacheTableAssumption, NEW k \in Keys, Fetching(k), pair' = Fetched(k),
         disk' = disk, NEW j \in Keys, Modified(j)' <=> Modified(j)
  PROVE  Steady(j)
<1>1. /\ \A i \in Keys : i # k => pair'[i] = pair[i]
      /\ pair'[k].st = pair[k].st /\ pair'[k].val = disk[k] /\ pair'[k].clone = pair[k].clone
  BY FetchedIs, ControlParts
<1>2. CASE j = k
  <2>1. pair[k].st = "table" /\ pair[k].val = <<>>
    BY FetchFinds
  <2>2. pair[k].clone = <<>>
    BY <2>1, PairParts DEF PairOK, PairValue
  <2> QED BY <1>1, <1>2, <2>1, <2>2, ReadSteady
<1>3. CASE j # k
  BY <1>1, <1>3, KeySteady DEF KeyStays
<1> QED BY <1>2, <1>3

LEMMA cachetable_fetch_pairTree ==
  ASSUME ControlOK, TreeOK, CacheTableAssumption, NEW t \in Clients, cachetable_fetch_pair(t)
  PROVE  TreeOK'
<1>1. th[t].ph = "insert" /\ Pinned(th[t]) /\ KeyOf(th[t]) \in Keys /\ pair' = Fetched(KeyOf(th[t]))
  BY cachetable_fetch_pairStep
<1>2. PICK next : /\ PinNext(th[t].pc, next)
                  /\ Stepped(th', t, next, "go", {}, th[t].x, th[t].y, th[t].fl, th[t].mod)
  BY cachetable_fetch_pairStep
<1>3. LinksStay(t)
  BY <1>1, <1>2, PinnedLinks
<1>4. disk' = disk /\ injected' = injected
  BY DEF cachetable_fetch_pair, history
<1>5. Fetching(KeyOf(th[t]))
  BY <1>1 DEF Fetching, Fetches
<1>6. ASSUME NEW j \in Keys PROVE Steady(j)
  <2>1. Modified(j)' <=> Modified(j)
    BY <1>2 DEF Modified, Stepped
  <2> QED BY <1>1, <1>4, <1>5, <2>1, FetchedSteady
<1>7. (\A u \in Clients : u # t => th'[u] = th[u]) /\ th'[t].fl = th[t].fl
  BY <1>2 DEF Stepped
<1> QED BY <1>3, <1>4, <1>6, <1>7, TreeStays

LEMMA FetchAgainTree ==
  ASSUME ControlOK, TreeOK, CacheTableAssumption, NEW t \in Clients, FetchAgain(t)
  PROVE  TreeOK'
<1>1. /\ th[t].pc \in {"query_root", "query_child"} /\ th[t].ph = "fetch_again"
      /\ KeyOf(th[t]) \in Keys /\ pair' = Fetched(KeyOf(th[t]))
      /\ Stepped(th', t, "query_root", "go", th[t].todo, th[t].x, th[t].y, th[t].fl, th[t].mod)
  BY FetchAgainStep
<1>2. LinksStay(t)
  BY <1>1 DEF LinksStay, Stepped, KidX, KidY, HasX, Pinned, Unlinked
<1>3. disk' = disk /\ injected' = injected
  BY DEF FetchAgain, history
<1>4. Fetching(KeyOf(th[t]))
  BY <1>1 DEF Fetching, Fetches
<1>5. ASSUME NEW j \in Keys PROVE Steady(j)
  <2>1. Modified(j)' <=> Modified(j)
    BY <1>1 DEF Modified, Stepped
  <2> QED BY <1>1, <1>3, <1>4, <2>1, FetchedSteady
<1>6. (\A u \in Clients : u # t => th'[u] = th[u]) /\ th'[t].fl = th[t].fl
  BY <1>1 DEF Stepped
<1> QED BY <1>2, <1>3, <1>5, <1>6, TreeStays

LEMMA cachetable_readerTree ==
  ASSUME ControlOK, TreeOK, CacheTableAssumption, NEW k \in Keys, cachetable_reader(k)
  PROVE  TreeOK'
<1>1. Fetching(k) /\ pair' = Fetched(k) /\ disk' = disk /\ injected' = injected /\ th' = th
  BY DEF cachetable_reader, Fetching, history
<1>2. ASSUME NEW j \in Keys PROVE Steady(j)
  <2>1. Modified(j)' <=> Modified(j)
    BY <1>1 DEF Modified
  <2> QED BY <1>1, <2>1, FetchedSteady
<1> QED BY <1>1, <1>2, TreeStaysBg

\* A pair is put in the table to be read later: it is the root or one of its children.
LEMMA PutSteady ==
  ASSUME ControlOK, TreeOK, NEW k \in Keys, pair[k].st = "none",
         pair' = [pair EXCEPT ![k] = pair_init(<<>>, FALSE)], k = Root \/ k \in KidsOf(Now),
         disk' = disk, NEW j \in Keys, Modified(j)' <=> Modified(j)
  PROVE  Steady(j)
<1>1. pair \in [Keys -> Pairs]
  BY ControlParts DEF TypeOK
<1>2. CASE j = k
  <2>1. pair'[k] = pair_init(<<>>, FALSE)
    BY <1>1
  <2>2. ~InMemory(j)' /\ disk'[j] = Now[j]
    BY <1>2, <2>1, AbsentNow DEF InMemory, pair_init, NoPair
  <2> QED BY <1>2, <2>2, AwaySteady
<1>3. CASE j # k
  <2>1. pair'[j] = pair[j]
    BY <1>1, <1>3
  <2> QED BY <2>1, KeySteady DEF KeyStays
<1> QED BY <1>2, <1>3

LEMMA get_and_pin_nonblockingTree ==
  ASSUME ControlOK, TreeOK, CacheTableAssumption, NEW t \in Clients, get_and_pin_nonblocking(t)
  PROVE  TreeOK'
<1>1. th[t].pc \in {"query_root", "query_child"} /\ th[t].ph = "go"
  BY get_and_pin_nonblockingStep
<1>2. PICK k \in Keys : k = KeyOf(th[t])
  BY KeyTyped
<1>3. disk' = disk /\ injected' = injected
  BY DEF get_and_pin_nonblocking, history
<1>4. PICK ph : /\ ph \in {"fetch_again", "wait", "ref"}
                /\ Stepped(th', t, th[t].pc, ph, th[t].todo, th[t].x, th[t].y, th[t].fl, th[t].mod)
                /\ \/ pair[k].st = "none" /\ pair' = [pair EXCEPT ![k] = pair_init(<<>>, FALSE)]
                   \/ pair' = pair
  BY <1>2, get_and_pin_nonblockingStep
<1>5. LinksStay(t)
  BY <1>1, <1>4, LinksOf DEF LinksStay, LinksOK, Stepped, KidX, KidY, HasX, Pinned, Unlinked
<1>6. k = Root \/ k \in KidsOf(Now)
  BY <1>1, <1>2, LinksOf DEF LinksOK, KeyOf, KidX
<1>7. ASSUME NEW j \in Keys PROVE Steady(j)
  <2>1. Modified(j)' <=> Modified(j)
    BY <1>4 DEF Modified, Stepped
  <2>2. CASE pair[k].st = "none" /\ pair' = [pair EXCEPT ![k] = pair_init(<<>>, FALSE)]
    BY <1>3, <1>6, <2>1, <2>2, PutSteady
  <2>3. CASE pair' = pair
    BY <1>3, <2>1, <2>3, KeySteady DEF KeyStays
  <2> QED BY <1>4, <2>2, <2>3
<1>8. (\A u \in Clients : u # t => th'[u] = th[u]) /\ th'[t].fl = th[t].fl
  BY <1>4 DEF Stepped
<1> QED BY <1>3, <1>5, <1>7, <1>8, TreeStays

LEMMA toku_cachefile_prefetchTree ==
  ASSUME ControlOK, TreeOK, CacheTableAssumption, NEW t \in Clients, toku_cachefile_prefetch(t)
  PROVE  TreeOK'
<1>1. th[t].pc = "query_pick" /\ th[t].ph = "go" /\ disk' = disk /\ injected' = injected /\ th' = th
  BY DEF toku_cachefile_prefetch, At, history
<1>2. InMemory(Root) /\ Kids \in SUBSET Leaves
  BY <1>1, KidsTyped DEF ReadsRoot, Fetches
<1>3. PICK k \in Kids : /\ pair[k].st = "none" /\ pair' = [pair EXCEPT ![k] = pair_init(<<>>, FALSE)]
  BY DEF toku_cachefile_prefetch
<1>4. k \in Keys /\ k \in KidsOf(Now)
  BY <1>2, <1>3, KidsNow DEF Keys
<1>5. ASSUME NEW j \in Keys PROVE Steady(j)
  <2>1. Modified(j)' <=> Modified(j)
    BY <1>1 DEF Modified
  <2> QED BY <1>1, <1>3, <1>4, <2>1, PutSteady
<1> QED BY <1>1, <1>5, TreeStaysBg

\* ------------------------------------- the checkpoint, the evicter and the close

LEMMA NobodyModifies ==
  ASSUME ControlOK, NEW k \in Keys, lock[k].w \cap Clients = {}
  PROVE  ~Modified(k)
<1>1. ASSUME NEW u \in Clients, k \in th[u].mod PROVE FALSE
  BY <1>1, ThreadParts DEF ThreadOK
<1> QED BY <1>1 DEF Modified

\* A step that leaves the threads, the blocks, and all of the pairs but the bits alone.
LEMMA BitsTree ==
  ASSUME ControlOK, TreeOK, CacheTableAssumption, th' = th, disk' = disk, injected' = injected,
         \A k \in Keys : /\ pair'[k].st = pair[k].st /\ pair'[k].val = pair[k].val
                         /\ pair'[k].clone = pair[k].clone /\ pair'[k].dirty = pair[k].dirty
  PROVE  TreeOK'
<1>1. ASSUME NEW k \in Keys PROVE Steady(k)
  <2>1. Modified(k)' <=> Modified(k)
    BY DEF Modified
  <2> QED BY <2>1, KeySteady DEF KeyStays
<1> QED BY <1>1, TreeStaysBg

\* A step that touches the pair k alone.
LEMMA OneTree ==
  ASSUME ControlOK, TreeOK, CacheTableAssumption, th' = th, injected' = injected,
         NEW k \in Keys, Steady(k), \A j \in Keys : j # k => pair'[j] = pair[j] /\ disk'[j] = disk[j]
  PROVE  TreeOK'
<1>1. ASSUME NEW j \in Keys PROVE Steady(j)
  <2>1. CASE j # k
    <3>1. Modified(j)' <=> Modified(j)
      BY DEF Modified
    <3> QED BY <2>1, <3>1, KeySteady DEF KeyStays
  <2> QED BY <2>1
<1> QED BY <1>1, TreeStaysBg

LEMMA begin_checkpointTree ==
  ASSUME ControlOK, TreeOK, CacheTableAssumption, begin_checkpoint
  PROVE  TreeOK'
<1>1. /\ pair' = [k \in Keys |-> IF k \in InTable THEN [pair[k] EXCEPT !.pend = TRUE] ELSE pair[k]]
      /\ th' = th /\ disk' = disk /\ injected' = injected /\ pair \in [Keys -> Pairs]
  BY ControlParts DEF begin_checkpoint, TypeOK
<1>2. \A k \in Keys : /\ pair'[k].st = pair[k].st /\ pair'[k].val = pair[k].val
                      /\ pair'[k].clone = pair[k].clone /\ pair'[k].dirty = pair[k].dirty
  BY <1>1 DEF Pairs
<1> QED BY <1>1, <1>2, BitsTree

LEMMA SamePairsTree ==
  ASSUME ControlOK, TreeOK, CacheTableAssumption,
         checkpoint_pending_pairs \/ end_checkpoint \/ \E k \in Keys : run_eviction_on_pair(k)
  PROVE  TreeOK'
<1>1. UNCHANGED <<pair, th, disk, injected>>
  <2>1. ASSUME checkpoint_pending_pairs PROVE UNCHANGED <<pair, th, disk, injected>>
    BY <2>1 DEF checkpoint_pending_pairs, history
  <2>2. ASSUME end_checkpoint PROVE UNCHANGED <<pair, th, disk, injected>>
    BY <2>2 DEF end_checkpoint, history
  <2>3. ASSUME NEW k \in Keys, run_eviction_on_pair(k) PROVE UNCHANGED <<pair, th, disk, injected>>
    BY <2>3 DEF run_eviction_on_pair, history
  <2> QED BY <2>1, <2>2, <2>3
<1> QED BY <1>1, BitsTree

LEMMA ClearedTree ==
  ASSUME ControlOK, TreeOK, CacheTableAssumption, NEW k \in Keys,
         pair' = pair \/ pair' = [pair EXCEPT ![k].pend = FALSE],
         UNCHANGED <<th, disk, injected>>
  PROVE  TreeOK'
<1>1. pair \in [Keys -> Pairs]
  BY ControlParts DEF TypeOK
<1>2. \A j \in Keys : /\ pair'[j].st = pair[j].st /\ pair'[j].val = pair[j].val
                      /\ pair'[j].clone = pair[j].clone /\ pair'[j].dirty = pair[j].dirty
  BY <1>1 DEF Pairs
<1> QED BY <1>2, BitsTree

LEMMA ClearPendingTree ==
  ASSUME ControlOK, TreeOK, CacheTableAssumption, ClearPending
  PROVE  TreeOK'
<1>1. cp.cur \in Keys
  BY ControlParts DEF TypeOK
<1>2. /\ pair' = pair \/ pair' = [pair EXCEPT ![cp.cur].pend = FALSE]
      /\ UNCHANGED <<th, disk, injected>>
  BY DEF ClearPending, history
<1> QED BY <1>1, <1>2, ClearedTree

LEMMA cachetable_evicterTree ==
  ASSUME ControlOK, TreeOK, CacheTableAssumption, NEW k \in Keys, cachetable_evicter(k)
  PROVE  TreeOK'
<1>1. pair' = [pair EXCEPT ![k].pend = FALSE] /\ UNCHANGED <<th, disk, injected>>
  BY DEF cachetable_evicter, history
<1> QED BY <1>1, ClearedTree

LEMMA write_pairTree ==
  ASSUME ControlOK, TreeOK, CacheTableAssumption, write_pair_for_checkpoint_thread
  PROVE  TreeOK'
<1>1. PICK k \in Keys : k = cp.cur
  BY ControlParts DEF TypeOK
<1>2. /\ InMemory(k) /\ \A j \in Keys : j # k => pair'[j] = pair[j]
      /\ pair'[k].st = "table" /\ pair'[k].val = pair[k].val
      /\ \/ pair'[k].clone = pair[k].val /\ disk' = disk
         \/ pair'[k].clone = <<>> /\ disk' = [disk EXCEPT ![k] = pair[k].val]
  BY <1>1, write_pairStep
<1>3. th' = th /\ injected' = injected /\ disk \in [Keys -> Vals]
  BY ControlParts DEF write_pair_for_checkpoint_thread, history, TypeOK
<1>4. Steady(k)
  <2>1. pair[k].val = IF pair'[k].clone = <<>> THEN disk'[k] ELSE pair'[k].clone
    BY <1>2, <1>3 DEF InMemory
  <2> QED BY <1>2, <2>1, StoredSteady DEF InMemory
<1> QED BY <1>2, <1>3, <1>4, OneTree

LEMMA checkpoint_cloned_pairTree ==
  ASSUME ControlOK, TreeOK, CacheTableAssumption, NEW k \in Keys, checkpoint_cloned_pair(k)
  PROVE  TreeOK'
<1>1. /\ dm[k] # "free" /\ disk' = [disk EXCEPT ![k] = pair[k].clone]
      /\ pair' = [pair EXCEPT ![k].clone = <<>>] /\ th' = th /\ injected' = injected
      /\ disk \in [Keys -> Vals] /\ pair \in [Keys -> Pairs]
  BY ControlParts DEF checkpoint_cloned_pair, WriteBlock, history, TypeOK
<1>2. pair[k].clone # <<>> /\ InMemory(k) /\ ValueOK(k)
  BY <1>1, PairParts, TreeParts DEF PairOK, PairClone
<1>3. /\ \A j \in Keys : j # k => pair'[j] = pair[j]
      /\ pair'[k].st = pair[k].st /\ pair'[k].val = pair[k].val /\ pair'[k].clone = <<>>
      /\ pair'[k].dirty = pair[k].dirty
  BY ONLY <1>1, k \in Keys DEF Pairs
<1>4. InMemory(k)' /\ (Modified(k)' <=> Modified(k))
  BY <1>1, <1>2, <1>3 DEF InMemory, Modified
<1>5. ValueOK(k)'
  BY <1>1, <1>2, <1>3, <1>4 DEF ValueOK, Clean
<1>6. Now'[k] = Now[k]
  BY <1>2, <1>3, <1>4 DEF Now
<1>7. Steady(k)
  BY <1>2, <1>3, <1>5, <1>6 DEF Steady, InMemory
<1> QED BY <1>1, <1>3, <1>7, OneTree

LEMMA evict_writeTree ==
  ASSUME ControlOK, TreeOK, CacheTableAssumption, NEW k \in Keys, evict_write(k)
  PROVE  TreeOK'
<1>1. /\ ev[k] # "no" /\ dm[k] = "free" /\ disk' = [disk EXCEPT ![k] = pair[k].val]
      /\ pair' = [pair EXCEPT ![k].dirty = FALSE] /\ th' = th /\ injected' = injected
      /\ disk \in [Keys -> Vals] /\ pair \in [Keys -> Pairs]
  BY ControlParts DEF evict_write, cachetable_write_locked_pair, WriteBlock, history, TypeOK
<1>2. InMemory(k) /\ pair[k].clone = <<>>
  BY <1>1, EvictingAlone DEF PairOK, PairClone
<1>3. /\ \A j \in Keys : j # k => pair'[j] = pair[j]
      /\ pair'[k].st = pair[k].st /\ pair'[k].val = pair[k].val /\ pair'[k].clone = pair[k].clone
  BY ONLY <1>1, k \in Keys DEF Pairs
<1>4. pair[k].val = IF pair'[k].clone = <<>> THEN disk'[k] ELSE pair'[k].clone
  BY <1>1, <1>2, <1>3
<1>5. Steady(k)
  BY <1>2, <1>3, <1>4, StoredSteady
<1> QED BY <1>1, <1>3, <1>5, OneTree

LEMMA evict_pairTree ==
  ASSUME ControlOK, TreeOK, CacheTableAssumption, NEW k \in Keys, evict_pair(k)
  PROVE  TreeOK'
<1>1. /\ ev[k] \in {"written", "remove"} /\ dm[k] = "free"
      /\ pair' = [pair EXCEPT ![k] = NoPair] \/ pair' = pair
      /\ th' = th /\ injected' = injected /\ disk' = disk /\ pair \in [Keys -> Pairs]
  BY ControlParts DEF evict_pair, history, TypeOK
<1>2. CASE pair' = pair
  BY <1>1, <1>2, BitsTree
<1>3. CASE pair' = [pair EXCEPT ![k] = NoPair]
  <2>1. InMemory(k) /\ lock[k].w = {"ev"} /\ PairOK(k)
    BY <1>1, EvictingAlone
  <2>2. ~Modified(k)
    BY <2>1, NobodyModifies DEF CacheTableAssumption
  <2>3. pair[k].clone = <<>> /\ ~pair[k].dirty
    BY <1>1, <2>1 DEF PairOK, PairClone, PairValue
  <2>4. pair[k].val = disk[k]
    BY <2>1, <2>2, <2>3, TreeParts DEF ValueOK, Clean
  <2>5. Now[k] = disk'[k]
    BY <1>1, <2>1, <2>4 DEF Now
  <2>6. pair'[k].st = "none" /\ \A j \in Keys : j # k => pair'[j] = pair[j]
    BY <1>1, <1>3 DEF NoPair
  <2>7. Steady(k)
    BY <2>5, <2>6, AwaySteady DEF InMemory
  <2> QED BY <1>1, <2>6, <2>7, OneTree
<1> QED BY <1>1, <1>2, <1>3

LEMMA FreeRemovedTree ==
  ASSUME ControlOK, TreeOK, CacheTableAssumption, NEW t \in Clients, FreeRemoved(t)
  PROVE  TreeOK'
<1>1. /\ th[t].pc = "merge_remove" /\ th[t].ph = "leave" /\ th[t].y \in Keys
      /\ \A j \in Keys : j # th[t].y => pair'[j] = pair[j]
      /\ pair'[th[t].y] = NoPair /\ Departs(th[t], th[t].y)
      /\ Stepped(th', t, "unpin_both", "go", th[t].todo, th[t].x, th[t].y, th[t].fl, th[t].mod)
  BY FreeRemovedStep
<1>2. disk' = disk /\ injected' = injected
  BY DEF FreeRemoved, history
<1>3. LinksStay(t)
  BY <1>1, LinksOf DEF LinksStay, LinksOK, Stepped, KidX, KidY, HasX, Pinned, Unlinked
<1>4. ASSUME NEW j \in Keys PROVE Steady(j)
  <2>1. CASE j = th[t].y
    <3>1. pair[j].st = "removed"
      BY <1>1, <2>1, PairParts DEF PairOK, PairThere, Leaving
    <3>2. Now[j] = disk'[j]
      BY <1>2, <3>1, AbsentNow
    <3> QED BY <1>1, <2>1, <3>2, AwaySteady DEF InMemory, NoPair
  <2>2. CASE j # th[t].y
    <3>1. Modified(j)' <=> Modified(j)
      BY <1>1 DEF Modified, Stepped
    <3> QED BY <1>1, <1>2, <2>2, <3>1, KeySteady DEF KeyStays
  <2> QED BY <2>1, <2>2
<1>5. (\A u \in Clients : u # t => th'[u] = th[u]) /\ th'[t].fl = th[t].fl
  BY <1>1 DEF Stepped
<1> QED BY <1>2, <1>3, <1>4, <1>5, TreeStays

LEMMA CloseTree ==
  ASSUME ControlOK, TreeOK, CacheTableAssumption, Close
  PROVE  TreeOK'
<1>1. th' = th /\ injected' = injected /\ pair \in [Keys -> Pairs] /\ disk \in [Keys -> Vals]
  BY ControlParts DEF Close, history, TypeOK
<1>2. CASE UNCHANGED <<pair, disk>>
  BY <1>1, <1>2, BitsTree
<1>3. ASSUME closing # "no", NEW k \in Keys PROVE pair[k].clone = <<>>
  BY <1>3, PairParts, ControlParts DEF ClosingOK, PairOK, PairClone, PendOK, TypeOK
<1>4. ASSUME closing = "write", NEW k \in Keys, pair[k].dirty, WriteBlock(k, pair[k].val, FALSE),
             pair' = [pair EXCEPT ![k].dirty = FALSE]
      PROVE  TreeOK'
  <2>1. /\ \A j \in Keys : j # k => pair'[j] = pair[j] /\ disk'[j] = disk[j]
        /\ pair'[k].st = pair[k].st /\ pair'[k].val = pair[k].val /\ pair'[k].clone = pair[k].clone
        /\ disk'[k] = pair[k].val
    BY <1>1, <1>4 DEF Pairs, WriteBlock
  <2>2. InMemory(k)
    <3>1. PairOK(k) /\ pair[k] \in Pairs
      BY <1>1, PairParts
    <3> QED BY <1>4, <3>1 DEF PairOK, PairValue, PairThere, InMemory, NoPair, Pairs
  <2>3. pair[k].val = IF pair'[k].clone = <<>> THEN disk'[k] ELSE pair'[k].clone
    BY <1>3, <1>4, <2>1
  <2>4. Steady(k)
    BY <2>1, <2>2, <2>3, StoredSteady
  <2> QED BY <1>1, <2>1, <2>4, OneTree
<1>5. ASSUME closing = "write", \A k \in Keys : ~pair[k].dirty, pair' = [k \in Keys |-> NoPair],
             disk' = disk
      PROVE  TreeOK'
  <2>1. ASSUME NEW k \in Keys PROVE Steady(k)
    <3>1. Now[k] = disk'[k]
      <4>1. CASE InMemory(k)
        <5>1. lock[k].w = {}
          BY <1>5, ControlParts DEF ClosingOK
        <5>2. Clean(k)
          BY <1>5, <4>1, <5>1, NobodyModifies DEF Clean
        <5>3. pair[k].val = disk[k]
          BY <1>3, <1>5, <5>2, TreeParts DEF ValueOK
        <5> QED BY <1>5, <4>1, <5>3 DEF Now
      <4>2. CASE ~InMemory(k)
        BY <1>5, <4>2 DEF Now
      <4> QED BY <4>1, <4>2
    <3>2. pair'[k].st = "none"
      BY <1>5 DEF NoPair
    <3> QED BY <3>1, <3>2, AwaySteady DEF InMemory
  <2> QED BY <1>1, <2>1, TreeStaysBg
<1> QED BY <1>2, <1>4, <1>5 DEF Close, toku_cachefile_close

\* --------------------------------------------------- steps that change nodes

\* Who may work on a leaf as a child of the root, or as one that is not linked.
LEMMA LinksHeld ==
  ASSUME NEW s, ThreadOK(s)
  PROVE  /\ KidX(s) => Writes(s, s.x) \/ HasRoot(s) \/ ReadsRoot(s)
         /\ KidY(s) => HasRoot(s)
         /\ \A k : Unlinked(s, k) => Writes(s, k) /\ HasRoot(s) /\ s.x # k
<1>1. KidX(s) => Writes(s, s.x) \/ HasRoot(s) \/ ReadsRoot(s)
  BY DEF KidX, Writes, HasRoot, ReadsRoot
<1>2. KidY(s) => HasRoot(s)
  BY DEF KidY, HasRoot
<1>3. \A k : Unlinked(s, k) => Writes(s, k) /\ HasRoot(s) /\ s.x # k
  BY DEF Unlinked, Writes, HasRoot, HasY, Pinned, ThreadOK, UsesY
<1> QED BY <1>1, <1>2, <1>3

\* While t has the root locked another thread can have a leaf only by its lock.
LEMMA OthersLinks ==
  ASSUME ControlOK, TreeOK, NEW t \in Clients, Writes(th[t], Root), NEW u \in Clients, u # t
  PROVE  /\ ~HasRoot(th[u]) /\ ~ReadsRoot(th[u]) /\ ~KidY(th[u])
         /\ KidX(th[u]) => Writes(th[u], th[u].x)
         /\ \A k : ~Unlinked(th[u], k)
<1>1. ~HasRoot(th[u]) /\ ~ReadsRoot(th[u])
  BY WritersAlone, ControlParts DEF Writes, Reads, Keys
<1>2. ThreadOK(th[u])
  BY ThreadParts
<1> QED BY <1>1, <1>2, LinksHeld

LEMMA ContentTree ==
  ASSUME ControlOK, TreeOK, CacheTableAssumption, NEW t \in Clients,
         \A u \in Clients : u # t => th'[u] = th[u],
         NEW d, Now' = d, Tree(d), Holds(d, InFlight', injected'),
         \A k \in Keys : ValueOK(k)',
         \A k \in Leaves : pair'[k].st = "table" =>
                             \/ k \in KidsOf(d) \/ Unlinked(th'[t], k)
                             \/ /\ pair[k].st = "table" /\ k \notin KidsOf(Now)
                                /\ ~Unlinked(th[t], k),
         LinksOK(th'[t], KidsOf(d)),
         \A u \in Clients : u # t => LinksOK(th[u], KidsOf(d))
  PROVE  TreeOK'
<1>1. \A k \in Leaves : \/ pair'[k].st # "table" \/ k \in KidsOf(d)
                        \/ \E u \in Clients : Unlinked(th'[u], k)
  <2> SUFFICES ASSUME NEW k \in Leaves, pair'[k].st = "table", k \notin KidsOf(d),
                      ~Unlinked(th'[t], k)
               PROVE  \E u \in Clients : Unlinked(th'[u], k)
    OBVIOUS
  <2>1. pair[k].st = "table" /\ k \notin KidsOf(Now) /\ ~Unlinked(th[t], k)
    OBVIOUS
  <2>2. PICK u \in Clients : Unlinked(th[u], k)
    BY <2>1, TreeParts DEF LeafOK
  <2>3. u # t
    BY <2>1, <2>2
  <2> QED BY <2>2, <2>3
<1>2. \A u \in Clients : LinksOK(th'[u], KidsOf(d))
  OBVIOUS
<1>3. PICK f : f = InFlight'
  OBVIOUS
<1> QED BY <1>1, <1>2, <1>3, TreeAssembled

\* The pairs in K get other values and t is to dirty them; the others stay.
LEMMA ChangedValues ==
  ASSUME ControlOK, TreeOK, NEW t \in Clients, NEW K, disk' = disk,
         \A u \in Clients : u # t => th'[u] = th[u],
         th'[t].mod = th[t].mod \cup K,
         \A j \in Keys : j \notin K => pair'[j] = pair[j]
  PROVE  /\ \A j \in Keys : ValueOK(j)'
         /\ \A j \in Keys : j \notin K => Now'[j] = Now[j]
<1>1. ASSUME NEW j \in Keys PROVE ValueOK(j)' /\ (j \notin K => Now'[j] = Now[j])
  <2>1. CASE j \in K
    <3>1. Modified(j)'
      BY <2>1 DEF Modified
    <3> QED BY <2>1, <3>1 DEF ValueOK, Clean
  <2>2. CASE j \notin K
    <3>1. Modified(j) => Modified(j)'
      BY DEF Modified
    <3>2. KeyStays(j)
      BY <2>2, <3>1 DEF KeyStays
    <3> QED BY <3>2, KeySteady DEF Steady
  <2> QED BY <2>1, <2>2
<1> QED BY <1>1

LEMMA NowTyped ==
  ASSUME pair' \in [Keys -> Pairs], disk' \in [Keys -> Vals]
  PROVE  Now' \in [Keys -> Vals]
BY DEF Now, Pairs

\* What a locked node holds now is what its pair has.
LEMMA NowIs ==
  ASSUME NEW k \in Keys, InMemory(k)
  PROVE  Now[k] = pair[k].val /\ Now[k][1] = Val(k) /\ Now[k][1].toks = Toks(k)
BY DEF Now, Val, Toks

LEMMA InjectTree ==
  ASSUME ControlOK, TreeOK, CacheTableAssumption, NEW t \in Clients, Inject(t)
  PROVE  TreeOK'
<1>1. th[t].pc = "inject_put" /\ th[t].ph = "go" /\ InMemory(Root) /\ Root \in Keys
  BY InjectStep DEF Keys
<1>2. PICK m \in Tokens \ injected :
        /\ injected' = injected \cup {m}
        /\ Revalued(pair', Root, <<Node(Kids, Toks(Root) \cup {m})>>)
  BY InjectStep
<1>3. PICK next, x : /\ \/ next = "inject_unpin" /\ x = th[t].x
                        \/ next = "bg_child" /\ x \in Kids
                     /\ Stepped(th', t, next, "go", th[t].todo, x, th[t].y, th[t].fl,
                                th[t].mod \cup {Root})
  BY InjectStep
<1>4. disk' = disk
  BY DEF Inject, OnlyNodes
<1>5. Kids = KidsOf(Now) /\ Now[Root][1].toks = Toks(Root)
  BY <1>1, KidsNow, NowIs
<1>6. (\A u \in Clients : u # t => th'[u] = th[u]) /\ th'[t].mod = th[t].mod \cup {Root}
      /\ th'[t].fl = th[t].fl
  BY <1>3 DEF Stepped
<1>7. /\ \A j \in Keys : ValueOK(j)'
      /\ \A j \in Keys : j # Root => Now'[j] = Now[j] /\ pair'[j] = pair[j]
  <2>1. \A j \in Keys : j \notin {Root} => pair'[j] = pair[j]
    BY <1>2 DEF Revalued
  <2>2. PICK K : K = {Root}
    OBVIOUS
  <2>3. th'[t].mod = th[t].mod \cup K /\ \A j \in Keys : j \notin K => pair'[j] = pair[j]
    BY <1>4, <1>6, <2>1, <2>2
  <2>4. /\ \A j \in Keys : ValueOK(j)'
        /\ \A j \in Keys : j \notin K => Now'[j] = Now[j]
    BY <1>4, <1>6, <2>3, ChangedValues
  <2> QED BY <2>1, <2>2, <2>4
<1>8. Now'[Root] = <<Node(KidsOf(Now), Now[Root][1].toks \cup {m})>>
  <2>1. pair'[Root].val = <<Node(Kids, Toks(Root) \cup {m})>> /\ pair'[Root].st = "table"
    BY <1>1, <1>2 DEF Revalued, InMemory
  <2>2. pair'[Root].val # <<>>
    BY <2>1
  <2> QED BY <1>1, <1>5, <2>1, <2>2 DEF Now, InMemory
<1>9. PICK d \in [Keys -> Vals] : d = Now'
  BY <1>2, <1>4, NowTyped, ControlParts DEF Revalued, TypeOK
<1>10. Tree(d) /\ KidsOf(d) = KidsOf(Now) /\ Holds(d, InFlight, injected \cup {m})
  BY <1>2, <1>7, <1>8, <1>9, TreeMore, TreeParts
<1>11. InFlight' = InFlight
  BY <1>6 DEF InFlight
<1>12. LinksOK(th'[t], KidsOf(d))
  <2>1. LinksOK(th'[t], KidsOf(Now))
    BY <1>1, <1>3, <1>5 DEF LinksOK, Stepped, KidX, KidY, HasX, Pinned, Unlinked
  <2> QED BY <1>10, <2>1
<1>13. \A u \in Clients : u # t => LinksOK(th[u], KidsOf(d))
  BY <1>10, TreeParts
<1>14. \A k \in Leaves : pair'[k] = pair[k] /\ ~Unlinked(th[t], k)
  BY <1>1, <1>7 DEF Unlinked, Keys, CacheTableAssumption
<1> QED BY <1>2, <1>6, <1>7, <1>9, <1>10, <1>11, <1>12, <1>13, <1>14, ContentTree

LEMMA DetachTree ==
  ASSUME ControlOK, TreeOK, CacheTableAssumption, NEW t \in Clients, Detaches(t)
  PROVE  TreeOK'
<1>1. PICK pc, next : /\ pc \in {"bg_detach", "flush_detach"} /\ ContentIs(pc, next)
                      /\ At(t, pc) /\ Detach(t, next)
  BY DEF Detaches
<1>2. /\ th[t].pc = pc /\ th[t].ph = "go" /\ InMemory(Root) /\ Root \in Keys
      /\ Revalued(pair', Root, <<Node(Kids, {})>>)
      /\ Stepped(th', t, next, "go", th[t].todo, th[t].x, th[t].y, Toks(Root), th[t].mod \cup {Root})
  BY <1>1, DetachStep DEF Keys
<1>3. disk' = disk /\ injected' = injected
  BY <1>1 DEF Detach, OnlyNodes
<1>4. Kids = KidsOf(Now) /\ Now[Root][1].toks = Toks(Root)
  BY <1>2, KidsNow, NowIs
<1>5. (\A u \in Clients : u # t => th'[u] = th[u]) /\ th'[t].mod = th[t].mod \cup {Root}
      /\ th'[t].fl = Toks(Root)
  BY <1>2 DEF Stepped
<1>6. /\ \A j \in Keys : ValueOK(j)'
      /\ \A j \in Keys : j # Root => Now'[j] = Now[j] /\ pair'[j] = pair[j]
  <2>1. \A j \in Keys : j \notin {Root} => pair'[j] = pair[j]
    BY <1>2 DEF Revalued
  <2>2. PICK K : K = {Root}
    OBVIOUS
  <2>3. th'[t].mod = th[t].mod \cup K /\ \A j \in Keys : j \notin K => pair'[j] = pair[j]
    BY <1>3, <1>5, <2>1, <2>2
  <2>4. /\ \A j \in Keys : ValueOK(j)'
        /\ \A j \in Keys : j \notin K => Now'[j] = Now[j]
    BY <1>3, <1>5, <2>3, ChangedValues
  <2> QED BY <2>1, <2>2, <2>4
<1>7. Now'[Root] = <<Node(KidsOf(Now), {})>>
  <2>1. pair'[Root].val = <<Node(Kids, {})>> /\ pair'[Root].st = "table"
    BY <1>2 DEF Revalued, InMemory
  <2>2. pair'[Root].val # <<>>
    BY <2>1
  <2> QED BY <1>2, <1>4, <2>1, <2>2 DEF Now, InMemory
<1>8. PICK d \in [Keys -> Vals] : d = Now'
  BY <1>2, <1>3, NowTyped, ControlParts DEF Revalued, TypeOK
<1>9. th[t].fl = {}
  BY <1>1, <1>2, ThreadParts DEF ThreadOK, FlPcs
<1>10. PICK f, g : f = InFlight /\ g = InFlight'
  OBVIOUS
<1>11. f[t] = {} /\ g[t] = Now[Root][1].toks /\ \A u \in Clients : u # t => g[u] = f[u]
  BY <1>4, <1>5, <1>9, <1>10 DEF InFlight
<1>12. Tree(d) /\ KidsOf(d) = KidsOf(Now) /\ Holds(d, g, injected)
  <2>1. PICK c, ms : c = Now /\ ms = injected
    OBVIOUS
  <2>2. Tree(c) /\ Holds(c, f, ms)
    BY <1>10, <2>1, TreeParts
  <2>3. d[Root] = <<Node(KidsOf(c), {})>> /\ \A j \in Keys : j # Root => d[j] = c[j]
    BY <1>6, <1>7, <1>8, <2>1
  <2>4. f[t] = {} /\ g[t] = c[Root][1].toks /\ \A u \in Clients : u # t => g[u] = f[u]
    BY <1>11, <2>1
  <2>5. d \in [Keys -> Vals]
    BY <1>8
  <2>6. Taken(c, d, f, g, t)
    BY <2>3, <2>4, <2>5 DEF Taken
  <2> QED BY <2>1, <2>2, <2>6, TreeTaken
<1>13. LinksOK(th'[t], KidsOf(d))
  <2>1. LinksOK(th'[t], KidsOf(Now))
    BY <1>1, <1>2, LinksOf DEF LinksOK, ContentIs, Stepped, KidX, KidY, HasX, Pinned, Unlinked
  <2> QED BY <1>12, <2>1
<1>14. \A u \in Clients : u # t => LinksOK(th[u], KidsOf(d))
  BY <1>12, TreeParts
<1>15. \A k \in Leaves : pair'[k] = pair[k] /\ ~Unlinked(th[t], k)
  BY <1>1, <1>2, <1>6 DEF Unlinked, Keys, CacheTableAssumption
<1>16. Holds(d, InFlight', injected')
  BY <1>3, <1>10, <1>12
<1> QED BY <1>5, <1>6, <1>8, <1>12, <1>13, <1>14, <1>15, <1>16, ContentTree

LEMMA FlushTree ==
  ASSUME ControlOK, TreeOK, CacheTableAssumption, NEW t \in Clients, Flushes(t)
  PROVE  TreeOK'
<1>1. PICK pc, next : /\ pc \in {"flush_give", "flush_give_both"} /\ ContentIs(pc, next)
                      /\ At(t, pc) /\ flush_to_child(t, next)
  BY DEF Flushes
<1>2. PICK x : x = th[t].x
  OBVIOUS
<1>3. /\ th[t].pc = pc /\ th[t].ph = "go" /\ InMemory(x) /\ x \in Leaves /\ x \in Keys
      /\ Revalued(pair', x, <<Node(Val(x).kids, Toks(x) \cup th[t].fl)>>)
      /\ Stepped(th', t, next, "go", th[t].todo, x, th[t].y, {}, th[t].mod \cup {x})
  BY <1>1, <1>2, FlushToChildStep DEF Keys
<1>4. disk' = disk /\ injected' = injected
  BY <1>1 DEF flush_to_child, OnlyNodes
<1>5. Now[x][1].toks = Toks(x) /\ x \in KidsOf(Now)
  <2>1. KidX(th[t])
    BY <1>1, <1>3 DEF KidX, HasX
  <2> QED BY <1>2, <1>3, <2>1, NowIs, LinksOf DEF LinksOK
<1>6. (\A u \in Clients : u # t => th'[u] = th[u]) /\ th'[t].fl = {}
  BY <1>3 DEF Stepped
<1>7. /\ \A j \in Keys : ValueOK(j)'
      /\ \A j \in Keys : j # x => Now'[j] = Now[j] /\ pair'[j] = pair[j]
  <2>1. PICK K : K = {x}
    OBVIOUS
  <2>2. th'[t].mod = th[t].mod \cup K /\ \A j \in Keys : j \notin K => pair'[j] = pair[j]
    BY <1>3, <2>1 DEF Stepped, Revalued
  <2>3. /\ \A j \in Keys : ValueOK(j)'
        /\ \A j \in Keys : j \notin K => Now'[j] = Now[j]
    BY <1>4, <1>6, <2>2, ChangedValues
  <2> QED BY <2>1, <2>2, <2>3
<1>8. pair'[x].st = pair[x].st /\ Now'[x] # <<>> /\ Now'[x][1].toks = Now[x][1].toks \cup th[t].fl
  <2>1. pair'[x].val = <<Node(Val(x).kids, Toks(x) \cup th[t].fl)>> /\ pair'[x].st = "table"
        /\ pair[x].st = "table"
    BY <1>3 DEF Revalued, InMemory
  <2>2. pair'[x].val # <<>>
    BY <2>1
  <2>3. Now'[x] = <<Node(Val(x).kids, Toks(x) \cup th[t].fl)>>
    BY <1>3, <2>1, <2>2 DEF Now, InMemory
  <2> QED BY <1>5, <2>1, <2>3 DEF Node
<1>9. PICK d \in [Keys -> Vals] : d = Now'
  BY <1>3, <1>4, NowTyped, ControlParts DEF Revalued, TypeOK
<1>10. PICK c, f, g, ms : c = Now /\ f = InFlight /\ g = InFlight' /\ ms = injected
  OBVIOUS
<1>11. Given(c, d, f, g, t, x)
  <2>1. f[t] = th[t].fl /\ g[t] = {} /\ \A u \in Clients : u # t => g[u] = f[u]
    BY <1>6, <1>10 DEF InFlight
  <2> QED BY <1>5, <1>7, <1>8, <1>9, <1>10, <2>1 DEF Given
<1>12. Tree(d) /\ KidsOf(d) = KidsOf(c) /\ Holds(d, g, ms)
  <2>1. Tree(c) /\ Holds(c, f, ms)
    BY <1>10, TreeParts
  <2> QED BY <1>11, <2>1, TreeGiven
<1>13. LinksOK(th'[t], KidsOf(d))
  <2>1. LinksOK(th'[t], KidsOf(Now))
    BY <1>1, <1>3, <1>5 DEF LinksOK, ContentIs, Stepped, KidX, KidY, HasX, Pinned, Unlinked
  <2> QED BY <1>10, <1>12, <2>1
<1>14. \A u \in Clients : u # t => LinksOK(th[u], KidsOf(d))
  BY <1>10, <1>12, TreeParts
<1>15. \A k \in Leaves : pair'[k].st = pair[k].st /\ ~Unlinked(th[t], k)
  BY <1>1, <1>3, <1>7, <1>8 DEF Unlinked, Keys
<1>16. Holds(d, InFlight', injected') /\ KidsOf(d) = KidsOf(Now)
  BY <1>4, <1>10, <1>12
<1> QED BY <1>6, <1>7, <1>9, <1>12, <1>13, <1>14, <1>15, <1>16, ContentTree

LEMMA SplitDoTree ==
  ASSUME ControlOK, TreeOK, CacheTableAssumption, NEW t \in Clients, SplitDo(t)
  PROVE  TreeOK'
<1>1. PICK x, y : x = th[t].x /\ y = th[t].y
  OBVIOUS
<1>2. PICK ts \in SUBSET Toks(x) :
        Revalued3(pair', x, <<Node(Val(x).kids, Toks(x) \ ts)>>, y, <<Node(Val(y).kids, ts)>>,
                  Root, <<Node(Kids \cup {y}, Toks(Root))>>)
  BY <1>1, SplitDoStep
<1>3. /\ th[t].pc = "split_do" /\ th[t].ph = "go"
      /\ Stepped(th', t, "split_unpin", "go", th[t].todo, x, y, th[t].fl, th[t].mod \cup {Root, x, y})
  BY <1>1, SplitDoStep
<1>4. /\ x \in Leaves /\ y \in Leaves /\ x # y /\ x \in Keys /\ y \in Keys /\ Root \in Keys
      /\ Writes(th[t], x) /\ Writes(th[t], y) /\ Writes(th[t], Root)
      /\ InMemory(x) /\ InMemory(y) /\ InMemory(Root)
  BY <1>1, <1>3, ThreeLocked
<1>5. disk' = disk /\ injected' = injected
  BY DEF SplitDo, OnlyNodes
<1>6. Now[x][1].toks = Toks(x) /\ Now[Root][1].toks = Toks(Root) /\ Kids = KidsOf(Now)
  BY <1>4, NowIs, KidsNow
<1>7. x \in KidsOf(Now) /\ y \notin KidsOf(Now)
  BY <1>1, <1>3, <1>4, LinksOf DEF LinksOK, KidX, HasX, Unlinked
<1>8. (\A u \in Clients : u # t => th'[u] = th[u]) /\ th'[t].fl = th[t].fl
  BY <1>3 DEF Stepped
<1>9. /\ \A j \in Keys : ValueOK(j)'
      /\ \A j \in Keys : j # x /\ j # y /\ j # Root => Now'[j] = Now[j]
  <2>1. PICK K : K = {Root, x, y}
    OBVIOUS
  <2>2. th'[t].mod = th[t].mod \cup K /\ \A j \in Keys : j \notin K => pair'[j] = pair[j]
    BY <1>2, <1>3, <2>1 DEF Stepped, Revalued3
  <2>3. /\ \A j \in Keys : ValueOK(j)'
        /\ \A j \in Keys : j \notin K => Now'[j] = Now[j]
    BY <1>5, <1>8, <2>2, ChangedValues
  <2> QED BY <2>1, <2>3
<1>10. /\ Now'[x] = <<Node(Val(x).kids, Toks(x) \ ts)>> /\ Now'[y] = <<Node(Val(y).kids, ts)>>
       /\ Now'[Root] = <<Node(Kids \cup {y}, Toks(Root))>>
  <2>1. /\ pair'[x].st = "table" /\ pair'[y].st = "table" /\ pair'[Root].st = "table"
        /\ pair'[x].val = <<Node(Val(x).kids, Toks(x) \ ts)>>
        /\ pair'[y].val = <<Node(Val(y).kids, ts)>>
        /\ pair'[Root].val = <<Node(Kids \cup {y}, Toks(Root))>>
    BY <1>2, <1>4 DEF Revalued3, InMemory
  <2>2. pair'[x].val # <<>> /\ pair'[y].val # <<>> /\ pair'[Root].val # <<>>
    BY <2>1
  <2> QED BY <1>4, <2>1, <2>2 DEF Now, InMemory
<1>11. PICK d \in [Keys -> Vals] : d = Now'
  BY <1>2, <1>5, NowTyped, ControlParts DEF Revalued3, TypeOK
<1>12. PICK c, f, ms : c = Now /\ f = InFlight /\ ms = injected
  OBVIOUS
<1>13. SplitInto(c, d, x, y, ts)
  <2>1. /\ d[x] # <<>> /\ d[x][1].toks = c[x][1].toks \ ts
        /\ d[y] # <<>> /\ d[y][1].toks = ts
    <3>1. PICK a, b, kx, ky : /\ kx = Val(x).kids /\ ky = Val(y).kids
                              /\ a = <<Node(kx, Toks(x) \ ts)>> /\ b = <<Node(ky, ts)>>
      OBVIOUS
    <3>2. d[x] = a /\ d[y] = b
      BY <1>10, <1>11, <3>1
    <3>3. a # <<>> /\ a[1].toks = Toks(x) \ ts /\ b # <<>> /\ b[1].toks = ts
      BY <3>1 DEF Node
    <3> QED BY <1>6, <1>12, <3>2, <3>3
  <2>2. d[Root] = <<Node(KidsOf(c) \cup {y}, c[Root][1].toks)>> /\ ts \in SUBSET c[x][1].toks
    BY <1>2, <1>6, <1>10, <1>11, <1>12
  <2> QED BY <1>4, <1>7, <1>9, <1>11, <1>12, <2>1, <2>2 DEF SplitInto
<1>14. Tree(d) /\ KidsOf(d) = KidsOf(c) \cup {y} /\ Holds(d, f, ms)
  <2>1. Tree(c) /\ Holds(c, f, ms)
    BY <1>12, TreeParts
  <2> QED BY <1>13, <2>1, TreeSplit
<1>15. LinksOK(th'[t], KidsOf(d))
  <2>1. x \in KidsOf(d)
    BY <1>7, <1>12, <1>14
  <2> QED BY <1>3, <2>1 DEF LinksOK, Stepped, KidX, KidY, HasX, Pinned, Unlinked
<1>16. ASSUME NEW u \in Clients, u # t PROVE LinksOK(th[u], KidsOf(d))
  <2>1. LinksOK(th[u], KidsOf(c)) /\ ~KidY(th[u]) /\ \A k : ~Unlinked(th[u], k)
    BY <1>4, <1>12, <1>16, TreeParts, OthersLinks
  <2> QED BY <1>14, <2>1 DEF LinksOK
<1>17. \A k \in Leaves : /\ pair'[k].st = pair[k].st
                         /\ Unlinked(th[t], k) => k \in KidsOf(d)
                         /\ k \in KidsOf(Now) => k \in KidsOf(d)
  BY <1>1, <1>2, <1>12, <1>14 DEF Unlinked, Keys, Revalued3
<1>18. InFlight' = f
  BY <1>8, <1>12 DEF InFlight
<1>19. Holds(d, InFlight', injected')
  BY <1>5, <1>12, <1>14, <1>18
<1> QED BY <1>8, <1>9, <1>11, <1>14, <1>15, <1>16, <1>17, <1>19, ContentTree

LEMMA MergeDoTree ==
  ASSUME ControlOK, TreeOK, CacheTableAssumption, NEW t \in Clients, MergeDo(t)
  PROVE  TreeOK'
<1>1. PICK x, y : x = th[t].x /\ y = th[t].y
  OBVIOUS
<1>2. PICK v : v = <<Node(Val(x).kids, Toks(x) \cup Toks(y) \cup Toks(Root))>>
  OBVIOUS
<1>3. /\ th[t].pc = "merge_do" /\ th[t].ph = "go"
      /\ Revalued3(pair', x, v, x, v, Root, <<Node(Kids \ {y}, {})>>)
      /\ Stepped(th', t, "merge_remove", "go", th[t].todo, x, y, th[t].fl, th[t].mod \cup {Root, x, y})
  BY <1>1, <1>2, MergeDoStep
<1>4. /\ x \in Leaves /\ y \in Leaves /\ x # y /\ x \in Keys /\ y \in Keys /\ Root \in Keys
      /\ Writes(th[t], x) /\ Writes(th[t], y) /\ Writes(th[t], Root)
      /\ InMemory(x) /\ InMemory(y) /\ InMemory(Root)
  BY <1>1, <1>3, ThreeLocked
<1>5. disk' = disk /\ injected' = injected
  BY DEF MergeDo, OnlyNodes
<1>6. Now[x][1].toks = Toks(x) /\ Now[y][1].toks = Toks(y) /\ Now[Root][1].toks = Toks(Root)
      /\ Kids = KidsOf(Now) /\ Now[y] = pair[y].val
  BY <1>4, NowIs, KidsNow
<1>7. x \in KidsOf(Now) /\ y \in KidsOf(Now)
  BY <1>1, <1>3, LinksOf DEF LinksOK, KidX, KidY, HasX
<1>8. (\A u \in Clients : u # t => th'[u] = th[u]) /\ th'[t].fl = th[t].fl
  BY <1>3 DEF Stepped
<1>9. /\ \A j \in Keys : ValueOK(j)'
      /\ \A j \in Keys : j # x /\ j # y /\ j # Root => Now'[j] = Now[j]
  <2>1. PICK K : K = {Root, x, y}
    OBVIOUS
  <2>2. th'[t].mod = th[t].mod \cup K /\ \A j \in Keys : j \notin K => pair'[j] = pair[j]
    BY <1>3, <2>1 DEF Stepped, Revalued3
  <2>3. /\ \A j \in Keys : ValueOK(j)'
        /\ \A j \in Keys : j \notin K => Now'[j] = Now[j]
    BY <1>5, <1>8, <2>2, ChangedValues
  <2> QED BY <2>1, <2>3
<1>10. Now'[x] = v /\ Now'[Root] = <<Node(Kids \ {y}, {})>> /\ Now'[y] = Now[y]
  <2>1. /\ pair'[x].st = "table" /\ pair'[y] = pair[y] /\ pair'[Root].st = "table"
        /\ pair'[x].val = v /\ pair'[Root].val = <<Node(Kids \ {y}, {})>>
    BY <1>3, <1>4, CacheTableAssumption DEF Revalued3, InMemory, CacheTableAssumption
  <2>2. pair'[x].val # <<>> /\ pair'[Root].val # <<>>
    BY <1>2, <2>1
  <2> QED BY <1>4, <2>1, <2>2 DEF Now, InMemory
<1>11. PICK d \in [Keys -> Vals] : d = Now'
  BY <1>3, <1>5, NowTyped, ControlParts DEF Revalued3, TypeOK
<1>12. PICK c, f, ms : c = Now /\ f = InFlight /\ ms = injected
  OBVIOUS
<1>13. MergedInto(c, d, x, y)
  <2>1. d[x] # <<>> /\ d[x][1].toks = c[x][1].toks \cup c[y][1].toks \cup c[Root][1].toks
    <3>1. v # <<>> /\ v[1].toks = Toks(x) \cup Toks(y) \cup Toks(Root)
      BY <1>2 DEF Node
    <3>2. d[x] = v
      BY <1>10, <1>11
    <3> QED BY <1>6, <1>12, <3>1, <3>2
  <2>2. d[Root] = <<Node(KidsOf(c) \ {y}, {})>>
    BY <1>6, <1>10, <1>11, <1>12
  <2>3. \A j \in Keys : j # x /\ j # Root => d[j] = c[j]
    BY <1>9, <1>10, <1>11, <1>12
  <2> QED BY <1>4, <1>7, <1>11, <1>12, <2>1, <2>2, <2>3 DEF MergedInto
<1>14. Tree(d) /\ KidsOf(d) = KidsOf(c) \ {y} /\ Holds(d, f, ms)
  <2>1. Tree(c) /\ Holds(c, f, ms)
    BY <1>12, TreeParts
  <2> QED BY <1>13, <2>1, TreeMerged
<1>15. LinksOK(th'[t], KidsOf(d)) /\ Unlinked(th'[t], y)
  <2>1. x \in KidsOf(d) /\ y \notin KidsOf(d)
    BY <1>4, <1>7, <1>12, <1>14
  <2> QED BY <1>3, <2>1 DEF LinksOK, Stepped, KidX, KidY, HasX, Pinned, Unlinked
<1>16. ASSUME NEW u \in Clients, u # t PROVE LinksOK(th[u], KidsOf(d))
  <2>1. /\ LinksOK(th[u], KidsOf(c)) /\ ~KidY(th[u]) /\ \A k : ~Unlinked(th[u], k)
        /\ KidX(th[u]) => Writes(th[u], th[u].x)
    BY <1>4, <1>12, <1>16, TreeParts, OthersLinks
  <2>2. KidX(th[u]) => th[u].x # y
    BY <1>4, <1>16, <2>1, WritersAlone, ControlParts
  <2> QED BY <1>14, <2>1, <2>2 DEF LinksOK
<1>17. \A k \in Leaves : /\ pair'[k].st = pair[k].st /\ ~Unlinked(th[t], k)
                         /\ k \in KidsOf(Now) => k \in KidsOf(d) \/ Unlinked(th'[t], k)
  BY <1>3, <1>12, <1>14, <1>15 DEF Unlinked, Keys, Revalued3
<1>18. InFlight' = f
  BY <1>8, <1>12 DEF InFlight
<1>19. Holds(d, InFlight', injected')
  BY <1>5, <1>12, <1>14, <1>18
<1> QED BY <1>8, <1>9, <1>11, <1>14, <1>15, <1>16, <1>17, <1>19, ContentTree

\* A new node is linked by nobody: its block is free.
LEMMA put_with_dep_pairsTree ==
  ASSUME ControlOK, TreeOK, CacheTableAssumption, NEW t \in Clients, put_with_dep_pairs(t)
  PROVE  TreeOK'
<1>1. th[t].pc = "split_put" /\ th[t].ph = "go"
  BY put_with_dep_pairsStep
<1>2. PICK y, todo, pc, ph :
        /\ y \in Leaves /\ todo \in SUBSET Keys
        /\ disk[y] = <<>> /\ InsertIs(t, y, <<Node({}, {})>>, TRUE, todo)
        /\ (pc = "split_do" /\ ph = "go") \/ (pc = "split_put" /\ ph = "resolve")
        /\ Stepped(th', t, pc, ph, todo, th[t].x, y, th[t].fl, th[t].mod)
  BY put_with_dep_pairsStep
<1>3. disk' = disk /\ injected' = injected
  BY DEF put_with_dep_pairs, history
<1>4. /\ (\A u \in Clients : u # t => th'[u] = th[u])
      /\ th'[t].fl = th[t].fl /\ th'[t].mod = th[t].mod
  BY <1>2 DEF Stepped
<1>5. y \in Keys /\ pair[y].st = "none" /\ pair'[y].dirty /\ pair' \in [Keys -> Pairs]
  BY <1>2 DEF InsertIs, Keys
<1>6. y \notin KidsOf(Now)
  <2>1. Now[y] = <<>>
    BY <1>2, <1>5, AbsentNow
  <2>2. Whole(Now) /\ y \notin Reachable(Now)
    BY <2>1, TreeParts DEF Tree, Whole
  <2> QED BY <2>2, TreeParts, TreeIs
<1>7. ASSUME NEW j \in Keys, j # y PROVE Steady(j)
  BY <1>2, <1>3, <1>4, <1>7, InsertSteady
<1>8. \A j \in Keys : ValueOK(j)'
  <2>1. ValueOK(y)'
    BY <1>5 DEF ValueOK, Clean
  <2> QED BY <1>7, <2>1 DEF Steady
<1>9. PICK d \in [Keys -> Vals] : d = Now'
  BY <1>3, <1>5, NowTyped, ControlParts DEF TypeOK
<1>10. PICK c, f, ms : c = Now /\ f = InFlight /\ ms = injected
  OBVIOUS
<1>11. Tree(d) /\ KidsOf(d) = KidsOf(c) /\ Holds(d, f, ms)
  <2>1. Tree(c) /\ Holds(c, f, ms) /\ y \notin KidsOf(c)
    BY <1>6, <1>10, TreeParts
  <2>2. \A j \in Keys : j # y => d[j] = c[j]
    BY <1>7, <1>9, <1>10 DEF Steady
  <2> QED BY <1>2, <1>9, <2>1, <2>2, TreeUnlinked
<1>12. LinksOK(th'[t], KidsOf(d)) /\ Unlinked(th'[t], y)
  <2>1. th[t].x \in KidsOf(d) /\ y \notin KidsOf(d)
    BY <1>1, <1>6, <1>10, <1>11, LinksOf DEF LinksOK, KidX, HasX
  <2> QED BY <1>2, <2>1 DEF LinksOK, Stepped, KidX, KidY, HasX, Pinned, Unlinked
<1>13. \A u \in Clients : u # t => LinksOK(th[u], KidsOf(d))
  BY <1>10, <1>11, TreeParts
<1>14. ASSUME NEW k \in Leaves, pair'[k].st = "table"
       PROVE  \/ k \in KidsOf(d) \/ Unlinked(th'[t], k)
              \/ pair[k].st = "table" /\ k \notin KidsOf(Now) /\ ~Unlinked(th[t], k)
  <2>1. CASE k = y
    BY <1>12, <2>1
  <2>2. CASE k # y
    <3>1. pair[k].st = "table"
      BY <1>2, <1>14, <2>2 DEF InsertIs, Keys
    <3> QED BY <1>1, <1>10, <1>11, <3>1 DEF Unlinked
  <2> QED BY <2>1, <2>2
<1>15. InFlight' = f
  BY <1>4, <1>10 DEF InFlight
<1>16. Holds(d, InFlight', injected')
  BY <1>3, <1>10, <1>11, <1>15
<1> QED BY <1>4, <1>8, <1>9, <1>11, <1>12, <1>13, <1>14, <1>16, ContentTree

\* A leaf goes that is no child of the root any more.
LEMMA unpin_and_removeTree ==
  ASSUME ControlOK, TreeOK, CacheTableAssumption, NEW t \in Clients, unpin_and_remove(t)
  PROVE  TreeOK'
<1>1. PICK y : y = th[t].y
  OBVIOUS
<1>2. /\ th[t].pc = "merge_remove" /\ th[t].ph = "go" /\ y \in Keys /\ y \in Leaves
      /\ pair' \in [Keys -> Pairs] /\ pair'[y].st = "removed"
      /\ \A j \in Keys : j # y => pair'[j] = pair[j]
      /\ disk' = [disk EXCEPT ![y] = <<>>] /\ disk' \in [Keys -> Vals]
      /\ Stepped(th', t, "merge_remove", "leave", th[t].todo, th[t].x, y, th[t].fl, th[t].mod \ {y})
  BY <1>1, unpin_and_removeStep
<1>3. injected' = injected
  BY DEF unpin_and_remove, history
<1>4. /\ (\A u \in Clients : u # t => th'[u] = th[u])
      /\ th'[t].fl = th[t].fl /\ th'[t].mod = th[t].mod \ {y}
  BY <1>2 DEF Stepped
<1>5. LinksOK(th[t], KidsOf(Now)) /\ y \notin KidsOf(Now) /\ th[t].x \in KidsOf(Now)
  <2>1. Unlinked(th[t], y) /\ KidX(th[t])
    BY <1>1, <1>2 DEF Unlinked, KidX, HasX
  <2> QED BY <1>2, <2>1, LinksOf DEF LinksOK
<1>6. ASSUME NEW j \in Keys, j # y PROVE Steady(j)
  <2>1. Modified(j) => Modified(j)'
    BY <1>4, <1>6 DEF Modified
  <2>2. disk'[j] = disk[j]
    BY <1>2, <1>6, ControlParts DEF TypeOK
  <2> QED BY <1>2, <1>6, <2>1, <2>2, KeySteady DEF KeyStays
<1>7. \A j \in Keys : ValueOK(j)'
  <2>1. ValueOK(y)'
    BY <1>2 DEF ValueOK, Clean, InMemory
  <2> QED BY <1>6, <2>1 DEF Steady
<1>8. PICK d \in [Keys -> Vals] : d = Now'
  BY <1>2, NowTyped
<1>9. PICK c, f, ms : c = Now /\ f = InFlight /\ ms = injected
  OBVIOUS
<1>10. Tree(d) /\ KidsOf(d) = KidsOf(c) /\ Holds(d, f, ms)
  <2>1. Tree(c) /\ Holds(c, f, ms) /\ y \notin KidsOf(c)
    BY <1>5, <1>9, TreeParts
  <2>2. \A j \in Keys : j # y => d[j] = c[j]
    BY <1>6, <1>8, <1>9 DEF Steady
  <2> QED BY <1>2, <1>8, <2>1, <2>2, TreeUnlinked
<1>11. LinksOK(th'[t], KidsOf(d))
  <2>1. th[t].x \in KidsOf(d)
    BY <1>5, <1>9, <1>10
  <2> QED BY <1>2, <2>1 DEF LinksOK, Stepped, KidX, KidY, HasX, Pinned, Unlinked
<1>12. \A u \in Clients : u # t => LinksOK(th[u], KidsOf(d))
  BY <1>9, <1>10, TreeParts
<1>13. ASSUME NEW k \in Leaves, pair'[k].st = "table"
       PROVE  \/ k \in KidsOf(d) \/ Unlinked(th'[t], k)
              \/ pair[k].st = "table" /\ k \notin KidsOf(Now) /\ ~Unlinked(th[t], k)
  <2>1. k # y /\ pair[k].st = "table"
    BY <1>2, <1>13 DEF Keys
  <2> QED BY <1>1, <1>9, <1>10, <2>1 DEF Unlinked
<1>14. InFlight' = f
  BY <1>4, <1>9 DEF InFlight
<1>15. Holds(d, InFlight', injected')
  BY <1>3, <1>9, <1>10, <1>14
<1> QED BY <1>4, <1>7, <1>8, <1>10, <1>11, <1>12, <1>13, <1>15, ContentTree

\* ------------------------------------------------------- the tree is kept

LEMMA PinStepKeepsTree ==
  ASSUME ControlOK, TreeOK, CacheTableAssumption, NEW t \in Clients, PinStep(t)
  PROVE  TreeOK'
BY get_and_pinTree, try_pin_pairTree, get_checkpoint_pendingTree, write_lockedTree,
   cachetable_insert_atTree, cachetable_fetch_pairTree, put_with_dep_pairsTree,
   maybe_get_and_pin_cleanTree, get_and_pin_nonblockingTree, FetchAgainTree,
   maybe_pin_pairTree, unpin_and_removeTree, FreeRemovedTree DEF PinStep

LEMMA OperationKeepsTree ==
  ASSUME ControlOK, TreeOK, CacheTableAssumption, NEW t \in Clients, Operation(t)
  PROVE  TreeOK'
BY OperationCases, StartTree, MultiOpTree, InjectTree, UnpinsTree, DetachTree, FlushTree, PicksTree,
   SplitDoTree, MergeUnpinTree, MergeDoTree, run_cleanerTree, toku_cachefile_prefetchTree

LEMMA BackgroundKeepsTree ==
  ASSUME ControlOK, TreeOK, CacheTableAssumption, Background
  PROVE  TreeOK'
BY begin_checkpointTree, SamePairsTree, ClearPendingTree, write_pairTree,
   checkpoint_cloned_pairTree, cachetable_evicterTree, evict_writeTree, evict_pairTree,
   cachetable_readerTree DEF Background

LEMMA NextKeepsTree ==
  ASSUME ControlOK, TreeOK, CacheTableAssumption, [Next]_vars
  PROVE  TreeOK'
<1>1. ASSUME UNCHANGED vars PROVE TreeOK'
  <2>1. UNCHANGED <<pair, th, disk, injected>>
    BY <1>1 DEF vars
  <2> QED BY <2>1, BitsTree
<1> QED BY <1>1, PinStepKeepsTree, OperationKeepsTree, BackgroundKeepsTree, CloseTree DEF Next, Done

LEMMA InitTree ==
  ASSUME Init, CacheTableAssumption
  PROVE  TreeOK
<1>1. PICK w \in Works :
       /\ disk = [k \in Keys |-> CASE k = Root -> <<Node(w.kids, {})>>
                                   [] k \in w.kids -> <<Node({}, {})>> [] OTHER -> <<>>]
       /\ th = [t \in Clients |-> [Thread EXCEPT !.work = w.ops[t]]]
  BY DEF Init
<1>2. w.kids \subseteq Leaves /\ Root \in Keys /\ Root \notin w.kids /\ w.kids \subseteq Keys
  BY DEF CacheTableAssumption, Keys
<1>3. pair = [k \in Keys |-> NoPair] /\ injected = {}
  BY DEF Init
<1>4. \A k \in Keys : ~InMemory(k) /\ pair[k].st = "none"
  BY <1>3 DEF InMemory, NoPair
<1>5. \A t \in Clients : th[t].pc = "idle" /\ th[t].ph = "go" /\ th[t].fl = {}
  BY <1>1 DEF Thread
<1>6. Now = disk
  BY <1>1, <1>4 DEF Now
<1>7. /\ disk[Root] = <<Node(w.kids, {})>> /\ \A k \in w.kids : disk[k] = <<Node({}, {})>>
  BY <1>1, <1>2
<1>8. disk[Root] # <<>> /\ \A k \in w.kids : disk[k] # <<>>
  <2>1. PICK a, b : a = Node(w.kids, {}) /\ b = Node({}, {})
    OBVIOUS
  <2>2. <<a>> # <<>> /\ <<b>> # <<>>
    OBVIOUS
  <2> QED BY <1>7, <2>1, <2>2
<1>9. Reachable(Now) = {Root} \cup w.kids
  BY <1>6, <1>7, <1>8 DEF Reachable, Node
<1>10. Whole(Now)
  BY <1>6, <1>8, <1>9 DEF Whole
<1>11. Holds(Now, InFlight, injected)
  <2>1. \A k \in Reachable(Now) : Now[k][1].toks = {}
    BY <1>6, <1>7, <1>9 DEF Node
  <2> QED BY <1>3, <1>5, <2>1 DEF Holds, Nowhere, In, InFlight
<1>12. \A t \in Clients : LinksOK(th[t], KidsOf(Now))
  BY <1>5 DEF LinksOK, KidX, KidY, HasX, Pinned, Unlinked
<1> QED BY <1>4, <1>10, <1>11, <1>12 DEF TreeOK, ValueOK, Clean, LeafOK, Keys

\* ------------------------------------------------- what the invariant gives

\* A message that is in one place is counted once.
LEMMA OnceCounted ==
  ASSUME NEW c, NEW f, NEW m, Once(c, f, m), Reachable(c) \subseteq Keys
  PROVE  Cardinality({k \in Reachable(c) : m \in c[k][1].toks})
           + Cardinality({t \in Clients : m \in f[t]}) = 1
<1>1. PICK A, B : /\ A = {k \in Reachable(c) : m \in c[k][1].toks}
                  /\ B = {t \in Clients : m \in f[t]}
  OBVIOUS
<1>2. \A k : k \in A <=> k \in Keys /\ In(c, k, m)
  BY <1>1 DEF In
<1>3. \A t : t \in B <=> t \in Clients /\ m \in f[t]
  BY <1>1
<1>4. CASE A # {}
  <2>1. PICK k : A = {k}
    BY <1>2, <1>4 DEF Once
  <2>2. B = {}
    BY <1>2, <1>3, <2>1 DEF Once
  <2>3. Cardinality(A) = 1 /\ Cardinality(B) = 0
    BY <2>1, <2>2, FS_EmptySet, FS_Singleton
  <2> QED BY <1>1, <2>3
<1>5. CASE A = {}
  <2>1. PICK t \in Clients : m \in f[t]
    BY <1>2, <1>5 DEF Once
  <2>2. B = {t}
    BY <1>3, <2>1 DEF Once
  <2>3. Cardinality(A) = 0 /\ Cardinality(B) = 1
    BY <1>5, <2>2, FS_EmptySet, FS_Singleton
  <2> QED BY <1>1, <2>3
<1> QED BY <1>4, <1>5

LEMMA NothingIsLost ==
  ASSUME ControlOK, TreeOK, CacheTableAssumption
  PROVE  NothingLost
<1>1. PICK c, f : c = Now /\ f = InFlight
  OBVIOUS
<1>2. Tree(c) /\ Holds(c, f, injected) /\ injected \in SUBSET Tokens
  BY <1>1, TreeParts, ControlParts DEF TypeOK
<1>3. Reachable(c) \subseteq Keys
  BY <1>2, TreeIs DEF Keys
<1>4. ASSUME NEW m \in injected PROVE HasOnce(c, m, Clients)
  <2>1. Once(c, f, m)
    BY <1>2 DEF Holds
  <2>2. Cardinality({k \in Reachable(c) : m \in c[k][1].toks})
           + Cardinality({t \in Clients : m \in f[t]}) = 1
    BY <1>3, <2>1, OnceCounted
  <2>3. {t \in Clients : m \in f[t]} = {t \in Clients : m \in th[t].fl}
    BY <1>1 DEF InFlight
  <2> QED BY <2>2, <2>3 DEF HasOnce
<1>5. c = [k \in Keys |-> IF pair[k].st = "table" /\ pair[k].val # <<>> THEN pair[k].val ELSE disk[k]]
  BY <1>1 DEF Now, InMemory
<1>6. \A k \in Reachable(c) : c[k] # <<>>
  BY <1>2 DEF Tree, Whole
<1> QED BY <1>4, <1>5, <1>6 DEF NothingLost

LEMMA NothingDangles ==
  ASSUME ControlOK, CacheTableAssumption
  PROVE  NoDangling
<1>1. ASSUME NEW k \in Keys, pair[k].st = "none"
      PROVE  users(k) = {} /\ refcount(k) = {} /\ dm[k] = "free"
  <2>1. /\ pair[k] = NoPair /\ ~AtStake(k) /\ lock[k].w = {} /\ lock[k].r = {}
        /\ \A t \in Clients : ~Refers(th[t], k) /\ ~Awaits(th[t], k)
    BY <1>1, PairParts DEF PairOK, PairThere
  <2>2. \A t \in Clients : Pinning(t) => Key(t) = KeyOf(th[t])
    BY KeyIsKeyOf, ControlParts
  <2>3. Waiters(k) = {} /\ refcount(k) = {}
    BY <2>1, <2>2 DEF Waiters, Waiting, refcount, Refers, Awaits, AtStake
  <2>4. dm[k] = "free"
    BY <2>1, PairParts DEF PairOK, PairClone, NoPair
  <2> QED BY <2>1, <2>3, <2>4 DEF users
<1>2. ASSUME cp.ph \in {"idle", "done"}, NEW k \in Keys
      PROVE  ~pair[k].pend /\ pair[k].clone = <<>>
  <2>1. ~AtStake(k) /\ dm[k] # "bg" /\ dm[k] \in {"free", "bg", "cp"}
    BY <1>2, ControlParts DEF PendOK, AtStake, TypeOK
  <2> QED BY <1>2, <2>1, PairParts DEF PairOK, PairPend, PairClone
<1> QED BY <1>1, <1>2 DEF NoDangling

\* ------------------------------------------------- what the checkpoint has

LEMMA ImageParts ==
  ASSUME ControlOK, ImageOK
  PROVE  /\ \A k \in Keys : pair[k].pend => ckpt[k] = disk[k]
         /\ \A t \in Clients : BitsOK(th[t])
         /\ cp.ph # "idle" => /\ Tree(Image) /\ Holds(Image, ImageInFlight, before)
                              /\ \A k \in Leaves : ImageLeafOK(k)
<1>1. Image \in [Keys -> Vals]
  BY ControlParts DEF TypeOK, Pairs, Image
<1> QED BY <1>1 DEF ImageOK, Tree

LEMMA ImageAssembled ==
  ASSUME \A k \in Keys : pair'[k].pend => ckpt'[k] = disk'[k],
         \A t \in Clients : BitsOK(th[t])',
         cp'.ph # "idle" =>
           \E d, g : /\ Image' = d /\ ImageInFlight' = g /\ Whole(d) /\ Holds(d, g, before')
                     /\ \A k \in Leaves : \/ ~pair'[k].pend \/ k \in KidsOf(d)
                                          \/ \E t \in Clients : Unlinked(th'[t], k)
  PROVE  ImageOK'
<1>1. ASSUME cp'.ph # "idle"
      PROVE  (Whole(Image) /\ Holds(Image, ImageInFlight, before) /\ \A k \in Leaves : ImageLeafOK(k))'
  <2>1. PICK d, g : /\ Image' = d /\ ImageInFlight' = g /\ Whole(d) /\ Holds(d, g, before')
                    /\ \A k \in Leaves : \/ ~pair'[k].pend \/ k \in KidsOf(d)
                                         \/ \E t \in Clients : Unlinked(th'[t], k)
    BY <1>1
  <2>2. Whole(Image)'
    BY <2>1 DEF Whole, Reachable
  <2>3. Holds(Image, ImageInFlight, before)'
    BY <2>1 DEF Holds, Once, Nowhere, In, Reachable
  <2>4. \A k \in Leaves : ImageLeafOK(k)'
    BY <2>1 DEF ImageLeafOK, KidsOf, Unlinked
  <2> QED BY <2>2, <2>3, <2>4
<1> QED BY <1>1 DEF ImageOK

\* What is owed to the checkpoint has no clone, and one thing owes it.
LEMMA OwedParts ==
  ASSUME ControlOK, NEW k \in Keys
  PROVE  /\ Owed(k) => AtStake(k) /\ dm[k] = "free" /\ pair[k].clone = <<>> /\ cp.ph \notin {"idle", "done"}
         /\ pair[k].pend => ~InTodo(k) /\ ev[k] # "write_ckpt" /\ pair[k].st = "table"
         /\ pair[k].clone # <<>> => InMemory(k)
<1>1. PairOK(k) /\ pair[k] \in Pairs
  BY PairParts, ControlParts DEF TypeOK
<1>2. Owed(k) => AtStake(k) /\ dm[k] = "free"
  BY <1>1 DEF PairOK, PairPend, Owed
<1>3. AtStake(k) => cp.ph \notin {"idle", "done"}
  BY ControlParts DEF PendOK, AtStake
<1>4. dm[k] = "free" => pair[k].clone = <<>>
  BY <1>1 DEF PairOK, PairClone
<1>5. pair[k].pend => ~InTodo(k) /\ ev[k] # "write_ckpt"
  BY <1>1 DEF PairOK, PairPend
<1>6. pair[k].pend => pair[k].st = "table"
  BY <1>1 DEF PairOK, PairThere, NoPair, Pairs
<1> QED BY <1>1, <1>2, <1>3, <1>4, <1>5, <1>6 DEF PairOK, PairClone

\* The image of a node stays and nothing new is pending.
ImageSteady(k) == /\ Image'[k] = Image[k]
                  /\ pair'[k].pend => pair[k].pend /\ ckpt'[k] = disk'[k]
\* So do the bits a thread counts on and what the checkpoint will have of its messages.
ThreadImage(u) ==
  /\ BitsOK(th[u])' /\ ImageInFlight'[u] = ImageInFlight[u]
  /\ \A k \in Leaves : pair'[k].pend /\ Unlinked(th[u], k) => Unlinked(th'[u], k)

LEMMA ImageStays ==
  ASSUME ControlOK, ImageOK, cp'.ph # "idle" => cp.ph # "idle", before' = before,
         \A k \in Keys : ImageSteady(k), \A u \in Clients : ThreadImage(u)
  PROVE  ImageOK'
<1>1. Image' = Image
  BY DEF Image, ImageSteady
<1>2. ImageInFlight' = ImageInFlight
  BY DEF ImageInFlight, ThreadImage
<1>3. PICK d, g : d = Image /\ g = ImageInFlight
  OBVIOUS
<1>4. ASSUME cp'.ph # "idle"
      PROVE  /\ Image' = d /\ ImageInFlight' = g /\ Whole(d) /\ Holds(d, g, before')
             /\ \A k \in Leaves : \/ ~pair'[k].pend \/ k \in KidsOf(d)
                                  \/ \E t \in Clients : Unlinked(th'[t], k)
  <2>1. Tree(d) /\ Holds(d, g, before') /\ \A k \in Leaves : ImageLeafOK(k)
    BY <1>3, <1>4, ImageParts
  <2>2. ASSUME NEW k \in Leaves, pair'[k].pend, k \notin KidsOf(d)
        PROVE  \E t \in Clients : Unlinked(th'[t], k)
    <3>1. k \in Keys
      BY DEF Keys
    <3>2. PICK t \in Clients : Unlinked(th[t], k)
      BY <1>3, <2>1, <2>2, <3>1 DEF ImageLeafOK, ImageSteady
    <3> QED BY <2>2, <3>2 DEF ThreadImage
  <2> QED BY <1>1, <1>2, <1>3, <2>1, <2>2 DEF Tree
<1> QED BY <1>4, ImageAssembled DEF ImageSteady, ThreadImage

\* A pair that keeps all but its dirty bit.
LEMMA KeyImage ==
  ASSUME ControlOK, ImageOK, NEW k \in Keys,
         pair'[k].st = pair[k].st, pair'[k].val = pair[k].val, pair'[k].clone = pair[k].clone,
         pair'[k].pend = pair[k].pend, ckpt'[k] = ckpt[k], disk'[k] = disk[k],
         InTodo(k)' <=> InTodo(k), ev'[k] = "write_ckpt" <=> ev[k] = "write_ckpt"
  PROVE  ImageSteady(k)
<1>1. (Owed(k) /\ InMemory(k))' <=> Owed(k) /\ InMemory(k)
  BY DEF Owed, InMemory
<1> QED BY <1>1, ImageParts DEF ImageSteady, Image

\* A thread that does not move keeps its bits while nobody clears those of its locked nodes.
LEMMA OthersImage ==
  ASSUME ControlOK, ImageOK, NEW u \in Clients, th'[u] = th[u],
         \A k \in Keys : Writes(th[u], k) => pair'[k].pend = pair[k].pend
  PROVE  ThreadImage(u)
<1>1. ThreadOK(th[u]) /\ BitsOK(th[u]) /\ th[u].x \in Keys /\ th[u].y \in Keys /\ Root \in Keys
  BY ThreadParts, ImageParts, ThreadsTyped, ControlParts DEF Keys
<1>2. /\ HasRoot(th[u]) => pair'[Root].pend = pair[Root].pend
      /\ HasX(th[u]) => pair'[th[u].x].pend = pair[th[u].x].pend
      /\ HasY(th[u]) => pair'[th[u].y].pend = pair[th[u].y].pend
  BY <1>1 DEF Writes
<1>3. Synced(th[u]) => HasRoot(th[u]) /\ HasX(th[u])
  BY DEF Synced, HasRoot, HasX, Pinned
<1>4. BitsOK(th[u])'
  BY <1>1, <1>2, <1>3 DEF BitsOK, HasRoot, HasX, HasY, Synced, Pinned
<1>5. th[u].fl # {} => HasX(th[u])
  BY <1>1 DEF ThreadOK, FlPcs, HasX
<1>6. ImageInFlight'[u] = ImageInFlight[u]
  BY <1>1, <1>2, <1>5 DEF ImageInFlight
<1> QED BY <1>4, <1>6 DEF ThreadImage, Unlinked

\* A thread that moves with the messages it has, of a leaf whose bit stays.
LEMMA OwnImage ==
  ASSUME ControlOK, NEW t \in Clients, NEW pc, NEW ph, NEW todo, NEW x, NEW y, NEW mod,
         Stepped(th', t, pc, ph, todo, x, y, th[t].fl, mod), BitsOK(th[t])',
         th[t].fl = {} \/ (x = th[t].x /\ pair'[x].pend = pair[x].pend),
         \A k \in Leaves : pair'[k].pend /\ Unlinked(th[t], k) => Unlinked(th'[t], k)
  PROVE  ThreadImage(t)
<1>1. ImageInFlight'[t] = ImageInFlight[t]
  BY DEF ImageInFlight, Stepped
<1> QED BY <1>1 DEF ThreadImage

\* A step of a thread that leaves the pairs alone, but for a dirty bit.
LEMMA QuietImage ==
  ASSUME ControlOK, ImageOK, NEW t \in Clients,
         NEW pc, NEW ph, NEW x, NEW y, NEW mod,
         Stepped(th', t, pc, ph, th[t].todo, x, y, th[t].fl, mod),
         \A k \in Keys : /\ pair'[k].st = pair[k].st /\ pair'[k].val = pair[k].val
                         /\ pair'[k].clone = pair[k].clone /\ pair'[k].pend = pair[k].pend,
         UNCHANGED <<disk, ckpt, ev, cp, before>>, BitsOK(th[t])', th[t].fl = {} \/ x = th[t].x,
         \A k \in Leaves : Unlinked(th[t], k) => Unlinked(th'[t], k)
  PROVE  ImageOK'
<1>1. ASSUME NEW k \in Keys PROVE ImageSteady(k)
  <2>1. InTodo(k)' <=> InTodo(k)
    BY DEF InTodo, Stepped
  <2> QED BY <2>1, KeyImage
<1>2. ASSUME NEW u \in Clients PROVE ThreadImage(u)
  <2>1. CASE u = t
    <3>1. th[t].x \in Keys
      BY ThreadsTyped, ControlParts
    <3>2. th[t].fl = {} \/ (x = th[t].x /\ pair'[x].pend = pair[x].pend)
      BY <3>1
    <3> QED BY <2>1, <3>2, OwnImage
  <2>2. CASE u # t
    BY <2>2, OthersImage DEF Stepped
  <2> QED BY <2>1, <2>2
<1> QED BY <1>1, <1>2, ImageStays

\* The bits a thread counts on before such a step.
LEMMA BitsOf0 ==
  ASSUME ControlOK, ImageOK, NEW t \in Clients
  PROVE  BitsOK(th[t]) /\ ThreadOK(th[t]) /\ Root \in Keys /\ th[t].x \in Keys /\ th[t].y \in Keys
BY ThreadParts, ImageParts, ThreadsTyped, ControlParts DEF Keys

LEMMA get_and_pinImage ==
  ASSUME ControlOK, ImageOK, CacheTableAssumption, NEW t \in Clients, get_and_pin(t)
  PROVE  ImageOK'
<1>1. /\ th[t].pc \in {"inject_root", "flush_root", "flush_child", "merge_a", "merge_b"}
      /\ th[t].ph = "go"
      /\ Stepped(th', t, th[t].pc, "wait", th[t].todo, th[t].x, th[t].y, th[t].fl, th[t].mod)
  BY get_and_pinStep
<1>2. UNCHANGED <<pair, disk, ckpt, ev, cp, before>>
  BY DEF get_and_pin, history
<1>3. BitsOK(th[t])'
  BY <1>1, <1>2, BitsOf0 DEF BitsOK, Stepped, HasRoot, HasX, HasY, Pinned, Synced, MoPcs
<1>4. \A k \in Leaves : Unlinked(th[t], k) => Unlinked(th'[t], k)
  BY <1>1 DEF Unlinked, Stepped
<1> QED BY <1>1, <1>2, <1>3, <1>4, QuietImage

LEMMA try_pin_pairImage ==
  ASSUME ControlOK, ImageOK, CacheTableAssumption, NEW t \in Clients, try_pin_pair(t)
  PROVE  ImageOK'
<1>1. PICK pc, ph :
        /\ \/ /\ th[t].pc \in {"inject_root", "flush_root", "flush_child", "merge_a", "merge_b",
                               "bg_child"}
              /\ pc = th[t].pc /\ ph = "bits"
           \/ th[t].pc = "query_root" /\ pc = "query_pick" /\ ph = "go"
           \/ th[t].pc = "query_child" /\ pc = "query_unpin" /\ ph = "go"
        /\ Stepped(th', t, pc, ph, th[t].todo, th[t].x, th[t].y, th[t].fl, th[t].mod)
  BY try_pin_pairStep
<1>2. UNCHANGED <<pair, disk, ckpt, ev, cp, before>> /\ th[t].ph = "wait"
  BY DEF try_pin_pair, history
<1>3. BitsOK(th[t])'
  BY <1>1, <1>2, BitsOf0 DEF BitsOK, Stepped, HasRoot, HasX, HasY, Pinned, Synced, MoPcs
<1>4. \A k \in Leaves : Unlinked(th[t], k) => Unlinked(th'[t], k)
  BY <1>1 DEF Unlinked, Stepped
<1> QED BY <1>1, <1>2, <1>3, <1>4, QuietImage

LEMMA maybe_get_and_pin_cleanImage ==
  ASSUME ControlOK, ImageOK, CacheTableAssumption, NEW t \in Clients, maybe_get_and_pin_clean(t)
  PROVE  ImageOK'
<1>1. PICK pc, ph : /\ (pc = "bg_child" /\ ph \in {"bits", "wait"}) \/ (pc = "bg_fail" /\ ph = "go")
                    /\ Stepped(th', t, pc, ph, th[t].todo, th[t].x, th[t].y, th[t].fl, th[t].mod)
  BY maybe_get_and_pin_cleanStep
<1>2. UNCHANGED <<pair, disk, ckpt, ev, cp, before>> /\ th[t].pc = "bg_child" /\ th[t].ph = "go"
  BY maybe_get_and_pin_cleanStep DEF maybe_get_and_pin_clean, history
<1>3. BitsOK(th[t])'
  BY <1>1, <1>2, BitsOf0 DEF BitsOK, Stepped, HasRoot, HasX, HasY, Pinned, Synced, MoPcs
<1>4. \A k \in Leaves : Unlinked(th[t], k) => Unlinked(th'[t], k)
  BY <1>1, <1>2 DEF Unlinked, Stepped
<1> QED BY <1>1, <1>2, <1>3, <1>4, QuietImage

LEMMA maybe_pin_pairImage ==
  ASSUME ControlOK, ImageOK, CacheTableAssumption, NEW t \in Clients, maybe_pin_pair(t)
  PROVE  ImageOK'
<1>1. PICK pc, ph : /\ (pc = th[t].pc /\ ph = "try_again") \/ (pc = "query_root" /\ ph = "go")
                    /\ Stepped(th', t, pc, ph, th[t].todo, th[t].x, th[t].y, th[t].fl, th[t].mod)
  BY maybe_pin_pairStep
<1>2. th[t].pc \in {"query_root", "query_child"} /\ UNCHANGED <<pair, disk, ckpt, ev, cp, before>>
  BY maybe_pin_pairStep DEF maybe_pin_pair, history
<1>3. BitsOK(th[t])'
  BY <1>1, <1>2 DEF BitsOK, Stepped, HasRoot, HasX, HasY, Pinned, Synced, MoPcs
<1>4. \A k \in Leaves : Unlinked(th[t], k) => Unlinked(th'[t], k)
  BY <1>1, <1>2 DEF Unlinked, Stepped
<1> QED BY <1>1, <1>2, <1>3, <1>4, QuietImage

LEMMA StartImage ==
  ASSUME ControlOK, ImageOK, CacheTableAssumption, NEW t \in Clients, Start(t)
  PROVE  ImageOK'
<1>1. PICK pc \in {"inject_mo", "flush_root", "query_root", "clean_pick"} :
        Stepped(th', t, pc, "go", th[t].todo, th[t].x, th[t].y, th[t].fl, th[t].mod)
  BY StartStep
<1>2. th[t].pc = "idle" /\ UNCHANGED <<pair, disk, ckpt, ev, cp, before>>
  BY StartStep DEF Start, OnlyThread, history
<1>3. BitsOK(th[t])'
  BY <1>1, <1>2 DEF BitsOK, Stepped, HasRoot, HasX, HasY, Pinned, Synced, MoPcs
<1>4. \A k \in Leaves : Unlinked(th[t], k) => Unlinked(th'[t], k)
  BY <1>2 DEF Unlinked
<1> QED BY <1>1, <1>2, <1>3, <1>4, QuietImage

LEMMA MultiOpImage ==
  ASSUME ControlOK, ImageOK, CacheTableAssumption, NEW t \in Clients, NEW pc, NEW next,
         MultiOp(t, pc, next)
  PROVE  ImageOK'
<1>1. /\ th[t].pc = pc /\ th[t].ph = "go"
      /\ Stepped(th', t, next, "go", th[t].todo, th[t].x, th[t].y, th[t].fl, th[t].mod)
  BY MultiOpStep DEF MultiOp
<1>2. \/ pc = "inject_mo" /\ next = "inject_root"
      \/ pc = "inject_done" /\ next = "idle"
      \/ pc = "bg_mo" /\ next = "flush_give"
      \/ pc = "bg_fail" /\ next = "flush_pick"
  BY DEF MultiOp
<1>3. UNCHANGED <<pair, disk, ckpt, ev, cp, before>>
  BY DEF MultiOp, MultiOpLock, MultiOpUnlock, OnlyThread, history
<1>4. BitsOK(th[t])'
  BY <1>1, <1>2 DEF BitsOK, Stepped, HasRoot, HasX, HasY, Pinned, Synced, MoPcs
<1>5. \A k \in Leaves : Unlinked(th[t], k) => Unlinked(th'[t], k)
  BY <1>1, <1>2 DEF Unlinked
<1> QED BY <1>1, <1>3, <1>4, <1>5, QuietImage

LEMMA PicksImage ==
  ASSUME ControlOK, ImageOK, CacheTableAssumption, NEW t \in Clients, Picks(t)
  PROVE  ImageOK'
<1>1. PICK pc, next : /\ \/ pc = "flush_pick" /\ next = "flush_child"
                         \/ pc = "query_pick" /\ next = "query_child"
                      /\ At(t, pc) /\ \E x \in Kids : th' = [Goto(t, next) EXCEPT ![t].x = x]
                      /\ UNCHANGED mo /\ OnlyThread
  BY DEF Picks
<1>2. PICK x \in Kids : th' = [Goto(t, next) EXCEPT ![t].x = x]
  BY <1>1
<1>3. /\ th[t].pc = pc /\ th[t].ph = "go"
      /\ Stepped(th', t, next, "go", th[t].todo, x, th[t].y, th[t].fl, th[t].mod)
  BY <1>1, <1>2, PickStep
<1>4. UNCHANGED <<pair, disk, ckpt, ev, cp, before>>
  BY <1>1 DEF OnlyThread, history
<1>5. BitsOK(th[t])'
  BY <1>1, <1>3 DEF BitsOK, Stepped, HasRoot, HasX, HasY, Pinned, Synced, MoPcs
<1>6. \A k \in Leaves : Unlinked(th[t], k) => Unlinked(th'[t], k)
  BY <1>1, <1>3 DEF Unlinked
<1>7. th[t].fl = {}
  BY <1>1, <1>3, ThreadParts DEF ThreadOK, FlPcs
<1> QED BY <1>3, <1>4, <1>5, <1>6, <1>7, QuietImage

LEMMA run_cleanerImage ==
  ASSUME ControlOK, ImageOK, CacheTableAssumption, NEW t \in Clients, run_cleaner(t)
  PROVE  ImageOK'
<1>1. PICK pc, ph : /\ (pc = "clean_pick" /\ ph = "bits") \/ (pc = "idle" /\ ph = "go")
                    /\ Stepped(th', t, pc, ph, th[t].todo, th[t].x, th[t].y, th[t].fl, th[t].mod)
  BY run_cleanerStep
<1>2. th[t].pc = "clean_pick" /\ UNCHANGED <<pair, disk, ckpt, ev, cp, before>>
  BY run_cleanerStep DEF run_cleaner, history
<1>3. BitsOK(th[t])'
  BY <1>1 DEF BitsOK, Stepped, HasRoot, HasX, HasY, Pinned, Synced, MoPcs
<1>4. \A k \in Leaves : Unlinked(th[t], k) => Unlinked(th'[t], k)
  BY <1>2 DEF Unlinked
<1> QED BY <1>1, <1>2, <1>3, <1>4, QuietImage

LEMMA UnpinsImage ==
  ASSUME ControlOK, ImageOK, CacheTableAssumption, NEW t \in Clients, Unpins(t)
  PROVE  ImageOK'
<1>1. PICK pc, k, next : UnpinIs(t, pc, k, next) /\ At(t, pc) /\ Unpin(t, k, next)
  BY DEF Unpins
<1>2. /\ th[t].pc = pc /\ th[t].ph = "go" /\ k \in Keys
      /\ Stepped(th', t, next, "go", th[t].todo, th[t].x, th[t].y, th[t].fl, th[t].mod \ {k})
  BY <1>1, UnpinStep
<1>3. pair' = [pair EXCEPT ![k].dirty = @ \/ k \in th[t].mod] /\ pair \in [Keys -> Pairs]
      /\ UNCHANGED <<disk, ckpt, ev, cp, before>>
  BY <1>1, ControlParts DEF Unpin, history, TypeOK
<1>4. \A j \in Keys : /\ pair'[j].st = pair[j].st /\ pair'[j].val = pair[j].val
                      /\ pair'[j].clone = pair[j].clone /\ pair'[j].pend = pair[j].pend
  BY <1>3 DEF Pairs
<1>5. BitsOK(th[t])'
  <2>1. BitsOK(th[t]) /\ pair'[Root].pend = pair[Root].pend /\ pair'[th[t].x].pend = pair[th[t].x].pend
    BY <1>4, BitsOf0
  <2> QED BY <1>1, <1>2, <2>1 DEF UnpinIs, BitsOK, Stepped, HasRoot, HasX, HasY, Pinned, Synced, MoPcs
<1>6. \A j \in Leaves : Unlinked(th[t], j) => Unlinked(th'[t], j)
  BY <1>1, <1>2 DEF UnpinIs, Unlinked
<1> QED BY <1>2, <1>3, <1>4, <1>5, <1>6, QuietImage

LEMMA MergeUnpinImage ==
  ASSUME ControlOK, ImageOK, CacheTableAssumption, NEW t \in Clients, MergeUnpin(t)
  PROVE  ImageOK'
<1>1. /\ th[t].pc = "merge_unpin" /\ th[t].ph = "go" /\ th[t].x \in Leaves
  BY MergeUnpinStep
<1>2. PICK a \in Kids, b \in Kids :
        Stepped(th', t, "merge_a", "go", th[t].todo, a, b, th[t].fl, th[t].mod \ {th[t].x})
  BY MergeUnpinStep
<1>3. pair' = [pair EXCEPT ![th[t].x].dirty = @ \/ th[t].x \in th[t].mod] /\ pair \in [Keys -> Pairs]
      /\ UNCHANGED <<disk, ckpt, ev, cp, before>>
  BY ControlParts DEF MergeUnpin, history, TypeOK
<1>4. \A j \in Keys : /\ pair'[j].st = pair[j].st /\ pair'[j].val = pair[j].val
                      /\ pair'[j].clone = pair[j].clone /\ pair'[j].pend = pair[j].pend
  BY <1>3 DEF Pairs
<1>5. BitsOK(th[t])'
  BY <1>2 DEF BitsOK, Stepped, HasRoot, HasX, HasY, Pinned, Synced, MoPcs
<1>6. \A j \in Leaves : Unlinked(th[t], j) => Unlinked(th'[t], j)
  BY <1>1 DEF Unlinked
<1>7. th[t].fl = {}
  BY <1>1, ThreadParts DEF ThreadOK, FlPcs
<1> QED BY <1>2, <1>3, <1>4, <1>5, <1>6, <1>7, QuietImage

\* ------------------------------------------- pins, reads and writes

\* A bit is cleared of a pair that somebody is about to write, or that nobody has changed
\* since the checkpoint began.
LEMMA ClearedImage ==
  ASSUME ControlOK, TreeOK, ImageOK, NEW k \in Keys,
         pair'[k].st = pair[k].st, pair'[k].val = pair[k].val, pair'[k].clone = pair[k].clone,
         pair[k].pend, ~pair'[k].pend, ckpt'[k] = ckpt[k],
         Owed(k)' \/ ~InMemory(k) \/ Clean(k)
  PROVE  ImageSteady(k)
<1>1. InMemory(k)' <=> InMemory(k)
  BY DEF InMemory
<1>2. Owed(k) /\ pair[k].clone = <<>> /\ ckpt[k] = disk[k]
  BY OwedParts, ImageParts DEF Owed
<1>3. CASE ~InMemory(k)
  BY <1>1, <1>2, <1>3 DEF ImageSteady, Image
<1>4. CASE InMemory(k) /\ Owed(k)'
  BY <1>1, <1>2, <1>4 DEF ImageSteady, Image
<1>5. CASE InMemory(k) /\ ~Owed(k)' /\ Clean(k)
  <2>1. pair[k].val = ckpt[k]
    BY <1>2, <1>5, TreeParts DEF ValueOK
  <2>2. Image[k] = pair[k].val /\ Image'[k] = ckpt[k]
    BY <1>1, <1>2, <1>5 DEF Image
  <2> QED BY <2>1, <2>2 DEF ImageSteady
<1> QED BY <1>3, <1>4, <1>5

\* What a thread has locked only that thread writes for the checkpoint or changes.
LEMMA LockedAlone ==
  ASSUME ControlOK, CacheTableAssumption, NEW t \in Clients, NEW k \in Keys, Writes(th[t], k)
  PROVE  /\ \A u \in Clients : u # t => k \notin th[u].todo /\ k \notin th[u].mod /\ ~Writes(th[u], k)
         /\ ev[k] = "no"
<1>1. \A u \in Clients : u # t => ~Writes(th[u], k)
  BY WritersAlone, ControlParts
<1>2. ASSUME NEW u \in Clients, u # t PROVE k \notin th[u].todo /\ k \notin th[u].mod
  BY <1>1, <1>2, ThreadParts DEF ThreadOK
<1> QED BY <1>1, <1>2, WrittenThere

\* A thread goes on in its pin, or to the step that follows, and nothing of its is cleared.
LEMMA PinnedBits ==
  ASSUME ControlOK, ImageOK, NEW t \in Clients, Pinned(th[t]), th[t].ph # "bits",
         NEW pc, NEW ph, NEW todo, NEW mod,
         Stepped(th', t, pc, ph, todo, th[t].x, th[t].y, th[t].fl, mod),
         \/ PinNext(th[t].pc, pc) /\ ph = "go"
         \/ pc = th[t].pc /\ ph = th[t].ph,
         pair'[Root].pend = pair[Root].pend, pair'[th[t].x].pend = pair[th[t].x].pend,
         pair'[th[t].y].pend = pair[th[t].y].pend
  PROVE  ThreadImage(t)
<1>1. BitsOK(th[t]) /\ ThreadOK(th[t]) /\ th[t].ph \in {"resolve", "insert"}
  BY BitsOf0 DEF Pinned
<1>2. BitsOK(th[t])'
  <2>1. CASE pc = th[t].pc /\ ph = th[t].ph
    BY <1>1, <2>1 DEF BitsOK, Stepped, HasRoot, HasX, HasY, Pinned, Synced
  <2>2. CASE PinNext(th[t].pc, pc) /\ ph = "go"
    <3>1. CASE pc = "inject_put"
      BY <1>1, <2>2, <3>1 DEF PinNext, BitsOK, Stepped, HasRoot, HasX, HasY, Pinned, Synced, MoPcs
    <3>2. CASE pc = "bg_detach"
      <4>1. th[t].pc = "bg_child"
        BY <2>2, <3>2 DEF PinNext
      <4>2. ~pair[Root].pend /\ ~pair[th[t].x].pend
        BY <1>1, <4>1 DEF BitsOK, HasRoot, HasX, Pinned, MoPcs
      <4>3. pair'[Root].pend = FALSE /\ pair'[th[t].x].pend = FALSE
        BY <4>2, BitsOf0, ControlParts DEF TypeOK, Pairs
      <4> QED BY <2>2, <3>2, <4>3 DEF BitsOK, Stepped, HasY, Pinned, Synced
    <3>3. CASE pc \in {"flush_detach", "split_do", "merge_do"}
      BY <1>1, <2>2, <3>3 DEF PinNext, BitsOK, Stepped, HasRoot, HasX, HasY, Pinned, Synced, MoPcs
    <3>4. CASE pc \in {"flush_pick", "merge_b"}
      BY <2>2, <3>4 DEF BitsOK, Stepped, Synced, MoPcs
    <3> QED BY <2>2, <3>1, <3>2, <3>3, <3>4 DEF PinNext
  <2> QED BY <2>1, <2>2
<1>3. \A k \in Leaves : Unlinked(th[t], k) => Unlinked(th'[t], k)
  <2>1. CASE pc = th[t].pc /\ ph = th[t].ph
    BY <2>1 DEF Unlinked, Stepped
  <2>2. CASE PinNext(th[t].pc, pc) /\ ph = "go"
    BY <1>1, <2>2 DEF PinNext, Unlinked, Stepped
  <2> QED BY <2>1, <2>2
<1> QED BY <1>2, <1>3, OwnImage

LEMMA get_checkpoint_pendingImage ==
  ASSUME ControlOK, TreeOK, ImageOK, CacheTableAssumption, NEW t \in Clients,
         get_checkpoint_pending(t)
  PROVE  ImageOK'
<1>1. PICK ks : ks = {KeyOf(th[t])} \cup Deps(t)
  OBVIOUS
<1>2. /\ th[t].ph = "bits" /\ Pinned(th[t]) /\ Pinning(t) /\ ks \in SUBSET Keys
      /\ \A k \in ks : Writes(th[t], k) /\ InMemory(k)
      /\ \A j \in Keys : /\ pair'[j].st = pair[j].st /\ pair'[j].val = pair[j].val
                         /\ pair'[j].clone = pair[j].clone
                         /\ pair'[j].pend = (pair[j].pend /\ j \notin ks)
                         /\ pair'[j].dirty = (pair[j].dirty \/ j \in Deps(t) \cap th[t].mod)
                         /\ j \notin ks => pair'[j] = pair[j]
  BY <1>1, get_checkpoint_pendingStep
<1>3. PICK pc, ph, todo :
        /\ Stepped(th', t, pc, ph, todo, th[t].x, th[t].y, th[t].fl, th[t].mod)
        /\ \A j \in Keys : j \in todo <=> j \in ks /\ pair[j].pend /\ pair'[j].dirty
        /\ \/ PinNext(th[t].pc, pc) /\ ph = "go"
           \/ pc = th[t].pc /\ ph = "resolve"
  <2>1. PICK todo \in SUBSET ks :
          /\ \A j \in Keys : j \in todo <=> j \in ks /\ pair[j].pend /\ pair'[j].dirty
          /\ \/ /\ todo = {}
                /\ \E next : /\ PinNext(th[t].pc, next)
                             /\ Stepped(th', t, next, "go", {}, th[t].x, th[t].y, th[t].fl, th[t].mod)
             \/ Stepped(th', t, th[t].pc, "resolve", todo, th[t].x, th[t].y, th[t].fl, th[t].mod)
    BY <1>1, get_checkpoint_pendingStep
  <2> QED BY <2>1
<1>4. UNCHANGED <<disk, ckpt, ev, cp, before>>
  BY DEF get_checkpoint_pending, history
<1>5. th[t].todo = {} /\ ThreadOK(th[t]) /\ BitsOK(th[t]) /\ KeyOf(th[t]) \notin th[t].mod
  BY <1>2, BitsOf0 DEF ThreadOK
<1>6. ASSUME NEW k \in Keys PROVE ImageSteady(k)
  <2>1. InTodo(k)' <=> k \in todo \/ InTodo(k)
    BY <1>3, <1>5 DEF Stepped, InTodo
  <2>2. CASE k \notin ks \/ ~pair[k].pend
    <3>1. pair'[k].pend = pair[k].pend /\ (InTodo(k)' <=> InTodo(k))
      <4>1. pair[k].pend \in BOOLEAN
        BY ControlParts DEF TypeOK, Pairs
      <4> QED BY <1>2, <1>3, <2>1, <2>2, <4>1
    <3> QED BY <1>2, <1>4, <3>1, KeyImage
  <2>3. CASE k \in ks /\ pair[k].pend
    <3>1. ~pair'[k].pend /\ InMemory(k)
      BY <1>2, <2>3
    <3>2. Owed(k)' \/ Clean(k)
      <4>1. CASE pair'[k].dirty
        BY <1>3, <2>1, <2>3, <4>1 DEF Owed
      <4>2. CASE ~pair'[k].dirty
        <5>1. ~pair[k].dirty /\ k \notin th[t].mod
          BY <1>1, <1>2, <1>5, <2>3, <4>2
        <5>2. ~Modified(k)
          BY <1>2, <2>3, <5>1, LockedAlone DEF Modified
        <5> QED BY <3>1, <5>1, <5>2 DEF Clean
      <4> QED BY <4>1, <4>2
    <3> QED BY <1>2, <1>4, <2>3, <3>1, <3>2, ClearedImage
  <2> QED BY <2>2, <2>3
<1>7. ASSUME NEW u \in Clients, u # t PROVE ThreadImage(u)
  <2>1. \A k \in Keys : Writes(th[u], k) => k \notin ks
    BY <1>2, <1>7, LockedAlone
  <2>2. \A k \in Keys : Writes(th[u], k) => pair'[k].pend = pair[k].pend
    BY <1>2, <2>1
  <2> QED BY <1>3, <1>7, <2>2, OthersImage DEF Stepped
<1>8. ThreadImage(t)
  <2>1. th[t].fl = {} /\ \A k \in Leaves : ~Unlinked(th[t], k)
    BY <1>2, <1>5 DEF ThreadOK, FlPcs, Pinned, Unlinked, Phases
  <2>2. BitsOK(th[t])'
    <3>1. /\ pair'[KeyOf(th[t])].pend = FALSE /\ \A k \in Deps(t) : pair'[k].pend = FALSE
          /\ pair[Root].pend = FALSE => pair'[Root].pend = FALSE
      BY <1>1, <1>2, BitsOf0
    <3>2. /\ th[t].pc \in {"inject_root", "bg_child", "flush_root", "flush_child", "merge_a",
                             "merge_b", "clean_pick"}
          /\ th[t].pc \in {"flush_child", "merge_a"} => Deps(t) = {Root}
          /\ th[t].pc = "merge_b" => Deps(t) = {Root, th[t].x}
      BY <1>2, get_checkpoint_pendingStep, PinCases DEF PinIs
    <3>3. pair[Root].pend \in BOOLEAN
      BY ControlParts, BitsOf0 DEF TypeOK, Pairs
    <3>4. CASE pc \in {"inject_root", "inject_put"}
      BY <1>2, <1>3, <3>1, <3>2, <3>4 DEF PinNext, KeyOf, BitsOK, Stepped, HasRoot, HasX, HasY, Pinned,
         Synced, MoPcs
    <3>5. CASE pc \in {"bg_child", "bg_detach"}
      <4>1. th[t].pc = "bg_child"
        BY <1>3, <3>2, <3>5 DEF PinNext
      <4>2. pair'[th[t].x].pend = FALSE /\ pair'[Root].pend = FALSE
        <5>1. ~pair[Root].pend
          BY <1>5, <4>1 DEF BitsOK, HasRoot, MoPcs
        <5> QED BY <3>1, <3>3, <4>1, <5>1 DEF KeyOf
      <4> QED BY <1>3, <3>5, <4>2 DEF BitsOK, Stepped, HasY, Pinned, Synced
    <3>6. CASE pc \in {"flush_child", "flush_detach", "merge_do"} \/ (pc = "merge_b" /\ ph = "resolve")
      <4>1. th[t].pc \in {"flush_child", "merge_b"}
        BY <1>3, <3>2, <3>6 DEF PinNext
      <4>2. /\ pair'[th[t].x].pend = FALSE /\ pair'[Root].pend = FALSE
            /\ th[t].pc = "merge_b" => pair'[th[t].y].pend = FALSE
        BY <3>1, <3>2, <4>1 DEF KeyOf
      <4> QED BY <1>3, <3>6, <4>1, <4>2 DEF PinNext, BitsOK, Stepped, HasY, Pinned, Synced, MoPcs
    <3>7. CASE pc \in {"flush_root", "flush_pick", "merge_a", "clean_pick"} \/ (pc = "merge_b" /\ ph = "go")
      BY <1>3, <3>7 DEF BitsOK, Stepped, Synced, MoPcs
    <3> QED BY <1>3, <3>2, <3>4, <3>5, <3>6, <3>7 DEF PinNext
  <2> QED BY <1>3, <2>1, <2>2, OwnImage
<1> QED BY <1>4, <1>6, <1>7, <1>8, ImageStays

LEMMA write_lockedImage ==
  ASSUME ControlOK, ImageOK, CacheTableAssumption, NEW t \in Clients,
         write_locked_pair_for_checkpoint(t)
  PROVE  ImageOK'
<1>1. th[t].ph \in {"resolve", "insert"} /\ Pinned(th[t])
  BY write_lockedStep
<1>2. PICK k, pc, ph :
        /\ k \in th[t].todo /\ k \in Keys /\ InMemory(k) /\ Writes(th[t], k)
        /\ IF k \in Cloneable THEN clone_pair(k, "bg") ELSE cachetable_write_locked_pair(k, TRUE)
        /\ Stepped(th', t, pc, ph, th[t].todo \ {k}, th[t].x, th[t].y, th[t].fl, th[t].mod \ {k})
        /\ \/ PinNext(th[t].pc, pc) /\ ph = "go"
           \/ pc = th[t].pc /\ ph = th[t].ph
  <2>1. PICK k \in th[t].todo :
          /\ k \in Keys /\ Writes(th[t], k) /\ InMemory(k)
          /\ IF k \in Cloneable THEN clone_pair(k, "bg") ELSE cachetable_write_locked_pair(k, TRUE)
          /\ \/ /\ th[t].todo \ {k} = {} /\ th[t].ph = "resolve"
                /\ \E next : /\ PinNext(th[t].pc, next)
                             /\ Stepped(th', t, next, "go", {}, th[t].x, th[t].y, th[t].fl,
                                        th[t].mod \ {k})
             \/ Stepped(th', t, th[t].pc, th[t].ph, th[t].todo \ {k}, th[t].x, th[t].y, th[t].fl,
                        th[t].mod \ {k})
    BY write_lockedStep
  <2> QED BY <2>1
<1>3. /\ \A j \in Keys : j # k => pair'[j] = pair[j] /\ ckpt'[j] = ckpt[j] /\ disk'[j] = disk[j]
      /\ pair'[k].st = pair[k].st /\ pair'[k].val = pair[k].val /\ pair'[k].pend = pair[k].pend
      /\ \/ pair'[k].clone = pair[k].val
         \/ pair'[k].clone = pair[k].clone /\ ckpt'[k] = pair[k].val
  <2>1. disk \in [Keys -> Vals] /\ ckpt \in [Keys -> Vals]
    BY ControlParts DEF TypeOK
  <2>2. /\ \A j \in Keys : j # k => pair'[j] = pair[j]
        /\ pair'[k].st = pair[k].st /\ pair'[k].val = pair[k].val /\ pair'[k].pend = pair[k].pend
        /\ \/ /\ pair'[k].clone = pair[k].val /\ disk' = disk /\ ckpt' = ckpt
           \/ /\ pair'[k].clone = pair[k].clone
              /\ disk' = [disk EXCEPT ![k] = pair[k].val] /\ ckpt' = [ckpt EXCEPT ![k] = pair[k].val]
    BY <1>2, ClonedOrWritten, ControlParts
  <2> QED BY <1>2, <2>1, <2>2
<1>4. ev' = ev /\ cp' = cp /\ before' = before
  BY DEF write_locked_pair_for_checkpoint, history
<1>5. Owed(k) /\ ~pair[k].pend /\ pair[k].clone = <<>> /\ ev[k] = "no"
  <2>1. InTodo(k)
    BY <1>2 DEF InTodo
  <2> QED BY <1>2, <2>1, OwedParts, LockedAlone DEF Owed
<1>6. ASSUME NEW j \in Keys PROVE ImageSteady(j)
  <2>1. CASE j = k
    <3>1. ~InTodo(k)'
      BY <1>2, LockedAlone DEF InTodo, Stepped
    <3>2. ~Owed(k)'
      BY <1>3, <1>4, <1>5, <3>1 DEF Owed
    <3>3. Image[k] = pair[k].val /\ pair[k].val # <<>>
      BY <1>2, <1>5 DEF Image, InMemory
    <3>4. Image'[k] = pair[k].val
      BY <1>2, <1>3, <1>5, <3>2, <3>3 DEF Image
    <3> QED BY <1>3, <1>5, <2>1, <3>3, <3>4 DEF ImageSteady
  <2>2. CASE j # k
    <3>1. InTodo(j)' <=> InTodo(j)
      BY <1>2, <2>2 DEF InTodo, Stepped
    <3> QED BY <1>3, <1>4, <2>2, <3>1, KeyImage
  <2> QED BY <2>1, <2>2
<1>7. \A j \in Keys : pair'[j].pend = pair[j].pend
  BY <1>3
<1>8. ASSUME NEW u \in Clients, u # t PROVE ThreadImage(u)
  BY <1>2, <1>7, <1>8, OthersImage DEF Stepped
<1>9. ThreadImage(t)
  <2>1. /\ pair'[Root].pend = pair[Root].pend /\ pair'[th[t].x].pend = pair[th[t].x].pend
        /\ pair'[th[t].y].pend = pair[th[t].y].pend
    BY <1>7, BitsOf0
  <2> QED BY <1>1, <1>2, <2>1, PinnedBits
<1> QED BY <1>4, <1>6, <1>8, <1>9, ImageStays

\* A pair that is not in memory: the checkpoint has what it has of the block.
LEMMA AbsentImage ==
  ASSUME ControlOK, NEW k \in Keys, ~InMemory(k)
  PROVE  Image[k] = ckpt[k]
BY OwedParts DEF Image

\* The new pair is not of this checkpoint; those it depends on are written or as they were.
LEMMA InsertImage ==
  ASSUME ControlOK, TreeOK, ImageOK, CacheTableAssumption, NEW t \in Clients, NEW k, NEW v, NEW d,
         NEW todo, InsertIs(t, k, v, d, todo), th[t].todo = {},
         NEW pc, NEW ph, NEW y, Stepped(th', t, pc, ph, todo, th[t].x, y, th[t].fl, th[t].mod),
         UNCHANGED <<disk, ckpt, ev, cp, before>>, BitsOK(th[t])',
         th[t].fl = {}, \A j \in Leaves : ~Unlinked(th[t], j)
  PROVE  ImageOK'
<1>1. /\ k \in Keys /\ k \notin Deps(t) /\ pair[k].st = "none" /\ pair'[k].pend = FALSE
      /\ pair'[k].clone = <<>> /\ \A j \in Deps(t) : Writes(th[t], j) /\ InMemory(j)
      /\ \A j \in Keys : j \notin Deps(t) /\ j # k => pair'[j] = pair[j]
      /\ \A j \in Deps(t) : /\ pair'[j].st = pair[j].st /\ pair'[j].val = pair[j].val
                            /\ pair'[j].clone = pair[j].clone /\ pair'[j].pend = FALSE
                            /\ pair'[j].dirty = (pair[j].dirty \/ j \in th[t].mod)
      /\ \A j \in Keys : j \in todo <=> j \in Deps(t) /\ pair[j].pend /\ pair'[j].dirty
      /\ pair \in [Keys -> Pairs]
  BY ControlParts DEF InsertIs, TypeOK
<1>2. \A j \in Keys : InTodo(j)' <=> j \in todo \/ InTodo(j)
  BY DEF Stepped, InTodo
<1>3. ASSUME NEW j \in Keys PROVE ImageSteady(j)
  <2>1. CASE j = k
    <3>1. ~InMemory(k) /\ ~AtStake(k) /\ ~pair[k].pend
      BY <1>1, PairParts DEF InMemory, PairOK, PairThere, NoPair
    <3>2. ~Owed(k)
      BY <1>1, <3>1, OwedParts
    <3>3. ~Owed(k)'
      BY <1>1, <1>2, <3>2 DEF Owed
    <3>4. Image[k] = ckpt[k] /\ Image'[k] = ckpt[k]
      BY <1>1, <3>1, <3>3, AbsentImage DEF Image
    <3> QED BY <1>1, <2>1, <3>4 DEF ImageSteady
  <2>2. CASE j # k /\ (j \notin Deps(t) \/ ~pair[j].pend)
    <3>1. /\ pair'[j].st = pair[j].st /\ pair'[j].val = pair[j].val /\ pair'[j].clone = pair[j].clone
          /\ pair'[j].pend = pair[j].pend /\ (InTodo(j)' <=> InTodo(j))
      <4>1. pair[j].pend \in BOOLEAN
        BY <1>1 DEF Pairs
      <4> QED BY <1>1, <1>2, <2>2, <4>1
    <3> QED BY <3>1, KeyImage
  <2>3. CASE j # k /\ j \in Deps(t) /\ pair[j].pend
    <3>1. Owed(j)' \/ Clean(j)
      <4>1. CASE pair'[j].dirty
        BY <1>1, <1>2, <2>3, <4>1 DEF Owed
      <4>2. CASE ~pair'[j].dirty
        <5>1. ~pair[j].dirty /\ j \notin th[t].mod
          BY <1>1, <2>3, <4>2
        <5>2. ~Modified(j)
          BY <1>1, <2>3, <5>1, LockedAlone DEF Modified
        <5> QED BY <1>1, <2>3, <5>1, <5>2 DEF Clean
      <4> QED BY <4>1, <4>2
    <3> QED BY <1>1, <2>3, <3>1, ClearedImage
  <2> QED BY <2>1, <2>2, <2>3
<1>4. ASSUME NEW u \in Clients, u # t PROVE ThreadImage(u)
  <2>1. \A j \in Keys : Writes(th[u], j) => j \notin Deps(t) /\ j # k
    <3>1. \A j \in Keys : Writes(th[u], j) => j \notin Deps(t)
      BY <1>1, <1>4, LockedAlone
    <3>2. ~Writes(th[u], k)
      BY <1>1, WrittenThere
    <3> QED BY <3>1, <3>2
  <2>2. \A j \in Keys : Writes(th[u], j) => pair'[j].pend = pair[j].pend
    BY <1>1, <2>1
  <2> QED BY <1>4, <2>2, OthersImage DEF Stepped
<1>5. ThreadImage(t)
  BY OwnImage
<1> QED BY <1>3, <1>4, <1>5, ImageStays

LEMMA cachetable_insert_atImage ==
  ASSUME ControlOK, TreeOK, ImageOK, CacheTableAssumption, NEW t \in Clients, cachetable_insert_at(t)
  PROVE  ImageOK'
<1>1. /\ th[t].pc \in {"inject_root", "flush_root", "flush_child", "merge_a", "merge_b"}
      /\ th[t].ph = "go" /\ Pinning(t)
  BY cachetable_insert_atStep DEF cachetable_insert_at
<1>2. PICK todo, k : /\ InsertIs(t, k, <<>>, FALSE, todo) /\ k = KeyOf(th[t])
                     /\ Stepped(th', t, th[t].pc, "insert", todo, th[t].x, th[t].y, th[t].fl, th[t].mod)
  BY cachetable_insert_atStep
<1>3. UNCHANGED <<disk, ckpt, ev, cp, before>>
  BY DEF cachetable_insert_at, history
<1>4. th[t].todo = {} /\ th[t].fl = {} /\ \A j \in Leaves : ~Unlinked(th[t], j)
  BY <1>1, ThreadParts DEF ThreadOK, FlPcs, Unlinked
<1>5. BitsOK(th[t])'
  <2>1. pair'[k].pend = FALSE /\ \A j \in Deps(t) : pair'[j].pend = FALSE
    BY <1>2 DEF InsertIs
  <2>2. /\ th[t].pc = "inject_root" => k = Root
        /\ th[t].pc = "flush_child" => k = th[t].x /\ Deps(t) = {Root}
        /\ th[t].pc = "merge_b" => k = th[t].y /\ Deps(t) = {Root, th[t].x}
    BY <1>1, <1>2, PinCases DEF PinIs, KeyOf
  <2>3. CASE th[t].pc = "inject_root"
    BY <1>2, <2>1, <2>2, <2>3 DEF BitsOK, Stepped, HasX, HasY, Pinned, Synced
  <2>4. CASE th[t].pc \in {"flush_child", "merge_b"}
    BY <1>2, <2>1, <2>2, <2>4 DEF BitsOK, Stepped, HasX, HasY, Pinned, Synced, MoPcs
  <2>5. CASE th[t].pc \in {"flush_root", "merge_a"}
    BY <1>2, <2>5 DEF BitsOK, Stepped, Synced, MoPcs
  <2> QED BY <1>1, <2>3, <2>4, <2>5
<1> QED BY <1>2, <1>3, <1>4, <1>5, InsertImage

LEMMA put_with_dep_pairsImage ==
  ASSUME ControlOK, TreeOK, ImageOK, CacheTableAssumption, NEW t \in Clients, put_with_dep_pairs(t)
  PROVE  ImageOK'
<1>1. th[t].pc = "split_put" /\ th[t].ph = "go"
  BY put_with_dep_pairsStep
<1>2. PICK y, todo, pc, ph, v :
        /\ y \in Leaves /\ todo \in SUBSET Keys
        /\ InsertIs(t, y, v, TRUE, todo)
        /\ (pc = "split_do" /\ ph = "go") \/ (pc = "split_put" /\ ph = "resolve")
        /\ Stepped(th', t, pc, ph, todo, th[t].x, y, th[t].fl, th[t].mod)
  BY put_with_dep_pairsStep
<1>3. UNCHANGED <<disk, ckpt, ev, cp, before>>
  BY DEF put_with_dep_pairs, history
<1>4. th[t].todo = {} /\ th[t].fl = {} /\ \A j \in Leaves : ~Unlinked(th[t], j)
  BY <1>1, ThreadParts DEF ThreadOK, FlPcs, Unlinked
<1>5. BitsOK(th[t])'
  <2>1. pair'[y].pend = FALSE /\ \A j \in Deps(t) : pair'[j].pend = FALSE
    BY <1>2 DEF InsertIs
  <2>2. Deps(t) = {Root, th[t].x}
    BY <1>1, PinsAt, PinCases DEF PinIs
  <2> QED BY <1>2, <2>1, <2>2 DEF BitsOK, Stepped, Synced, MoPcs
<1> QED BY <1>2, <1>3, <1>4, <1>5, InsertImage

\* A pair is read from its block: what the checkpoint has of it is its block if it is pending.
LEMMA FetchedImage ==
  ASSUME ControlOK, TreeOK, ImageOK, CacheTableAssumption, NEW k \in Keys, Fetching(k),
         pair' = Fetched(k), UNCHANGED <<disk, ckpt, ev>>, NEW j \in Keys, InTodo(j)' <=> InTodo(j)
  PROVE  ImageSteady(j)
<1>1. /\ \A i \in Keys : i # k => pair'[i] = pair[i]
      /\ pair'[k].st = pair[k].st /\ pair'[k].val = disk[k] /\ pair'[k].clone = pair[k].clone
      /\ pair'[k].pend = pair[k].pend
  BY FetchedIs, ControlParts
<1>2. CASE j = k
  <2>1. pair[k].val = <<>> /\ ~InMemory(k)
    BY FetchFinds DEF InMemory
  <2>2. Image[k] = ckpt[k] /\ pair[k].clone = <<>> /\ ev[k] # "write_ckpt"
    BY <2>1, AbsentImage, OwedParts, PairParts DEF PairOK, PairValue
  <2>3. ~InTodo(k)
    BY <2>1, WrittenThere, ThreadParts DEF InTodo, ThreadOK
  <2>4. Image'[k] = ckpt[k]
    <3>1. CASE pair[k].pend
      BY <1>1, <2>2, <3>1, ImageParts DEF Image
    <3>2. CASE ~pair[k].pend
      BY <1>1, <1>2, <2>2, <2>3, <3>2 DEF Image, Owed
    <3> QED BY <3>1, <3>2
  <2> QED BY <1>1, <1>2, <2>2, <2>4, ImageParts DEF ImageSteady
<1>3. CASE j # k
  BY <1>1, <1>3, KeyImage
<1> QED BY <1>2, <1>3

LEMMA cachetable_fetch_pairImage ==
  ASSUME ControlOK, TreeOK, ImageOK, CacheTableAssumption, NEW t \in Clients, cachetable_fetch_pair(t)
  PROVE  ImageOK'
<1>1. /\ th[t].ph = "insert" /\ Pinned(th[t]) /\ KeyOf(th[t]) \in Keys
      /\ pair' = Fetched(KeyOf(th[t])) /\ th[t].todo = {}
  BY cachetable_fetch_pairStep
<1>2. PICK next : /\ PinNext(th[t].pc, next)
                  /\ Stepped(th', t, next, "go", {}, th[t].x, th[t].y, th[t].fl, th[t].mod)
  BY cachetable_fetch_pairStep
<1>3. UNCHANGED <<disk, ckpt, ev, cp, before>>
  BY DEF cachetable_fetch_pair, history
<1>4. Fetching(KeyOf(th[t]))
  BY <1>1 DEF Fetching, Fetches
<1>5. ASSUME NEW j \in Keys PROVE ImageSteady(j)
  <2>1. InTodo(j)' <=> InTodo(j)
    BY <1>1, <1>2 DEF InTodo, Stepped
  <2> QED BY <1>1, <1>3, <1>4, <2>1, FetchedImage
<1>6. \A j \in Keys : pair'[j].pend = pair[j].pend
  BY <1>1, FetchedIs, ControlParts
<1>7. ASSUME NEW u \in Clients, u # t PROVE ThreadImage(u)
  BY <1>2, <1>6, <1>7, OthersImage DEF Stepped
<1>8. ThreadImage(t)
  <2>1. /\ pair'[Root].pend = pair[Root].pend /\ pair'[th[t].x].pend = pair[th[t].x].pend
        /\ pair'[th[t].y].pend = pair[th[t].y].pend
    BY <1>6, BitsOf0
  <2> QED BY <1>1, <1>2, <2>1, PinnedBits
<1> QED BY <1>3, <1>5, <1>7, <1>8, ImageStays

LEMMA FetchAgainImage ==
  ASSUME ControlOK, TreeOK, ImageOK, CacheTableAssumption, NEW t \in Clients, FetchAgain(t)
  PROVE  ImageOK'
<1>1. /\ th[t].pc \in {"query_root", "query_child"} /\ th[t].ph = "fetch_again"
      /\ KeyOf(th[t]) \in Keys /\ pair' = Fetched(KeyOf(th[t]))
      /\ Stepped(th', t, "query_root", "go", th[t].todo, th[t].x, th[t].y, th[t].fl, th[t].mod)
  BY FetchAgainStep
<1>2. UNCHANGED <<disk, ckpt, ev, cp, before>>
  BY DEF FetchAgain, history
<1>3. Fetching(KeyOf(th[t]))
  BY <1>1 DEF Fetching, Fetches
<1>4. ASSUME NEW j \in Keys PROVE ImageSteady(j)
  <2>1. InTodo(j)' <=> InTodo(j)
    BY <1>1 DEF InTodo, Stepped
  <2> QED BY <1>1, <1>2, <1>3, <2>1, FetchedImage
<1>5. \A j \in Keys : pair'[j].pend = pair[j].pend
  BY <1>1, FetchedIs, ControlParts
<1>6. ASSUME NEW u \in Clients, u # t PROVE ThreadImage(u)
  BY <1>1, <1>5, <1>6, OthersImage DEF Stepped
<1>7. ThreadImage(t)
  <2>1. th[t].fl = {} /\ \A j \in Leaves : ~Unlinked(th[t], j)
    BY <1>1, ThreadParts DEF ThreadOK, FlPcs, Unlinked
  <2>2. BitsOK(th[t])'
    BY <1>1 DEF BitsOK, Stepped, Synced, MoPcs
  <2> QED BY <1>1, <2>1, <2>2, OwnImage
<1> QED BY <1>2, <1>4, <1>6, <1>7, ImageStays

\* A step of another agent that keeps the images and the bits of the nodes threads have.
LEMMA BgImage ==
  ASSUME ControlOK, ImageOK, th' = th, before' = before, cp'.ph # "idle" => cp.ph # "idle",
         \A k \in Keys : ImageSteady(k),
         \A k \in Keys, u \in Clients : Writes(th[u], k) => pair'[k].pend = pair[k].pend
  PROVE  ImageOK'
<1>1. ASSUME NEW u \in Clients PROVE ThreadImage(u)
  BY OthersImage
<1> QED BY <1>1, ImageStays

LEMMA cachetable_readerImage ==
  ASSUME ControlOK, TreeOK, ImageOK, CacheTableAssumption, NEW k \in Keys, cachetable_reader(k)
  PROVE  ImageOK'
<1>1. /\ Fetching(k) /\ pair' = Fetched(k) /\ UNCHANGED <<disk, ckpt, ev>>
      /\ th' = th /\ before' = before /\ cp' = cp
  BY DEF cachetable_reader, Fetching, history
<1>2. ASSUME NEW j \in Keys PROVE ImageSteady(j)
  <2>1. InTodo(j)' <=> InTodo(j)
    BY <1>1 DEF InTodo
  <2> QED BY <1>1, <2>1, FetchedImage
<1>3. \A j \in Keys : pair'[j].pend = pair[j].pend
  BY <1>1, FetchedIs, ControlParts
<1> QED BY <1>1, <1>2, <1>3, BgImage

\* A pair is put in the table to be read later.
LEMMA PutImage ==
  ASSUME ControlOK, ImageOK, NEW k \in Keys, pair[k].st = "none",
         pair' = [pair EXCEPT ![k] = pair_init(<<>>, FALSE)],
         UNCHANGED <<disk, ckpt, ev>>, NEW j \in Keys, InTodo(j)' <=> InTodo(j)
  PROVE  ImageSteady(j) /\ pair'[j].pend = pair[j].pend
<1>1. pair \in [Keys -> Pairs]
  BY ControlParts DEF TypeOK
<1>2. CASE j = k
  <2>1. pair'[k] = pair_init(<<>>, FALSE) /\ pair[k] = NoPair
    BY <1>1, PairParts DEF PairOK, PairThere
  <2>2. pair'[k].pend = FALSE /\ pair[k].pend = FALSE /\ pair'[k].clone = <<>> /\ pair'[k].val = <<>>
    BY <2>1 DEF pair_init, NoPair
  <2>3. Image[k] = ckpt[k]
    BY AbsentImage DEF InMemory
  <2>4. Image'[k] = ckpt[k]
    BY <2>2 DEF Image, InMemory
  <2> QED BY <1>2, <2>2, <2>3, <2>4 DEF ImageSteady
<1>3. CASE j # k
  <2>1. pair'[j] = pair[j]
    BY <1>1, <1>3
  <2> QED BY <2>1, KeyImage
<1> QED BY <1>2, <1>3

LEMMA get_and_pin_nonblockingImage ==
  ASSUME ControlOK, ImageOK, CacheTableAssumption, NEW t \in Clients, get_and_pin_nonblocking(t)
  PROVE  ImageOK'
<1>1. th[t].pc \in {"query_root", "query_child"} /\ th[t].ph = "go"
  BY get_and_pin_nonblockingStep
<1>2. UNCHANGED <<disk, ckpt, ev, cp, before>>
  BY DEF get_and_pin_nonblocking, history
<1>3. PICK k, ph :
        /\ k \in Keys
        /\ Stepped(th', t, th[t].pc, ph, th[t].todo, th[t].x, th[t].y, th[t].fl, th[t].mod)
        /\ \/ pair[k].st = "none" /\ pair' = [pair EXCEPT ![k] = pair_init(<<>>, FALSE)]
           \/ pair' = pair
  <2>1. PICK k \in Keys : k = KeyOf(th[t])
    BY KeyTyped
  <2> QED BY <2>1, get_and_pin_nonblockingStep
<1>4. ASSUME NEW j \in Keys PROVE ImageSteady(j) /\ pair'[j].pend = pair[j].pend
  <2>1. InTodo(j)' <=> InTodo(j)
    BY <1>3 DEF InTodo, Stepped
  <2>2. CASE pair[k].st = "none" /\ pair' = [pair EXCEPT ![k] = pair_init(<<>>, FALSE)]
    BY <1>2, <1>3, <2>1, <2>2, PutImage
  <2>3. CASE pair' = pair
    BY <1>2, <2>1, <2>3, KeyImage
  <2> QED BY <1>3, <2>2, <2>3
<1>5. ASSUME NEW u \in Clients, u # t PROVE ThreadImage(u)
  BY <1>3, <1>4, <1>5, OthersImage DEF Stepped
<1>6. ThreadImage(t)
  <2>1. th[t].fl = {} /\ \A j \in Leaves : ~Unlinked(th[t], j)
    BY <1>1, ThreadParts DEF ThreadOK, FlPcs, Unlinked
  <2>2. BitsOK(th[t])'
    BY <1>1, <1>3 DEF BitsOK, Stepped, Synced, MoPcs
  <2> QED BY <1>3, <2>1, <2>2, OwnImage
<1> QED BY <1>2, <1>4, <1>5, <1>6, ImageStays

LEMMA toku_cachefile_prefetchImage ==
  ASSUME ControlOK, ImageOK, CacheTableAssumption, NEW t \in Clients, toku_cachefile_prefetch(t)
  PROVE  ImageOK'
<1>1. /\ th[t].pc = "query_pick" /\ th[t].ph = "go" /\ UNCHANGED <<disk, ckpt, ev>>
      /\ th' = th /\ cp' = cp /\ before' = before
  BY DEF toku_cachefile_prefetch, At, history
<1>2. Kids \in SUBSET Leaves
  BY <1>1, KidsTyped DEF ReadsRoot, Fetches
<1>3. PICK k \in Kids : /\ pair[k].st = "none" /\ pair' = [pair EXCEPT ![k] = pair_init(<<>>, FALSE)]
  BY DEF toku_cachefile_prefetch
<1>4. k \in Keys
  BY <1>2, <1>3 DEF Keys
<1>5. ASSUME NEW j \in Keys PROVE ImageSteady(j) /\ pair'[j].pend = pair[j].pend
  <2>1. InTodo(j)' <=> InTodo(j)
    BY <1>1 DEF InTodo
  <2> QED BY <1>1, <1>3, <1>4, <2>1, PutImage
<1> QED BY <1>1, <1>5, BgImage

LEMMA FreeRemovedImage ==
  ASSUME ControlOK, ImageOK, CacheTableAssumption, NEW t \in Clients, FreeRemoved(t)
  PROVE  ImageOK'
<1>1. PICK y \in Keys : y = th[t].y
  BY BitsOf0
<1>2. /\ th[t].pc = "merge_remove" /\ th[t].ph = "leave" /\ Departs(th[t], y)
      /\ \A j \in Keys : j # y => pair'[j] = pair[j]
      /\ pair'[y] = NoPair
      /\ Stepped(th', t, "unpin_both", "go", th[t].todo, th[t].x, y, th[t].fl, th[t].mod)
  BY <1>1, FreeRemovedStep
<1>3. UNCHANGED <<disk, ckpt, ev, cp, before>>
  BY DEF FreeRemoved, history
<1>4. pair[y].st = "removed" /\ pair[y].pend = FALSE /\ pair'[y].pend = FALSE
  <2>1. pair[y].st = "removed"
    BY <1>2, PairParts DEF PairOK, PairThere, Leaving
  <2>2. ~pair[y].pend /\ pair[y].pend \in BOOLEAN
    BY <2>1, PairParts, ControlParts DEF PairOK, PairThere, TypeOK, Pairs
  <2> QED BY <1>2, <2>1, <2>2 DEF NoPair
<1>5. ASSUME NEW j \in Keys PROVE ImageSteady(j) /\ pair'[j].pend = pair[j].pend
  <2>1. InTodo(j)' <=> InTodo(j)
    BY <1>2 DEF InTodo, Stepped
  <2>2. CASE j = y
    <3>1. Image[y] = ckpt[y]
      BY <1>4, AbsentImage DEF InMemory
    <3>2. Image'[y] = ckpt[y]
      BY <1>2, <1>3 DEF Image, InMemory, NoPair
    <3> QED BY <1>4, <2>2, <3>1, <3>2 DEF ImageSteady
  <2>3. CASE j # y
    BY <1>2, <1>3, <2>1, <2>3, KeyImage
  <2> QED BY <2>2, <2>3
<1>6. ASSUME NEW u \in Clients, u # t PROVE ThreadImage(u)
  BY <1>2, <1>5, <1>6, OthersImage DEF Stepped
<1>7. ThreadImage(t)
  <2>1. th[t].fl = {} /\ \A j \in Leaves : ~Unlinked(th[t], j)
    BY <1>2, ThreadParts DEF ThreadOK, FlPcs, Unlinked
  <2>2. BitsOK(th[t])'
    BY <1>2 DEF BitsOK, Stepped, Synced, MoPcs
  <2> QED BY <1>2, <2>1, <2>2, OwnImage
<1> QED BY <1>3, <1>5, <1>6, <1>7, ImageStays

\* ------------------------------------------------- the threads behind

\* A step that leaves the nodes and the threads alone.
LEMMA SamePairsImage ==
  ASSUME ControlOK, ImageOK, UNCHANGED <<pair, disk, ckpt, th, before>>,
         cp'.ph # "idle" => cp.ph # "idle",
         \A k \in Keys : ev'[k] = "write_ckpt" <=> ev[k] = "write_ckpt"
  PROVE  ImageOK'
<1>1. ASSUME NEW k \in Keys PROVE ImageSteady(k)
  <2>1. InTodo(k)' <=> InTodo(k)
    BY DEF InTodo
  <2> QED BY <2>1, KeyImage
<1> QED BY <1>1, BgImage

LEMMA ScheduledImage ==
  ASSUME ControlOK, ImageOK, CacheTableAssumption,
         checkpoint_pending_pairs \/ end_checkpoint \/ \E k \in Keys : run_eviction_on_pair(k)
  PROVE  ImageOK'
<1>1. ASSUME checkpoint_pending_pairs PROVE ImageOK'
  <2>1. UNCHANGED <<pair, disk, ckpt, ev, th, before>> /\ cp.ph # "idle"
    BY <1>1 DEF checkpoint_pending_pairs, history
  <2> QED BY <2>1, SamePairsImage
<1>2. ASSUME end_checkpoint PROVE ImageOK'
  <2>1. UNCHANGED <<pair, disk, ckpt, ev, th, before>> /\ cp.ph # "idle"
    BY <1>2 DEF end_checkpoint, history
  <2> QED BY <2>1, SamePairsImage
<1>3. ASSUME NEW k \in Keys, run_eviction_on_pair(k) PROVE ImageOK'
  <2>1. UNCHANGED <<pair, disk, ckpt, th, before, cp>> /\ lock[k].w = {} /\ ev \in [Keys -> {"no",
          "queued", "remove", "write", "write_ckpt", "written"}]
    BY <1>3, ControlParts DEF run_eviction_on_pair, history, users, TypeOK
  <2>2. ev[k] = "no"
    BY <2>1, ControlParts DEF LocksOK
  <2>3. \A j \in Keys : ev'[j] = "write_ckpt" <=> ev[j] = "write_ckpt"
    BY <1>3, <2>1, <2>2 DEF run_eviction_on_pair, Ev
  <2> QED BY <2>1, <2>3, SamePairsImage
<1> QED BY <1>1, <1>2, <1>3

\* A step that touches the pair k alone, which no client writes if its bit changes.
LEMMA OneImage ==
  ASSUME ControlOK, ImageOK, th' = th, before' = before, cp'.ph # "idle" => cp.ph # "idle",
         NEW k \in Keys, ImageSteady(k),
         \A u \in Clients : Writes(th[u], k) => pair'[k].pend = pair[k].pend,
         \A j \in Keys : j # k => /\ pair'[j] = pair[j] /\ disk'[j] = disk[j]
                                  /\ ckpt'[j] = ckpt[j] /\ ev'[j] = ev[j]
  PROVE  ImageOK'
<1>1. ASSUME NEW j \in Keys PROVE ImageSteady(j)
  <2>1. CASE j # k
    <3>1. InTodo(j)' <=> InTodo(j)
      BY DEF InTodo
    <3> QED BY <2>1, <3>1, KeyImage
  <2> QED BY <2>1
<1>2. \A j \in Keys, u \in Clients : Writes(th[u], j) => pair'[j].pend = pair[j].pend
  OBVIOUS
<1> QED BY <1>1, <1>2, BgImage

\* A pair that the clients have not locked for writing.
LEMMA Unwritten ==
  ASSUME ControlOK, NEW k \in Keys, lock[k].w \cap Clients = {}
  PROVE  (\A u \in Clients : ~Writes(th[u], k)) /\ ~InTodo(k) /\ ~Modified(k)
<1>1. \A u \in Clients : ~Writes(th[u], k)
  BY ThreadParts
<1>2. ~InTodo(k)
  BY <1>1, ThreadParts DEF InTodo, ThreadOK
<1> QED BY <1>1, <1>2, NobodyModifies

LEMMA ClearPendingImage ==
  ASSUME ControlOK, TreeOK, ImageOK, CacheTableAssumption, ClearPending
  PROVE  ImageOK'
<1>1. PICK k \in Keys : k = cp.cur
  BY ControlParts DEF TypeOK
<1>2. /\ lock[k].w = {} /\ UNCHANGED <<disk, ckpt, ev, th, before>> /\ cp.ph # "idle"
      /\ pair \in [Keys -> Pairs]
      /\ \/ pair' = pair
         \/ pair' = [pair EXCEPT ![k].pend = FALSE] /\ ~(pair[k].pend /\ pair[k].dirty)
  BY <1>1, ControlParts DEF ClearPending, CanLock, history, TypeOK
<1>3. (\A u \in Clients : ~Writes(th[u], k)) /\ ~InTodo(k) /\ ~Modified(k)
  BY <1>2, Unwritten
<1>4. CASE pair' = pair
  BY <1>2, <1>4, SamePairsImage
<1>5. CASE pair' = [pair EXCEPT ![k].pend = FALSE] /\ ~(pair[k].pend /\ pair[k].dirty)
  <2>1. /\ \A j \in Keys : j # k => pair'[j] = pair[j]
        /\ pair'[k].st = pair[k].st /\ pair'[k].val = pair[k].val /\ pair'[k].clone = pair[k].clone
        /\ pair'[k].pend = FALSE /\ pair[k].pend \in BOOLEAN
    BY <1>2, <1>5 DEF Pairs
  <2>2. InTodo(k)' <=> InTodo(k)
    BY <1>2 DEF InTodo
  <2>3. CASE pair[k].pend
    <3>1. ~InMemory(k) \/ Clean(k)
      BY <1>3, <1>5, <2>3 DEF Clean
    <3>2. ImageSteady(k)
      BY <1>2, <2>1, <2>3, <3>1, ClearedImage
    <3> QED BY <1>2, <1>3, <2>1, <3>2, OneImage
  <2>4. CASE ~pair[k].pend
    <3>1. pair'[k].pend = pair[k].pend
      BY <2>1, <2>4
    <3>2. ImageSteady(k)
      BY <1>2, <2>1, <2>2, <3>1, KeyImage
    <3> QED BY <1>2, <2>1, <3>1, <3>2, OneImage
  <2> QED BY <2>3, <2>4
<1> QED BY <1>2, <1>4, <1>5

LEMMA write_pairImage ==
  ASSUME ControlOK, ImageOK, CacheTableAssumption, write_pair_for_checkpoint_thread
  PROVE  ImageOK'
<1>1. PICK k \in Keys : k = cp.cur
  BY ControlParts DEF TypeOK
<1>2. /\ cp.ph = "write" /\ InMemory(k) /\ pair[k].pend /\ lock[k].w = {"cp"} /\ ev[k] = "no"
      /\ \A j \in Keys : j # k => pair'[j] = pair[j]
      /\ pair'[k].st = "table" /\ pair'[k].val = pair[k].val /\ pair'[k].pend = FALSE
      /\ \/ pair'[k].clone = pair[k].val /\ disk' = disk /\ ckpt' = ckpt
         \/ /\ pair'[k].clone = <<>>
            /\ disk' = [disk EXCEPT ![k] = pair[k].val] /\ ckpt' = [ckpt EXCEPT ![k] = pair[k].val]
  BY <1>1, write_pairStep
<1>3. /\ UNCHANGED <<th, ev, before>> /\ disk \in [Keys -> Vals] /\ ckpt \in [Keys -> Vals]
  BY ControlParts DEF write_pair_for_checkpoint_thread, history, TypeOK
<1>4. (\A u \in Clients : ~Writes(th[u], k)) /\ ~InTodo(k)
  BY <1>2, Unwritten DEF CacheTableAssumption
<1>5. Image[k] = pair[k].val /\ pair[k].val # <<>>
  BY <1>2 DEF Image, Owed, InMemory
<1>6. ~Owed(k)'
  BY <1>2, <1>3, <1>4 DEF Owed, InTodo
<1>7. Image'[k] = pair[k].val
  BY <1>2, <1>3, <1>5, <1>6 DEF Image
<1>8. ImageSteady(k)
  BY <1>2, <1>5, <1>7 DEF ImageSteady
<1>9. \A j \in Keys : j # k => pair'[j] = pair[j] /\ disk'[j] = disk[j] /\ ckpt'[j] = ckpt[j]
  BY <1>2, <1>3
<1> QED BY <1>2, <1>3, <1>4, <1>8, <1>9, OneImage

LEMMA checkpoint_cloned_pairImage ==
  ASSUME ControlOK, ImageOK, CacheTableAssumption, NEW k \in Keys, checkpoint_cloned_pair(k)
  PROVE  ImageOK'
<1>1. /\ dm[k] # "free" /\ disk' = [disk EXCEPT ![k] = pair[k].clone]
      /\ ckpt' = [ckpt EXCEPT ![k] = pair[k].clone]
      /\ pair' = [pair EXCEPT ![k].clone = <<>>] /\ UNCHANGED <<th, ev, before>>
      /\ disk \in [Keys -> Vals] /\ ckpt \in [Keys -> Vals] /\ pair \in [Keys -> Pairs]
      /\ cp' = (IF dm[k] = "cp" THEN Cp("pairs") ELSE cp)
  BY ControlParts DEF checkpoint_cloned_pair, WriteBlock, history, TypeOK
<1>2. pair[k].clone # <<>> /\ ~Owed(k) /\ cp.ph # "idle"
  <2>1. PairOK(k) /\ dm[k] \in {"free", "bg", "cp"}
    BY PairParts, ControlParts DEF TypeOK
  <2>2. cp.ph # "idle"
    BY <1>1, <2>1, ControlParts DEF PairOK, PairClone, PendOK
  <2> QED BY <1>1, <2>1, <2>2, OwedParts DEF PairOK, PairClone
<1>3. /\ \A j \in Keys : j # k => pair'[j] = pair[j] /\ disk'[j] = disk[j] /\ ckpt'[j] = ckpt[j]
      /\ pair'[k].pend = pair[k].pend /\ pair'[k].clone = <<>>
      /\ pair'[k].val = pair[k].val /\ pair'[k].st = pair[k].st
      /\ ckpt'[k] = pair[k].clone /\ disk'[k] = pair[k].clone
  BY ONLY <1>1, k \in Keys DEF Pairs
<1>4. ~Owed(k)'
  BY <1>1, <1>2, <1>3 DEF Owed, InTodo
<1>5. Image[k] = pair[k].clone
  BY <1>2 DEF Image
<1>6. Image'[k] = pair[k].clone
  BY <1>3, <1>4 DEF Image
<1>7. ImageSteady(k)
  BY <1>2, <1>3, <1>5, <1>6 DEF ImageSteady, Owed
<1> QED BY <1>1, <1>2, <1>3, <1>7, OneImage

LEMMA cachetable_evicterImage ==
  ASSUME ControlOK, ImageOK, CacheTableAssumption, NEW k \in Keys, cachetable_evicter(k)
  PROVE  ImageOK'
<1>1. /\ ev[k] = "queued" /\ pair' = [pair EXCEPT ![k].pend = FALSE]
      /\ ev' = [ev EXCEPT ![k] = IF pair[k].pend THEN "write_ckpt" ELSE "write"]
      /\ UNCHANGED <<th, disk, ckpt, cp, before>>
      /\ pair \in [Keys -> Pairs] /\ k \in DOMAIN ev
  BY ControlParts DEF cachetable_evicter, Ev, history, TypeOK
<1>2. lock[k].w = {"ev"} /\ InMemory(k)
  BY <1>1, EvictingAlone
<1>3. (\A u \in Clients : ~Writes(th[u], k)) /\ ~InTodo(k)
  BY <1>2, Unwritten DEF CacheTableAssumption
<1>4. /\ \A j \in Keys : j # k => pair'[j] = pair[j] /\ ev'[j] = ev[j]
      /\ pair'[k].st = pair[k].st /\ pair'[k].val = pair[k].val /\ pair'[k].clone = pair[k].clone
      /\ pair'[k].pend = FALSE /\ pair[k].pend \in BOOLEAN
      /\ ev'[k] = IF pair[k].pend THEN "write_ckpt" ELSE "write"
  BY ONLY <1>1, k \in Keys DEF Pairs
<1>5. ImageSteady(k)
  <2>1. CASE pair[k].pend
    <3>1. Owed(k) /\ Owed(k)' /\ InMemory(k)'
      BY <1>2, <1>4, <2>1 DEF Owed, InMemory
    <3> QED BY <1>2, <1>4, <3>1 DEF ImageSteady, Image
  <2>2. CASE ~pair[k].pend
    <3>1. InTodo(k)' <=> InTodo(k)
      BY <1>1 DEF InTodo
    <3>2. pair'[k].pend = pair[k].pend /\ ev'[k] # "write_ckpt" /\ ev[k] # "write_ckpt"
      BY <1>1, <1>4, <2>2
    <3> QED BY <1>1, <1>4, <3>1, <3>2, KeyImage
  <2> QED BY <2>1, <2>2
<1> QED BY <1>1, <1>3, <1>4, <1>5, OneImage

LEMMA evict_writeImage ==
  ASSUME ControlOK, ImageOK, CacheTableAssumption, NEW k \in Keys, evict_write(k)
  PROVE  ImageOK'
<1>1. /\ ev[k] \in {"write", "write_ckpt"} /\ pair' = [pair EXCEPT ![k].dirty = FALSE]
      /\ disk' = [disk EXCEPT ![k] = pair[k].val]
      /\ ckpt' = (IF ev[k] = "write_ckpt" THEN [ckpt EXCEPT ![k] = pair[k].val] ELSE ckpt)
      /\ ev' = [ev EXCEPT ![k] = "written"] /\ dm[k] = "free"
      /\ UNCHANGED <<th, cp, before>> /\ pair \in [Keys -> Pairs] /\ k \in DOMAIN ev
      /\ disk \in [Keys -> Vals] /\ ckpt \in [Keys -> Vals]
  BY ControlParts DEF evict_write, cachetable_write_locked_pair, WriteBlock, Ev, history, TypeOK
<1>2. lock[k].w = {"ev"} /\ InMemory(k) /\ PairOK(k)
  BY <1>1, EvictingAlone
<1>3. (\A u \in Clients : ~Writes(th[u], k)) /\ ~InTodo(k)
  BY <1>2, Unwritten DEF CacheTableAssumption
<1>4. /\ \A j \in Keys : j # k => /\ pair'[j] = pair[j] /\ ev'[j] = ev[j]
                                  /\ disk'[j] = disk[j] /\ ckpt'[j] = ckpt[j]
      /\ pair'[k].st = pair[k].st /\ pair'[k].val = pair[k].val /\ pair'[k].clone = pair[k].clone
      /\ pair'[k].pend = pair[k].pend /\ ev'[k] = "written"
      /\ ckpt'[k] = IF ev[k] = "write_ckpt" THEN pair[k].val ELSE ckpt[k]
  BY ONLY <1>1, k \in Keys DEF Pairs
<1>5. ~pair[k].pend /\ pair[k].clone = <<>>
  BY <1>1, <1>2 DEF PairOK, PairPend, PairClone
<1>6. ~Owed(k)'
  BY <1>1, <1>3, <1>4, <1>5 DEF Owed, InTodo
<1>7. Image'[k] = ckpt'[k]
  BY <1>4, <1>5, <1>6 DEF Image
<1>8. Image[k] = ckpt'[k]
  <2>1. CASE ev[k] = "write_ckpt"
    BY <1>2, <1>4, <2>1 DEF Image, Owed
  <2>2. CASE ev[k] = "write"
    BY <1>3, <1>4, <1>5, <2>2 DEF Image, Owed
  <2> QED BY <1>1, <2>1, <2>2
<1>9. ImageSteady(k)
  BY <1>4, <1>5, <1>7, <1>8 DEF ImageSteady
<1> QED BY <1>1, <1>4, <1>9, OneImage

\* What is evicted is in its block, and in the block of the checkpoint if that wants it.
LEMMA evict_pairImage ==
  ASSUME ControlOK, TreeOK, ImageOK, CacheTableAssumption, NEW k \in Keys, evict_pair(k)
  PROVE  ImageOK'
<1>1. /\ ev[k] \in {"written", "remove"} /\ dm[k] = "free" /\ k \in DOMAIN ev
      /\ pair' = [pair EXCEPT ![k] = NoPair] \/ pair' = pair
      /\ ev' = [ev EXCEPT ![k] = "no"]
      /\ UNCHANGED <<th, disk, ckpt, cp, before>> /\ pair \in [Keys -> Pairs]
  BY ControlParts DEF evict_pair, Ev, history, TypeOK
<1>2. \A j \in Keys : ev'[j] = "write_ckpt" <=> ev[j] = "write_ckpt"
  BY <1>1
<1>3. CASE pair' = pair
  BY <1>1, <1>2, <1>3, SamePairsImage
<1>4. CASE pair' = [pair EXCEPT ![k] = NoPair]
  <2>1. InMemory(k) /\ lock[k].w = {"ev"} /\ PairOK(k)
    BY <1>1, EvictingAlone
  <2>2. (\A u \in Clients : ~Writes(th[u], k)) /\ ~InTodo(k) /\ ~Modified(k)
    BY <2>1, Unwritten DEF CacheTableAssumption
  <2>3. pair[k].clone = <<>> /\ ~pair[k].dirty
    BY <1>1, <2>1 DEF PairOK, PairClone, PairValue
  <2>4. pair[k].val = disk[k]
    BY <2>1, <2>2, <2>3, TreeParts DEF ValueOK, Clean
  <2>5. Image[k] = ckpt[k]
    <3>1. CASE pair[k].pend
      BY <2>3, <2>4, <3>1, ImageParts DEF Image
    <3>2. CASE ~pair[k].pend
      BY <1>1, <2>2, <2>3, <3>2 DEF Image, Owed
    <3> QED BY <3>1, <3>2
  <2>6. pair'[k] = NoPair /\ \A j \in Keys : j # k => pair'[j] = pair[j] /\ ev'[j] = ev[j]
    BY <1>1, <1>4
  <2>7. Image'[k] = ckpt[k] /\ ~pair'[k].pend
    BY <1>1, <2>6 DEF Image, InMemory, NoPair
  <2>8. ImageSteady(k)
    BY <2>5, <2>7 DEF ImageSteady
  <2> QED BY <1>1, <2>2, <2>6, <2>8, OneImage
<1> QED BY <1>1, <1>3, <1>4

LEMMA CloseImage ==
  ASSUME ControlOK, ImageOK, CacheTableAssumption, Close
  PROVE  ImageOK'
<1>1. /\ cp.ph = "idle" /\ cp' = cp /\ th' = th /\ \A t \in Clients : th[t].pc = "idle"
      /\ pair \in [Keys -> Pairs]
  BY ControlParts DEF Close, toku_cachefile_close, ClosingOK, Finished, Idle, history, TypeOK
<1>2. \A k \in Keys : ~pair'[k].pend
  <2>1. \A k \in Keys : ~pair[k].pend
    BY <1>1, OwedParts DEF Owed
  <2>2. CASE pair' = pair
    BY <2>1, <2>2
  <2>3. ASSUME NEW k \in Keys, pair' = [pair EXCEPT ![k].dirty = FALSE]
        PROVE  \A j \in Keys : ~pair'[j].pend
    BY <1>1, <2>1, <2>3 DEF Pairs
  <2>4. CASE pair' = [k \in Keys |-> NoPair]
    BY <2>4 DEF NoPair
  <2> QED BY <2>2, <2>3, <2>4 DEF Close, toku_cachefile_close
<1>3. \A t \in Clients : BitsOK(th[t])'
  BY <1>1 DEF BitsOK, MoPcs, Synced
<1> QED BY <1>1, <1>2, <1>3, ImageAssembled

\* The checkpoint begins with what the nodes hold: all of those in the table are pending.
LEMMA begin_checkpointImage ==
  ASSUME ControlOK, TreeOK, ImageOK, CacheTableAssumption, begin_checkpoint
  PROVE  ImageOK'
<1>1. /\ cp.ph = "idle" /\ mo = {} /\ UNCHANGED <<th, disk, ev>> /\ ckpt' = disk /\ before' = injected
      /\ pair' = [k \in Keys |-> IF k \in InTable THEN [pair[k] EXCEPT !.pend = TRUE] ELSE pair[k]]
      /\ pair \in [Keys -> Pairs]
  BY ControlParts DEF begin_checkpoint, TypeOK
<1>2. \A k \in Keys : ~pair[k].pend /\ pair[k].pend \in BOOLEAN /\ pair[k].clone = <<>>
  <2>1. NoDangling
    BY NothingDangles
  <2> QED BY <1>1, <2>1 DEF NoDangling, Pairs
<1>3. \A k \in Keys : /\ pair'[k].st = pair[k].st /\ pair'[k].val = pair[k].val
                      /\ pair'[k].clone = <<>> /\ pair'[k].pend = (pair[k].st = "table")
  BY <1>1, <1>2 DEF Pairs, InTable
<1>4. Image' = Now
  <2>1. ASSUME NEW k \in Keys PROVE Image'[k] = Now[k]
    <3>1. InMemory(k)' <=> InMemory(k)
      BY <1>3 DEF InMemory
    <3>2. CASE InMemory(k)
      <4>1. Owed(k)'
        BY <1>3, <3>2 DEF Owed, InMemory
      <4> QED BY <1>3, <3>1, <3>2, <4>1 DEF Image, Now
    <3>3. CASE ~InMemory(k)
      BY <1>1, <1>3, <3>1, <3>3 DEF Image, Now
    <3> QED BY <3>2, <3>3
  <2> QED BY <2>1 DEF Image, Now
<1>5. ASSUME NEW t \in Clients, NEW k \in Keys, Writes(th[t], k) PROVE pair'[k].pend = TRUE
  <2>1. pair[k].st = "table"
    BY <1>5, WrittenThere
  <2> QED BY <1>3, <2>1
<1>6. ImageInFlight' = InFlight
  <2>1. ASSUME NEW t \in Clients PROVE ImageInFlight'[t] = InFlight[t]
    <3>1. ThreadOK(th[t]) /\ th[t].x \in Keys
      BY ThreadParts, ThreadsTyped, ControlParts
    <3>2. th[t].fl # {} => pair'[th[t].x].pend
      BY <1>5, <3>1 DEF ThreadOK, FlPcs, Writes, HasX
    <3> QED BY <1>1, <3>2 DEF ImageInFlight, InFlight
  <2> QED BY <2>1 DEF ImageInFlight, InFlight
<1>7. ASSUME NEW t \in Clients PROVE BitsOK(th[t])'
  <2>1. th[t].pc \notin MoPcs
    BY <1>1, ThreadParts
  <2>2. Synced(th[t]) => HasRoot(th[t]) /\ HasX(th[t])
    BY DEF Synced, HasRoot, HasX, Pinned
  <2>3. th[t].x \in Keys /\ th[t].y \in Keys /\ Root \in Keys
    BY ThreadsTyped, ControlParts DEF Keys
  <2>4. /\ HasRoot(th[t]) => pair'[Root].pend = TRUE
        /\ HasX(th[t]) => pair'[th[t].x].pend = TRUE
        /\ HasY(th[t]) => pair'[th[t].y].pend = TRUE
    BY <1>5, <2>3 DEF Writes
  <2> QED BY <1>1, <2>1, <2>2, <2>4 DEF BitsOK, MoPcs, Synced, HasRoot, HasX, HasY, Pinned
<1>8. PICK d, g, ms : d = Now /\ g = InFlight /\ ms = injected
  OBVIOUS
<1>9. Whole(d) /\ Holds(d, g, ms)
  BY <1>8, TreeParts DEF Tree
<1>10. \A k \in Leaves : \/ ~pair'[k].pend \/ k \in KidsOf(d)
                         \/ \E t \in Clients : Unlinked(th'[t], k)
  BY <1>1, <1>3, <1>8, TreeParts DEF LeafOK, Keys
<1> QED BY <1>1, <1>4, <1>6, <1>7, <1>8, <1>9, <1>10, ImageAssembled

LEMMA BackgroundKeepsImage ==
  ASSUME ControlOK, TreeOK, ImageOK, CacheTableAssumption, Background
  PROVE  ImageOK'
BY begin_checkpointImage, ScheduledImage, ClearPendingImage, write_pairImage,
   checkpoint_cloned_pairImage, cachetable_evicterImage, evict_writeImage, evict_pairImage,
   cachetable_readerImage DEF Background

\* --------------------------------------------------- steps that change nodes

\* A thread that owes nothing to the checkpoint gives other values to the nodes K
\* that it has locked.
Rewritten(t, K) ==
  /\ K \in SUBSET Keys /\ th[t].todo = {} /\ th'[t].todo = {}
  /\ \A u \in Clients : u # t => th'[u] = th[u]
  /\ disk' = disk /\ ckpt' = ckpt /\ ev' = ev /\ cp' = cp /\ before' = before
  /\ pair' \in [Keys -> Pairs]
  /\ \A j \in K : Writes(th[t], j) /\ InMemory(j) /\ pair'[j].val # <<>>
  /\ \A j \in Keys : /\ pair'[j].st = pair[j].st /\ pair'[j].clone = pair[j].clone
                     /\ pair'[j].pend = pair[j].pend
                     /\ j \notin K => pair'[j] = pair[j]

LEMMA RewrittenImage ==
  ASSUME ControlOK, ImageOK, CacheTableAssumption, NEW t \in Clients, NEW K, Rewritten(t, K)
  PROVE  /\ \A j \in Keys : IF j \in K /\ pair[j].pend
                            THEN Image[j] = pair[j].val /\ Image'[j] = pair'[j].val
                            ELSE ImageSteady(j)
         /\ Image' \in [Keys -> Vals]
         /\ \A j \in Keys : pair'[j].pend => ckpt'[j] = disk'[j]
         /\ \A u \in Clients : u # t => ThreadImage(u)
<1>1. \A j \in Keys : InTodo(j)' <=> InTodo(j)
  BY DEF Rewritten, InTodo
<1>2. \A j \in Keys : InMemory(j)' <=> InMemory(j)
  BY DEF Rewritten, InMemory
<1>3. \A j \in Keys : Owed(j)' <=> Owed(j)
  BY <1>1 DEF Rewritten, Owed
<1>4. ASSUME NEW j \in Keys, j \in K PROVE Owed(j) <=> pair[j].pend
  BY <1>4, LockedAlone DEF Owed, Rewritten, InTodo
<1>5. \A j \in Keys : pair'[j].pend => ckpt'[j] = disk'[j]
  BY ImageParts DEF Rewritten
<1>6. ASSUME NEW j \in Keys, j \in K, pair[j].pend
      PROVE  Image[j] = pair[j].val /\ Image'[j] = pair'[j].val
  <2>1. Owed(j) /\ Owed(j)' /\ InMemory(j) /\ InMemory(j)'
    BY <1>2, <1>3, <1>4, <1>6 DEF Rewritten
  <2> QED BY <2>1 DEF Image
<1>7. ASSUME NEW j \in Keys, ~(j \in K /\ pair[j].pend) PROVE ImageSteady(j)
  <2>1. Image'[j] = Image[j]
    <3>1. CASE j \in K
      <4>1. ~Owed(j) /\ ~Owed(j)'
        BY <1>3, <1>4, <1>7, <3>1
      <4> QED BY <4>1 DEF Image, Rewritten
    <3>2. CASE j \notin K
      BY <1>2, <1>3, <3>2 DEF Image, Rewritten
    <3> QED BY <3>1, <3>2
  <2> QED BY <1>5, <2>1 DEF ImageSteady, Rewritten
<1>8. Image' \in [Keys -> Vals]
  <2>1. pair' \in [Keys -> Pairs] /\ ckpt' \in [Keys -> Vals]
    BY ControlParts DEF Rewritten, TypeOK
  <2> QED BY <2>1 DEF Image, Pairs
<1>9. ASSUME NEW u \in Clients, u # t PROVE ThreadImage(u)
  BY <1>9, OthersImage DEF Rewritten
<1> QED BY <1>5, <1>6, <1>7, <1>8, <1>9

\* The nodes are not pending: the change is none of the checkpoint's.
LEMMA CalmImage ==
  ASSUME ControlOK, ImageOK, CacheTableAssumption, NEW t \in Clients, NEW K, Rewritten(t, K),
         \A j \in K : ~pair[j].pend, ThreadImage(t)
  PROVE  ImageOK'
<1>1. \A j \in Keys : ImageSteady(j)
  BY RewrittenImage
<1>2. \A u \in Clients : ThreadImage(u)
  BY RewrittenImage
<1> QED BY <1>1, <1>2, ImageStays DEF Rewritten

\* They are pending: the checkpoint will have the change too.
LEMMA ChangedImage ==
  ASSUME ControlOK, ImageOK, CacheTableAssumption, NEW t \in Clients, cp.ph # "idle",
         \A k \in Keys : pair'[k].pend => pair[k].pend /\ ckpt'[k] = disk'[k],
         \A u \in Clients : u # t => th'[u] = th[u] /\ ThreadImage(u), BitsOK(th[t])', before' = before,
         NEW d, NEW g, Image' = d, ImageInFlight' = g, Tree(d), Holds(d, g, before),
         \A k \in Leaves : pair'[k].pend /\ (k \in KidsOf(Image) \/ Unlinked(th[t], k)) =>
                             k \in KidsOf(d) \/ Unlinked(th'[t], k)
  PROVE  ImageOK'
<1>1. ASSUME NEW k \in Leaves, pair'[k].pend, k \notin KidsOf(d)
      PROVE  \E u \in Clients : Unlinked(th'[u], k)
  <2>1. ImageLeafOK(k) /\ pair[k].pend
    BY <1>1, ImageParts DEF Keys
  <2>2. CASE k \in KidsOf(Image)
    BY <1>1, <2>2
  <2>3. CASE k \notin KidsOf(Image)
    <3>1. PICK u \in Clients : Unlinked(th[u], k)
      BY <2>1, <2>3 DEF ImageLeafOK
    <3>2. CASE u = t
      BY <1>1, <3>1, <3>2
    <3>3. CASE u # t
      BY <3>1, <3>3
    <3> QED BY <3>2, <3>3
  <2> QED BY <2>2, <2>3
<1>2. \A u \in Clients : BitsOK(th[u])'
  BY DEF ThreadImage
<1>3. Whole(d)
  BY DEF Tree
<1>4. \A k \in Keys : pair'[k].pend => ckpt'[k] = disk'[k]
  OBVIOUS
<1>5. /\ Image' = d /\ ImageInFlight' = g /\ Whole(d) /\ Holds(d, g, before')
      /\ \A k \in Leaves : ~pair'[k].pend \/ k \in KidsOf(d) \/ \E u \in Clients : Unlinked(th'[u], k)
  BY <1>1, <1>3
<1> QED BY <1>2, <1>4, <1>5, ImageAssembled

\* A logged message is not of the checkpoint: the root is not pending.
LEMMA InjectImage ==
  ASSUME ControlOK, ImageOK, CacheTableAssumption, NEW t \in Clients, Inject(t)
  PROVE  ImageOK'
<1>1. th[t].pc = "inject_put" /\ th[t].ph = "go" /\ InMemory(Root) /\ Root \in Keys
  BY InjectStep DEF Keys
<1>2. PICK v : Revalued(pair', Root, v) /\ v # <<>>
  <2>1. PICK m \in Tokens \ injected :
          /\ injected' = injected \cup {m}
          /\ Revalued(pair', Root, <<Node(Kids, Toks(Root) \cup {m})>>)
    BY InjectStep
  <2>2. PICK a : a = Node(Kids, Toks(Root) \cup {m})
    OBVIOUS
  <2>3. <<a>> # <<>>
    OBVIOUS
  <2> QED BY <2>1, <2>2, <2>3
<1>3. PICK next, x : /\ next \in {"inject_unpin", "bg_child"}
                     /\ Stepped(th', t, next, "go", th[t].todo, x, th[t].y, th[t].fl,
                                th[t].mod \cup {Root})
  <2>1. PICK next, x : /\ \/ next = "inject_unpin" /\ x = th[t].x
                          \/ next = "bg_child" /\ x \in Kids
                       /\ Stepped(th', t, next, "go", th[t].todo, x, th[t].y, th[t].fl,
                                  th[t].mod \cup {Root})
    BY InjectStep
  <2> QED BY <2>1
<1>4. BitsOK(th[t]) /\ th[t].todo = {} /\ th[t].fl = {} /\ \A k \in Leaves : ~Unlinked(th[t], k)
  BY <1>1, BitsOf0 DEF ThreadOK, FlPcs, Unlinked
<1>5. PICK K : K = {Root}
  OBVIOUS
<1>6. Rewritten(t, K)
  <2>1. UNCHANGED <<disk, ckpt, ev, cp, before>>
    BY DEF Inject, OnlyNodes
  <2>2. Writes(th[t], Root)
    BY <1>1 DEF Writes, HasRoot
  <2> QED BY <1>1, <1>2, <1>3, <1>4, <1>5, <2>1, <2>2 DEF Rewritten, Revalued, Stepped
<1>7. ~pair[Root].pend
  BY <1>1, <1>4 DEF BitsOK, HasRoot, MoPcs
<1>8. ThreadImage(t)
  <2>1. ~pair'[Root].pend
    BY <1>1, <1>6, <1>7 DEF Rewritten
  <2>2. BitsOK(th[t])'
    BY <1>3, <2>1 DEF BitsOK, Stepped, HasX, Pinned, Synced
  <2> QED BY <1>3, <1>4, <2>2, OwnImage
<1> QED BY <1>5, <1>6, <1>7, <1>8, CalmImage

LEMMA DetachImage ==
  ASSUME ControlOK, TreeOK, ImageOK, CacheTableAssumption, NEW t \in Clients, Detaches(t)
  PROVE  ImageOK'
<1>1. PICK pc, next : /\ pc \in {"bg_detach", "flush_detach"} /\ ContentIs(pc, next)
                      /\ At(t, pc) /\ Detach(t, next)
  BY DEF Detaches
<1>2. PICK x : x = th[t].x
  OBVIOUS
<1>3. /\ th[t].pc = pc /\ th[t].ph = "go" /\ InMemory(Root) /\ Root \in Keys
      /\ Revalued(pair', Root, <<Node(Kids, {})>>)
      /\ Stepped(th', t, next, "go", th[t].todo, x, th[t].y, Toks(Root), th[t].mod \cup {Root})
  BY <1>1, <1>2, DetachStep DEF Keys
<1>4. /\ BitsOK(th[t]) /\ th[t].todo = {} /\ th[t].fl = {} /\ x \in Keys
      /\ \A k \in Leaves : ~Unlinked(th[t], k)
  BY <1>1, <1>2, <1>3, BitsOf0 DEF ThreadOK, FlPcs, Unlinked
<1>5. PICK K : K = {Root}
  OBVIOUS
<1>6. Rewritten(t, K)
  <2>1. UNCHANGED <<disk, ckpt, ev, cp, before>>
    BY <1>1 DEF Detach, OnlyNodes
  <2>2. Writes(th[t], Root)
    BY <1>1, <1>3 DEF Writes, HasRoot
  <2>3. PICK a : a = Node(Kids, {})
    OBVIOUS
  <2>4. <<a>> # <<>>
    OBVIOUS
  <2>5. pair'[Root].val # <<>>
    BY <1>3, <2>3, <2>4 DEF Revalued
  <2> QED BY <1>3, <1>4, <1>5, <2>1, <2>2, <2>5 DEF Rewritten, Revalued, Stepped
<1>7. pair[Root].pend = pair[x].pend /\ pair'[Root].pend = pair[Root].pend /\ pair'[x].pend = pair[x].pend
      /\ pair[x].pend \in BOOLEAN
  BY <1>1, <1>2, <1>3, <1>4, <1>6, ControlParts DEF BitsOK, Synced, Rewritten, TypeOK, Pairs
<1>8. BitsOK(th[t])'
  <2>1. /\ next \in {"bg_unpin", "flush_unpin", "flush_give_both"}
        /\ next = "bg_unpin" => th[t].pc = "bg_detach"
    BY <1>1, <1>3 DEF ContentIs
  <2>2. th[t].pc = "bg_detach" => ~pair'[Root].pend /\ ~pair'[x].pend
    BY <1>2, <1>3, <1>4, <1>7 DEF BitsOK, HasRoot, HasX, MoPcs
  <2> QED BY <1>3, <2>1, <2>2 DEF BitsOK, Stepped, Synced, MoPcs
<1>9. CASE ~pair[x].pend
  <2>1. ImageInFlight'[t] = ImageInFlight[t]
    BY <1>2, <1>3, <1>4, <1>7, <1>9 DEF ImageInFlight, Stepped
  <2>2. ThreadImage(t)
    BY <1>4, <1>8, <2>1 DEF ThreadImage
  <2> QED BY <1>5, <1>6, <1>7, <1>9, <2>2, CalmImage
<1>10. CASE pair[x].pend
  <2>1. /\ Image[Root] = pair[Root].val /\ Image'[Root] = <<Node(Kids, {})>>
        /\ \A j \in Keys : j # Root => Image'[j] = Image[j]
        /\ \A j \in Keys : pair'[j].pend => pair[j].pend /\ ckpt'[j] = disk'[j]
        /\ \A u \in Clients : u # t => th'[u] = th[u] /\ ThreadImage(u)
        /\ Image' \in [Keys -> Vals]
    <3>1. pair'[Root].val = <<Node(Kids, {})>>
      BY <1>3 DEF Revalued
    <3>2. /\ \A j \in Keys : IF j \in K /\ pair[j].pend
                             THEN Image[j] = pair[j].val /\ Image'[j] = pair'[j].val
                             ELSE ImageSteady(j)
          /\ Image' \in [Keys -> Vals] /\ \A j \in Keys : pair'[j].pend => ckpt'[j] = disk'[j]
          /\ \A u \in Clients : u # t => ThreadImage(u)
      BY <1>6, RewrittenImage
    <3>3. \A j \in Keys : j # Root => Image'[j] = Image[j]
      BY <1>5, <3>2 DEF ImageSteady
    <3> QED BY <1>3, <1>5, <1>6, <1>7, <1>10, <3>1, <3>2, <3>3 DEF Rewritten
  <2>2. cp.ph # "idle"
    BY <1>4, <1>10, OwedParts DEF Owed
  <2>3. PICK c, d, f, g, ms : /\ c = Image /\ d = Image' /\ f = ImageInFlight /\ g = ImageInFlight'
                              /\ ms = before
    OBVIOUS
  <2>4. KidsOf(c) = Kids /\ c[Root][1].toks = Toks(Root)
    BY <2>1, <2>3 DEF KidsOf, Kids, Val, Toks
  <2>5. f[t] = {} /\ g[t] = Toks(Root) /\ \A u \in Clients : u # t => g[u] = f[u]
    <3>1. f[t] = {}
      BY <1>4, <2>3 DEF ImageInFlight
    <3>2. g[t] = Toks(Root)
      BY <1>3, <1>7, <1>10, <2>3 DEF ImageInFlight, Stepped
    <3> QED BY <2>1, <2>3, <3>1, <3>2 DEF ThreadImage
  <2>6. Taken(c, d, f, g, t)
    BY <2>1, <2>3, <2>4, <2>5 DEF Taken
  <2>7. Tree(d) /\ KidsOf(d) = KidsOf(c) /\ Holds(d, g, ms)
    <3>1. Tree(c) /\ Holds(c, f, ms)
      BY <2>2, <2>3, ImageParts
    <3> QED BY <2>6, <3>1, TreeTaken
  <2>8. before' = before
    BY <1>6 DEF Rewritten
  <2> QED BY <1>4, <1>8, <2>1, <2>2, <2>3, <2>7, <2>8, ChangedImage
<1> QED BY <1>9, <1>10

\* The messages arrive at a leaf that is as pending as it was when they left the root.
LEMMA FlushImage ==
  ASSUME ControlOK, TreeOK, ImageOK, CacheTableAssumption, NEW t \in Clients, Flushes(t)
  PROVE  ImageOK'
<1>1. PICK pc, next : /\ pc \in {"flush_give", "flush_give_both"} /\ ContentIs(pc, next)
                      /\ At(t, pc) /\ flush_to_child(t, next)
  BY DEF Flushes
<1>2. PICK x, v : x = th[t].x /\ v = <<Node(Val(x).kids, Toks(x) \cup th[t].fl)>>
  OBVIOUS
<1>3. /\ th[t].pc = pc /\ th[t].ph = "go" /\ InMemory(x) /\ x \in Leaves /\ x \in Keys
      /\ Writes(th[t], x) /\ Revalued(pair', x, v)
      /\ Stepped(th', t, next, "go", th[t].todo, x, th[t].y, {}, th[t].mod \cup {x})
  BY <1>1, <1>2, FlushToChildStep DEF Keys
<1>4. th[t].todo = {} /\ \A k : ~Unlinked(th[t], k)
  BY <1>1, <1>3, BitsOf0 DEF ThreadOK, Unlinked
<1>5. v # <<>> /\ v[1].toks = Toks(x) \cup th[t].fl
  <2>1. PICK a : a = Node(Val(x).kids, Toks(x) \cup th[t].fl)
    OBVIOUS
  <2>2. v = <<a>> /\ a.toks = Toks(x) \cup th[t].fl
    BY <1>2, <2>1 DEF Node
  <2> QED BY <2>2
<1>6. PICK K : K = {x}
  OBVIOUS
<1>7. Rewritten(t, K)
  <2>1. UNCHANGED <<disk, ckpt, ev, cp, before>>
    BY <1>1 DEF flush_to_child, OnlyNodes
  <2> QED BY <1>3, <1>4, <1>5, <1>6, <2>1 DEF Rewritten, Revalued, Stepped
<1>8. pair'[x].pend = pair[x].pend
  BY <1>3, <1>7 DEF Rewritten
<1>9. BitsOK(th[t])'
  BY <1>1, <1>3 DEF ContentIs, BitsOK, Stepped, Synced, MoPcs
<1>10. CASE ~pair[x].pend
  <2>1. ImageInFlight'[t] = ImageInFlight[t]
    BY <1>2, <1>3, <1>8, <1>10 DEF ImageInFlight, Stepped
  <2>2. ThreadImage(t)
    BY <1>4, <1>9, <2>1 DEF ThreadImage
  <2> QED BY <1>6, <1>7, <1>10, <2>2, CalmImage
<1>11. CASE pair[x].pend
  <2>1. /\ Image[x] = pair[x].val /\ Image'[x] = v
        /\ \A j \in Keys : j # x => Image'[j] = Image[j]
        /\ \A j \in Keys : pair'[j].pend => pair[j].pend /\ ckpt'[j] = disk'[j]
        /\ \A u \in Clients : u # t => th'[u] = th[u] /\ ThreadImage(u)
        /\ Image' \in [Keys -> Vals]
    <3>1. pair'[x].val = v
      BY <1>3 DEF Revalued
    <3>2. /\ \A j \in Keys : IF j \in K /\ pair[j].pend
                             THEN Image[j] = pair[j].val /\ Image'[j] = pair'[j].val
                             ELSE ImageSteady(j)
          /\ Image' \in [Keys -> Vals] /\ \A j \in Keys : pair'[j].pend => ckpt'[j] = disk'[j]
          /\ \A u \in Clients : u # t => ThreadImage(u)
      BY <1>7, RewrittenImage
    <3>3. \A j \in Keys : j # x => Image'[j] = Image[j]
      BY <1>6, <3>2 DEF ImageSteady
    <3> QED BY <1>3, <1>6, <1>7, <1>11, <3>1, <3>2, <3>3 DEF Rewritten
  <2>2. cp.ph # "idle"
    BY <1>3, <1>11, OwedParts DEF Owed
  <2>3. PICK c, d, f, g, ms : /\ c = Image /\ d = Image' /\ f = ImageInFlight /\ g = ImageInFlight'
                              /\ ms = before
    OBVIOUS
  <2>4. x \in KidsOf(c)
    <3>1. ASSUME NEW u \in Clients, Unlinked(th[u], x) PROVE FALSE
      <4>1. Writes(th[u], x)
        BY <1>3, <3>1, LinksHeld, ThreadParts
      <4>2. u = t
        BY <1>3, <4>1, LockedAlone
      <4> QED BY <1>4, <3>1, <4>2
    <3> QED BY <1>3, <1>11, <2>2, <2>3, <3>1, ImageParts DEF ImageLeafOK
  <2>5. f[t] = th[t].fl /\ g[t] = {} /\ \A u \in Clients : u # t => g[u] = f[u]
    <3>1. f[t] = th[t].fl
      BY <1>2, <1>11, <2>3 DEF ImageInFlight
    <3>2. g[t] = {}
      BY <1>3, <2>3 DEF ImageInFlight, Stepped
    <3> QED BY <2>1, <2>3, <3>1, <3>2 DEF ThreadImage
  <2>6. Given(c, d, f, g, t, x)
    <3>1. c[x][1].toks = Toks(x)
      BY <2>1, <2>3 DEF Toks, Val
    <3> QED BY <1>5, <2>1, <2>3, <2>4, <2>5, <3>1 DEF Given
  <2>7. Tree(d) /\ KidsOf(d) = KidsOf(c) /\ Holds(d, g, ms)
    <3>1. Tree(c) /\ Holds(c, f, ms)
      BY <2>2, <2>3, ImageParts
    <3> QED BY <2>6, <3>1, TreeGiven
  <2>8. before' = before
    BY <1>7 DEF Rewritten
  <2> QED BY <1>4, <1>9, <2>1, <2>2, <2>3, <2>7, <2>8, ChangedImage
<1> QED BY <1>10, <1>11

\* The three nodes of a split are pending together or not at all.
LEMMA SplitDoImage ==
  ASSUME ControlOK, TreeOK, ImageOK, CacheTableAssumption, NEW t \in Clients, SplitDo(t)
  PROVE  ImageOK'
<1>1. PICK x, y : x = th[t].x /\ y = th[t].y
  OBVIOUS
<1>2. PICK ts \in SUBSET Toks(x) :
        Revalued3(pair', x, <<Node(Val(x).kids, Toks(x) \ ts)>>, y, <<Node(Val(y).kids, ts)>>,
                  Root, <<Node(Kids \cup {y}, Toks(Root))>>)
  BY <1>1, SplitDoStep
<1>3. /\ th[t].pc = "split_do" /\ th[t].ph = "go"
      /\ Stepped(th', t, "split_unpin", "go", th[t].todo, x, y, th[t].fl, th[t].mod \cup {Root, x, y})
  BY <1>1, SplitDoStep
<1>4. /\ x \in Leaves /\ y \in Leaves /\ x # y /\ x \in Keys /\ y \in Keys /\ Root \in Keys
      /\ Writes(th[t], x) /\ Writes(th[t], y) /\ Writes(th[t], Root)
      /\ InMemory(x) /\ InMemory(y) /\ InMemory(Root)
  BY <1>1, <1>3, ThreeLocked
<1>5. BitsOK(th[t]) /\ th[t].todo = {} /\ th[t].fl = {}
  BY <1>3, BitsOf0 DEF ThreadOK, FlPcs
<1>6. PICK u, v, w : /\ u = <<Node(Val(x).kids, Toks(x) \ ts)>> /\ v = <<Node(Val(y).kids, ts)>>
                     /\ w = <<Node(Kids \cup {y}, Toks(Root))>>
  OBVIOUS
<1>7. /\ u # <<>> /\ u[1].toks = Toks(x) \ ts /\ v # <<>> /\ v[1].toks = ts /\ w # <<>>
  <2>1. PICK a, b, c : /\ a = Node(Val(x).kids, Toks(x) \ ts) /\ b = Node(Val(y).kids, ts)
                       /\ c = Node(Kids \cup {y}, Toks(Root))
    OBVIOUS
  <2>2. u = <<a>> /\ v = <<b>> /\ w = <<c>>
    BY <1>6, <2>1
  <2>3. a.toks = Toks(x) \ ts /\ b.toks = ts
    BY <2>1 DEF Node
  <2> QED BY <2>2, <2>3
<1>8. PICK K : K = {Root, x, y}
  OBVIOUS
<1>9. pair'[x].val = u /\ pair'[y].val = v /\ pair'[Root].val = w
  BY <1>2, <1>6 DEF Revalued3
<1>10. Rewritten(t, K)
  <2>1. UNCHANGED <<disk, ckpt, ev, cp, before>>
    BY DEF SplitDo, OnlyNodes
  <2> QED BY <1>2, <1>3, <1>4, <1>5, <1>7, <1>8, <1>9, <2>1 DEF Rewritten, Revalued3, Stepped
<1>11. /\ pair[Root].pend = pair[x].pend /\ pair[Root].pend = pair[y].pend /\ pair[y].pend \in BOOLEAN
       /\ \A k \in Keys : pair'[k].pend = pair[k].pend
  BY <1>1, <1>3, <1>4, <1>5, <1>10, ControlParts DEF BitsOK, Synced, HasY, Rewritten, TypeOK, Pairs
<1>12. BitsOK(th[t])'
  BY <1>3 DEF BitsOK, Stepped, Synced, MoPcs
<1>13. ImageInFlight'[t] = ImageInFlight[t]
  BY <1>3, <1>5 DEF ImageInFlight, Stepped
<1>14. \A k \in Leaves : Unlinked(th[t], k) => k = y
  BY <1>1 DEF Unlinked
<1>15. CASE ~pair[y].pend
  <2>1. pair'[y].pend = FALSE /\ pair[Root].pend = FALSE /\ pair[x].pend = FALSE /\ pair[y].pend = FALSE
    BY <1>4, <1>11, <1>15
  <2>2. \A k \in Leaves : ~(pair'[k].pend /\ Unlinked(th[t], k))
    BY <1>14, <2>1
  <2>3. ThreadImage(t)
    BY <1>12, <1>13, <2>2 DEF ThreadImage
  <2>4. \A j \in K : ~pair[j].pend
    BY <1>8, <2>1
  <2> QED BY <1>10, <2>3, <2>4, CalmImage
<1>16. CASE pair[y].pend
  <2>1. /\ \A j \in Keys : IF j \in K /\ pair[j].pend
                           THEN Image[j] = pair[j].val /\ Image'[j] = pair'[j].val
                           ELSE ImageSteady(j)
        /\ Image' \in [Keys -> Vals] /\ \A j \in Keys : pair'[j].pend => ckpt'[j] = disk'[j]
        /\ \A z \in Clients : z # t => ThreadImage(z)
    BY <1>10, RewrittenImage
  <2>2. /\ Image[Root] = pair[Root].val /\ Image[x] = pair[x].val
        /\ Image'[Root] = w /\ Image'[x] = u /\ Image'[y] = v
    BY <1>4, <1>8, <1>9, <1>11, <1>16, <2>1
  <2>3. \A j \in Keys : j # x /\ j # y /\ j # Root => Image'[j] = Image[j]
    BY <1>8, <2>1 DEF ImageSteady
  <2>4. cp.ph # "idle"
    BY <1>4, <1>16, OwedParts DEF Owed
  <2>5. PICK c, d, f, ms : c = Image /\ d = Image' /\ f = ImageInFlight /\ ms = before
    OBVIOUS
  <2>6. KidsOf(c) = Kids /\ c[Root][1].toks = Toks(Root) /\ c[x][1].toks = Toks(x)
    BY <2>2, <2>5 DEF KidsOf, Kids, Val, Toks
  <2>7. x \in Kids /\ y \notin Kids
    <3>1. Kids = KidsOf(Now)
      BY <1>4, KidsNow
    <3> QED BY <1>1, <1>3, <1>4, <3>1, LinksOf DEF LinksOK, KidX, HasX, Unlinked
  <2>8. SplitInto(c, d, x, y, ts)
    BY <1>2, <1>4, <1>6, <1>7, <2>1, <2>2, <2>3, <2>5, <2>6, <2>7 DEF SplitInto
  <2>9. Tree(d) /\ KidsOf(d) = KidsOf(c) \cup {y} /\ Holds(d, f, ms)
    <3>1. Tree(c) /\ Holds(c, f, ms)
      BY <2>4, <2>5, ImageParts
    <3> QED BY <2>8, <3>1, TreeSplit
  <2>10. ImageInFlight' = f /\ before' = before
    BY <1>10, <1>13, <2>1, <2>5 DEF ThreadImage, ImageInFlight, Rewritten
  <2>11. \A z \in Clients : z # t => th'[z] = th[z] /\ ThreadImage(z)
    BY <1>10, <2>1 DEF Rewritten
  <2>12. \A k \in Leaves : k \in KidsOf(Image) \/ Unlinked(th[t], k) => k \in KidsOf(d)
    BY <1>14, <2>5, <2>9
  <2> QED BY <1>11, <1>12, <2>1, <2>4, <2>5, <2>9, <2>10, <2>11, <2>12, ChangedImage
<1> QED BY <1>15, <1>16

\* So are those of a merge; the second leaf is linked by nobody until it is removed.
LEMMA MergeDoImage ==
  ASSUME ControlOK, TreeOK, ImageOK, CacheTableAssumption, NEW t \in Clients, MergeDo(t)
  PROVE  ImageOK'
<1>1. PICK x, y : x = th[t].x /\ y = th[t].y
  OBVIOUS
<1>2. PICK u, w : /\ u = <<Node(Val(x).kids, Toks(x) \cup Toks(y) \cup Toks(Root))>>
                  /\ w = <<Node(Kids \ {y}, {})>>
  OBVIOUS
<1>3. /\ th[t].pc = "merge_do" /\ th[t].ph = "go"
      /\ Revalued3(pair', x, u, x, u, Root, w)
      /\ Stepped(th', t, "merge_remove", "go", th[t].todo, x, y, th[t].fl, th[t].mod \cup {Root, x, y})
  BY <1>1, <1>2, MergeDoStep
<1>4. /\ x \in Leaves /\ y \in Leaves /\ x # y /\ x \in Keys /\ y \in Keys /\ Root \in Keys
      /\ Writes(th[t], x) /\ Writes(th[t], y) /\ Writes(th[t], Root)
      /\ InMemory(x) /\ InMemory(y) /\ InMemory(Root)
  BY <1>1, <1>3, ThreeLocked
<1>5. BitsOK(th[t]) /\ th[t].todo = {} /\ th[t].fl = {}
  BY <1>3, BitsOf0 DEF ThreadOK, FlPcs
<1>6. u # <<>> /\ u[1].toks = Toks(x) \cup Toks(y) \cup Toks(Root) /\ w # <<>>
  <2>1. PICK a, c : /\ a = Node(Val(x).kids, Toks(x) \cup Toks(y) \cup Toks(Root))
                    /\ c = Node(Kids \ {y}, {})
    OBVIOUS
  <2>2. u = <<a>> /\ w = <<c>>
    BY <1>2, <2>1
  <2>3. a.toks = Toks(x) \cup Toks(y) \cup Toks(Root)
    BY <2>1 DEF Node
  <2> QED BY <2>2, <2>3
<1>7. PICK K : K = {Root, x}
  OBVIOUS
<1>8. pair'[x].val = u /\ pair'[Root].val = w
  BY <1>3 DEF Revalued3
<1>9. Rewritten(t, K)
  <2>1. UNCHANGED <<disk, ckpt, ev, cp, before>>
    BY DEF MergeDo, OnlyNodes
  <2> QED BY <1>3, <1>4, <1>5, <1>6, <1>7, <1>8, <2>1 DEF Rewritten, Revalued3, Stepped
<1>10. /\ pair[Root].pend = pair[x].pend /\ pair[Root].pend = pair[y].pend /\ pair[y].pend \in BOOLEAN
       /\ \A k \in Keys : pair'[k].pend = pair[k].pend
  BY <1>1, <1>3, <1>4, <1>5, <1>9, ControlParts DEF BitsOK, Synced, HasY, Rewritten, TypeOK, Pairs
<1>11. BitsOK(th[t])' /\ Unlinked(th'[t], y)
  <2>1. pair'[Root].pend = pair'[x].pend /\ pair'[Root].pend = pair'[y].pend
    BY <1>4, <1>10
  <2> QED BY <1>3, <2>1 DEF BitsOK, Stepped, Unlinked, MoPcs
<1>12. ImageInFlight'[t] = ImageInFlight[t]
  BY <1>3, <1>5 DEF ImageInFlight, Stepped
<1>13. \A k : ~Unlinked(th[t], k)
  BY <1>3 DEF Unlinked
<1>14. CASE ~pair[y].pend
  <2>1. ThreadImage(t)
    BY <1>11, <1>12, <1>13 DEF ThreadImage
  <2>2. \A j \in K : ~pair[j].pend
    BY <1>7, <1>10, <1>14
  <2> QED BY <1>9, <2>1, <2>2, CalmImage
<1>15. CASE pair[y].pend
  <2>1. /\ \A j \in Keys : IF j \in K /\ pair[j].pend
                           THEN Image[j] = pair[j].val /\ Image'[j] = pair'[j].val
                           ELSE ImageSteady(j)
        /\ Image' \in [Keys -> Vals] /\ \A j \in Keys : pair'[j].pend => ckpt'[j] = disk'[j]
        /\ \A z \in Clients : z # t => ThreadImage(z)
    BY <1>9, RewrittenImage
  <2>2. /\ Image[Root] = pair[Root].val /\ Image[x] = pair[x].val
        /\ Image'[Root] = w /\ Image'[x] = u
    BY <1>4, <1>7, <1>8, <1>10, <1>15, <2>1
  <2>3. \A j \in Keys : j # x /\ j # Root => Image'[j] = Image[j]
    BY <1>7, <2>1 DEF ImageSteady
  <2>4. cp.ph # "idle" /\ Image[y] = pair[y].val
    BY <1>4, <1>15, OwedParts DEF Owed, Image
  <2>5. PICK c, d, f, ms : c = Image /\ d = Image' /\ f = ImageInFlight /\ ms = before
    OBVIOUS
  <2>6. /\ KidsOf(c) = Kids /\ c[Root][1].toks = Toks(Root) /\ c[x][1].toks = Toks(x)
        /\ c[y][1].toks = Toks(y)
    BY <2>2, <2>4, <2>5 DEF KidsOf, Kids, Val, Toks
  <2>7. x \in Kids /\ y \in Kids
    <3>1. Kids = KidsOf(Now)
      BY <1>4, KidsNow
    <3> QED BY <1>1, <1>3, <1>4, <3>1, LinksOf DEF LinksOK, KidX, KidY, HasX
  <2>8. MergedInto(c, d, x, y)
    BY <1>2, <1>4, <1>6, <2>1, <2>2, <2>3, <2>5, <2>6, <2>7 DEF MergedInto
  <2>9. Tree(d) /\ KidsOf(d) = KidsOf(c) \ {y} /\ Holds(d, f, ms)
    <3>1. Tree(c) /\ Holds(c, f, ms)
      BY <2>4, <2>5, ImageParts
    <3> QED BY <2>8, <3>1, TreeMerged
  <2>10. ImageInFlight' = f /\ before' = before
    BY <1>9, <1>12, <2>1, <2>5 DEF ThreadImage, ImageInFlight, Rewritten
  <2>11. \A z \in Clients : z # t => th'[z] = th[z] /\ ThreadImage(z)
    BY <1>9, <2>1 DEF Rewritten
  <2>12. \A k \in Leaves : k \in KidsOf(Image) \/ Unlinked(th[t], k) =>
                             k \in KidsOf(d) \/ Unlinked(th'[t], k)
    BY <1>11, <1>13, <2>5, <2>9
  <2> QED BY <1>10, <1>11, <2>1, <2>4, <2>5, <2>9, <2>10, <2>11, <2>12, ChangedImage
<1> QED BY <1>14, <1>15

\* The leaf that goes is no child in what the checkpoint has either, if that wants it.
LEMMA unpin_and_removeImage ==
  ASSUME ControlOK, TreeOK, ImageOK, CacheTableAssumption, NEW t \in Clients, unpin_and_remove(t)
  PROVE  ImageOK'
<1>1. PICK x, y : x = th[t].x /\ y = th[t].y
  OBVIOUS
<1>2. /\ th[t].pc = "merge_remove" /\ th[t].ph = "go" /\ dm[y] = "free"
      /\ y \in Keys /\ y \in Leaves /\ y # x /\ Writes(th[t], y)
      /\ pair' \in [Keys -> Pairs] /\ \A j \in Keys : j # y => pair'[j] = pair[j]
      /\ pair'[y].st = "removed" /\ pair'[y].pend = FALSE /\ pair'[y].clone = pair[y].clone
      /\ disk' = [disk EXCEPT ![y] = <<>>]
      /\ ckpt' = (IF pair[y].pend THEN [ckpt EXCEPT ![y] = <<>>] ELSE ckpt)
      /\ ckpt' \in [Keys -> Vals]
      /\ Stepped(th', t, "merge_remove", "leave", th[t].todo, x, y, th[t].fl, th[t].mod \ {y})
  BY <1>1, unpin_and_removeStep
<1>3. /\ ev' = ev /\ cp' = cp /\ before' = before /\ disk \in [Keys -> Vals] /\ ckpt \in [Keys -> Vals]
      /\ pair \in [Keys -> Pairs]
  BY ControlParts DEF unpin_and_remove, history, TypeOK
<1>4. \A j \in Keys : j # y => disk'[j] = disk[j] /\ ckpt'[j] = ckpt[j]
  BY <1>2, <1>3
<1>5. /\ BitsOK(th[t]) /\ th[t].todo = {} /\ th[t].fl = {}
      /\ \A u \in Clients : u # t => th'[u] = th[u]
      /\ \A k : Unlinked(th[t], k) => k = y
  BY <1>1, <1>2, BitsOf0 DEF ThreadOK, FlPcs, Stepped, Unlinked
<1>6. \A j \in Keys : InTodo(j)' <=> InTodo(j)
  BY <1>2 DEF InTodo, Stepped
<1>7. ASSUME NEW j \in Keys, j # y PROVE ImageSteady(j)
  BY <1>2, <1>3, <1>4, <1>6, <1>7, KeyImage
<1>8. ASSUME NEW u \in Clients, u # t PROVE ThreadImage(u)
  <2>1. ~Writes(th[u], y)
    BY <1>2, <1>8, LockedAlone
  <2>2. \A k \in Keys : Writes(th[u], k) => pair'[k].pend = pair[k].pend
    BY <1>2, <2>1
  <2> QED BY <1>5, <1>8, <2>2, OthersImage
<1>9. BitsOK(th[t])'
  BY <1>2 DEF BitsOK, Stepped, Synced, MoPcs
<1>10. ImageInFlight'[t] = ImageInFlight[t]
  BY <1>2, <1>5 DEF ImageInFlight, Stepped
<1>11. Image'[y] = ckpt'[y] /\ pair[y].clone = <<>>
  <2>1. pair[y].clone = <<>>
    BY <1>2, PairParts DEF PairOK, PairClone
  <2> QED BY <1>2, <2>1 DEF Image, InMemory
<1>12. CASE ~pair[y].pend
  <2>1. ~Owed(y)
    BY <1>2, <1>5, <1>12, LockedAlone DEF Owed, InTodo
  <2>2. Image[y] = ckpt[y] /\ ckpt'[y] = ckpt[y]
    BY <1>2, <1>11, <1>12, <2>1 DEF Image
  <2>3. ImageSteady(y)
    BY <1>2, <1>11, <2>2 DEF ImageSteady
  <2>4. \A j \in Keys : ImageSteady(j)
    BY <1>7, <2>3
  <2>5. ThreadImage(t)
    BY <1>2, <1>5, <1>9, <1>10 DEF ThreadImage
  <2>6. \A u \in Clients : ThreadImage(u)
    BY <1>8, <2>5
  <2> QED BY <1>3, <2>4, <2>6, ImageStays
<1>13. CASE pair[y].pend
  <2>1. Image'[y] = <<>>
    BY <1>2, <1>3, <1>11, <1>13
  <2>2. cp.ph # "idle"
    BY <1>2, <1>13, OwedParts DEF Owed
  <2>3. Root \in Keys /\ Writes(th[t], Root) /\ ~Fetches(th[t], Root)
    BY <1>2 DEF Keys, Writes, HasRoot, Fetches
  <2>4. InMemory(Root) /\ pair[Root].pend
    <3>1. pair[Root].pend = pair[y].pend
      BY <1>1, <1>2, <1>5 DEF BitsOK, Synced, HasY
    <3> QED BY <1>13, <2>3, <3>1, WrittenThere
  <2>5. Image[Root] = Now[Root]
    BY <2>3, <2>4 DEF Image, Now, Owed
  <2>6. PICK c, d, f, ms : c = Image /\ d = Image' /\ f = ImageInFlight /\ ms = before
    OBVIOUS
  <2>7. y \notin KidsOf(c)
    <3>1. y \notin KidsOf(Now)
      BY <1>1, <1>2, LinksOf DEF LinksOK, Unlinked
    <3> QED BY <2>5, <2>6, <3>1 DEF KidsOf
  <2>8. Tree(d) /\ KidsOf(d) = KidsOf(c) /\ Holds(d, f, ms)
    <3>1. Tree(c) /\ Holds(c, f, ms)
      BY <2>2, <2>6, ImageParts
    <3>2. d \in [Keys -> Vals] /\ \A j \in Keys : j # y => d[j] = c[j]
      <4>1. Image' \in [Keys -> Vals]
        BY <1>2 DEF Image, Pairs
      <4> QED BY <1>7, <2>6, <4>1 DEF ImageSteady
    <3> QED BY <1>2, <2>7, <3>1, <3>2, TreeUnlinked
  <2>9. ImageInFlight' = f
    BY <1>8, <1>10, <2>6 DEF ThreadImage, ImageInFlight
  <2>10. \A k \in Keys : pair'[k].pend => k # y /\ pair[k].pend /\ ckpt'[k] = disk'[k]
    BY <1>2, <1>7 DEF ImageSteady
  <2>11. \A k \in Leaves : pair'[k].pend /\ (k \in KidsOf(Image) \/ Unlinked(th[t], k)) => k \in KidsOf(d)
    BY <1>5, <2>6, <2>8, <2>10 DEF Keys
  <2> QED BY <1>3, <1>5, <1>8, <1>9, <2>2, <2>6, <2>8, <2>9, <2>10, <2>11, ChangedImage
<1> QED BY <1>12, <1>13

LEMMA PinStepKeepsImage ==
  ASSUME ControlOK, TreeOK, ImageOK, CacheTableAssumption, NEW t \in Clients, PinStep(t)
  PROVE  ImageOK'
BY get_and_pinImage, try_pin_pairImage, get_checkpoint_pendingImage, write_lockedImage,
   cachetable_insert_atImage, cachetable_fetch_pairImage, put_with_dep_pairsImage,
   maybe_get_and_pin_cleanImage, get_and_pin_nonblockingImage, FetchAgainImage,
   maybe_pin_pairImage, unpin_and_removeImage, FreeRemovedImage DEF PinStep

LEMMA OperationKeepsImage ==
  ASSUME ControlOK, TreeOK, ImageOK, CacheTableAssumption, NEW t \in Clients, Operation(t)
  PROVE  ImageOK'
BY OperationCases, StartImage, MultiOpImage, InjectImage, UnpinsImage, DetachImage, FlushImage,
   PicksImage, SplitDoImage, MergeUnpinImage, MergeDoImage, run_cleanerImage,
   toku_cachefile_prefetchImage

LEMMA NextKeepsImage ==
  ASSUME ControlOK, TreeOK, ImageOK, CacheTableAssumption, [Next]_vars
  PROVE  ImageOK'
<1>1. ASSUME UNCHANGED vars PROVE ImageOK'
  <2>1. UNCHANGED <<pair, disk, ckpt, th, before, cp, ev>>
    BY <1>1 DEF vars
  <2> QED BY <2>1, SamePairsImage
<1> QED BY <1>1, PinStepKeepsImage, OperationKeepsImage, BackgroundKeepsImage, CloseImage
        DEF Next, Done

LEMMA InitImage ==
  ASSUME Init, CacheTableAssumption
  PROVE  ImageOK
<1>1. PICK w \in Works : th = [t \in Clients |-> [Thread EXCEPT !.work = w.ops[t]]]
  BY DEF Init
<1>2. cp.ph = "idle" /\ \A k \in Keys : ~pair[k].pend
  BY DEF Init, NoPair
<1>3. ASSUME NEW t \in Clients PROVE BitsOK(th[t])
  <2>1. th[t].pc = "idle"
    BY <1>1 DEF Thread
  <2> QED BY <2>1 DEF BitsOK, MoPcs, Synced
<1> QED BY <1>2, <1>3 DEF ImageOK

\* ------------------------------------------ what the image is when it is done

\* Nothing is owed to a checkpoint that is done: its image is what it has on disk.
LEMMA DoneImage ==
  ASSUME ControlOK, CacheTableAssumption, cp.ph = "done"
  PROVE  Image = ckpt /\ \A t \in Clients : ImageInFlight[t] = {}
<1>1. ASSUME NEW k \in Keys PROVE ~Owed(k) /\ pair[k].clone = <<>>
  BY <1>1, OwedParts, NothingDangles DEF NoDangling
<1>2. ckpt \in [Keys -> Vals] /\ th \in [Clients -> Threads]
  BY ControlParts DEF TypeOK
<1>3. Image = ckpt
  BY <1>1, <1>2 DEF Image
<1>4. ASSUME NEW t \in Clients PROVE ImageInFlight[t] = {}
  <2>1. th[t].x \in Keys
    BY <1>2 DEF Threads
  <2>2. ~pair[th[t].x].pend
    BY <1>1, <2>1 DEF Owed
  <2> QED BY <2>2 DEF ImageInFlight
<1> QED BY <1>3, <1>4

LEMMA DoneIsConsistent ==
  ASSUME ControlOK, TreeOK, ImageOK, CacheTableAssumption
  PROVE  CheckpointIsConsistent
<1> SUFFICES ASSUME cp.ph = "done"
             PROVE  /\ \A k \in Reachable(ckpt) : ckpt[k] # <<>>
                    /\ \A m \in Tokens : IF m \in before THEN HasOnce(ckpt, m, {})
                                         ELSE \A k \in Reachable(ckpt) : m \notin ckpt[k][1].toks
  BY DEF CheckpointIsConsistent
<1>1. PICK c, f : c = ckpt /\ f = ImageInFlight
  OBVIOUS
<1>2. Tree(c) /\ Holds(c, f, before) /\ \A t \in Clients : f[t] = {}
  <2>1. Image = c /\ \A t \in Clients : f[t] = {}
    BY <1>1, DoneImage
  <2> QED BY <1>1, <2>1, ImageParts
<1>3. Reachable(c) \subseteq Keys
  BY <1>2, TreeIs DEF Keys
<1>4. \A k \in Reachable(c) : c[k] # <<>>
  BY <1>2 DEF Tree, Whole
<1>5. ASSUME NEW m \in Tokens, m \in before PROVE HasOnce(c, m, {})
  <2>1. Once(c, f, m)
    BY <1>2, <1>5 DEF Holds
  <2>2. Cardinality({k \in Reachable(c) : m \in c[k][1].toks})
           + Cardinality({t \in Clients : m \in f[t]}) = 1
    BY <1>3, <2>1, OnceCounted
  <2>3. {t \in Clients : m \in f[t]} = {} /\ {t \in {} : m \in th[t].fl} = {}
    BY <1>2
  <2> QED BY <2>2, <2>3 DEF HasOnce
<1>6. ASSUME NEW m \in Tokens, m \notin before, NEW k \in Reachable(c) PROVE m \notin c[k][1].toks
  <2>1. Nowhere(c, f, m)
    BY <1>2, <1>6 DEF Holds
  <2> QED BY <1>3, <1>6, <2>1 DEF Nowhere, In
<1> QED BY <1>1, <1>4, <1>5, <1>6

\* The invariant of the pairs is kept by every step of a client, of the checkpoint, of the
\* evicter, of the prefetch jobs and of the close (cachetable.cc): threads hold the locks
\* they believe they hold, every pair that is to be written for the checkpoint keeps the
\* checkpoint from ending, and the image the checkpoint will have on disk is, from its
\* begin on, the tree of that moment.
THEOREM PairsInvariant == Spec => []CacheTableInvariant
<1>1. Init => CacheTableInvariant
  BY InitControl, InitTree, InitImage, CacheTableAssumption DEF CacheTableInvariant
<1>2. CacheTableInvariant /\ [Next]_vars => CacheTableInvariant'
  BY NextKeepsControl, NextKeepsTree, NextKeepsImage, CacheTableAssumption DEF CacheTableInvariant
<1> QED BY <1>1, <1>2, PTL DEF Spec

\* When the headers of a checkpoint are written, what it has on disk is the tree as it was
\* at begin_checkpoint: all its nodes, each message injected before once and none injected
\* after, whatever was pinned, flushed, split, merged, cloned and evicted meanwhile
\* (cachetable.cc, begin_checkpoint to end_checkpoint).
THEOREM CheckpointsAreConsistent == Spec => []CheckpointIsConsistent
<1>1. CacheTableInvariant => CheckpointIsConsistent
  BY DoneIsConsistent, CacheTableAssumption DEF CacheTableInvariant
<1> QED BY <1>1, PairsInvariant, PTL

\* No step of a client, of the checkpoint, of the evicter or of the close loses a message
\* or frees a pair in use: a message injected into the root is in one node or with one
\* thread that flushes it from then on, and a pair that is locked, awaited, referred to or
\* being cloned stays (cachetable.cc).
THEOREM NodesAreKept == Spec => []NodesKept
<1>1. CacheTableInvariant => NodesKept
  BY NothingIsLost, NothingDangles, CacheTableAssumption DEF CacheTableInvariant, NodesKept
<1> QED BY <1>1, PairsInvariant, PTL
=============================================================================
