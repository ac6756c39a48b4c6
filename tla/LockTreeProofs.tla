--------------------------- MODULE LockTreeProofs ---------------------------
(***************************************************************************)
(* Proofs about the locktrees and their manager, for any number of clients *)
(* and transactions.  The manager: a locktree lives exactly as long as     *)
(* somebody uses it, one thread escalates at a time, and the memory of the *)
(* locks passes its limit by one lock for each client at most.  The tree:  *)
(* row locks stay disjoint, nobody loses or leaks one while the            *)
(* single-transaction optimization begins and ends and escalation merges   *)
(* ranges, the memory count is exact, and the locktree implements RowLocks.*)
(***************************************************************************)
EXTENDS LockTree, LockTreeManager, FiniteSetTheorems, TLAPS

(* Counting users *)

\* A count is a natural number, and counts whoever is there.
LEMMA CountType ==
  ASSUME NEW f, NEW o
  PROVE  Count(f, o) \in Nat /\ \A c \in Clients : f[c] = o => Count(f, o) >= 1
<1> DEFINE S == {c \in Clients : f[c] = o}
<1>1. IsFiniteSet(S)
  BY ManagerAssumption, FS_Subset
<1>2. Cardinality(S) \in Nat /\ (Cardinality(S) = 0 <=> S = {})
  BY <1>1, FS_CardinalityType, FS_EmptySet
<1>3. QED BY <1>2 DEF Count

\* When one client goes from one locktree to another, the one has a user less and the
\* other one more.
LEMMA CountUpdate ==
  \A f, g, o : \A c \in Clients : (\A x \in Clients : x # c => g[x] = f[x]) =>
    Count(g, o) = Count(f, o) + (IF g[c] = o THEN 1 ELSE 0) - (IF f[c] = o THEN 1 ELSE 0)
<1> TAKE f, g, o
<1> TAKE c \in Clients
<1> HAVE \A x \in Clients : x # c => g[x] = f[x]
<1> DEFINE S == {x \in Clients : f[x] = o}
           T == {x \in Clients : g[x] = o}
<1>1. IsFiniteSet(S) /\ Cardinality(S) \in Nat
  BY ManagerAssumption, FS_Subset, FS_CardinalityType
<1>2. CASE g[c] = o /\ f[c] = o
  <2>1. T = S BY <1>2
  <2>2. QED BY <2>1, <1>2, <1>1 DEF Count
<1>3. CASE g[c] = o /\ f[c] # o
  <2>1. T = S \cup {c} /\ c \notin S BY <1>3
  <2>2. Cardinality(T) = Cardinality(S) + 1 BY <2>1, <1>1, FS_AddElement
  <2>3. QED BY <2>2, <1>3, <1>1 DEF Count
<1>4. CASE g[c] # o /\ f[c] = o
  <2>1. T = S \ {c} /\ c \in S BY <1>4
  <2>2. Cardinality(T) = Cardinality(S) - 1 BY <2>1, <1>1, FS_RemoveElement
  <2>3. QED BY <2>2, <1>4, <1>1 DEF Count
<1>5. CASE g[c] # o /\ f[c] # o
  <2>1. T = S BY <1>5
  <2>2. Count(g, o) = Count(f, o) /\ Count(f, o) \in Nat BY <2>1, <1>1 DEF Count
  <2>3. QED BY <2>2, <1>5
<1>6. QED BY <1>2, <1>3, <1>4, <1>5

\* The same for the handles, and for the transactions.
LEMMA HandleMoves ==
  ASSUME NEW c \in Clients, \A e \in Clients : e # c => handle'[e] = handle[e], NEW p
  PROVE  Count(handle', p) = Count(handle, p) + (IF handle'[c] = p THEN 1 ELSE 0)
                               - (IF handle[c] = p THEN 1 ELSE 0)
<1> DEFINE f == handle
           g == handle'
<1>1. \A e \in Clients : e # c => g[e] = f[e]
  OBVIOUS
<1> HIDE DEF f, g
<1>2. Count(g, p) = Count(f, p) + (IF g[c] = p THEN 1 ELSE 0) - (IF f[c] = p THEN 1 ELSE 0)
  BY <1>1, CountUpdate
<1>3. QED BY <1>2 DEF f, g

LEMMA RefMoves ==
  ASSUME NEW c \in Clients, \A e \in Clients : e # c => ref'[e] = ref[e], NEW p
  PROVE  Count(ref', p) = Count(ref, p) + (IF ref'[c] = p THEN 1 ELSE 0)
                            - (IF ref[c] = p THEN 1 ELSE 0)
<1> DEFINE f == ref
           g == ref'
<1>1. \A e \in Clients : e # c => g[e] = f[e]
  OBVIOUS
<1> HIDE DEF f, g
<1>2. Count(g, p) = Count(f, p) + (IF g[c] = p THEN 1 ELSE 0) - (IF f[c] = p THEN 1 ELSE 0)
  BY <1>1, CountUpdate
<1>3. QED BY <1>2 DEF f, g

\* Who uses a locktree is seen in its reference count.
LEMMA InUse ==
  ASSUME ManagerTypeOK, RefsExact, NEW o \in Objects
  PROVE  /\ lt[o].refs \in Nat
         /\ \A c \in Clients : handle[c] = o \/ ref[c] = o => lt[o].refs >= 1
         /\ o \in todo => lt[o].refs >= 1
BY CountType DEF ManagerTypeOK, RefsExact

-----------------------------------------------------------------------------
(* What the steps that touch only a part of the state leave alone *)

\* The locktrees depend on the map, the objects and their users, and on the threads that
\* take a last reference away.
LEMMA TreesKept ==
  ASSUME TreesInv, UNCHANGED <<locktree_map, lt, handle, ref, todo>>,
         \A c \in Clients :
           at[c].step \in {"zero", "destroy"} \/ at'[c].step \in {"zero", "destroy"} => at'[c] = at[c]
  PROVE  TreesInv'
<1>1. RefsExact' /\ UsersLive' /\ MapExact'
  BY DEF TreesInv, RefsExact, UsersLive, MapExact
<1>2. DestroyedOnce'
  BY DEF TreesInv, DestroyedOnce
<1>3. LookedFor'
  BY DEF TreesInv, LookedFor
<1>4. QED BY <1>1, <1>2, <1>3 DEF TreesInv

\* Nothing changes for the escalator when nobody begins, ends or joins an escalation.
LEMMA EscalationKept ==
  ASSUME EscalationInv, UNCHANGED escalator_running, todo' \subseteq todo,
         \A c \in Clients :
           /\ Escalates(c)' <=> Escalates(c)
           /\ at'[c].step = "wait" => at[c].step = "wait"
           /\ at'[c].step = "collect" => at[c].step = "collect"
           /\ Asks(c)' => handle'[c] # Nil /\ ref'[c] \in {Nil, handle'[c]}
  PROVE  EscalationInv'
<1>1. AskersOpen' /\ TodoExact'
  BY DEF EscalationInv, AskersOpen, TodoExact
<1>2. EscalatorExact'
  BY DEF EscalationInv, EscalatorExact
<1>3. QED BY <1>1, <1>2 DEF EscalationInv

\* The acquirers are finitely many, and no more than the clients.
LEMMA AcquirersFinite ==
  /\ IsFiniteSet(Acquirers) /\ Cardinality(Acquirers) \in Nat
  /\ Cardinality(Clients) \in Nat /\ Cardinality(Acquirers) <= Cardinality(Clients)
<1>1. Acquirers \in SUBSET Clients
  BY DEF Acquirers
<1>2. QED BY <1>1, ManagerAssumption, FS_Subset, FS_CardinalityType

\* The limit stays in force when no memory is added and nobody passes its check.
LEMMA ReservedKept ==
  ASSUME ManagerTypeOK, MemoryReserved, max_lock_memory' = max_lock_memory,
         current_lock_memory' \in Int, current_lock_memory' <= current_lock_memory,
         \A c \in Clients : at'[c].step = "acquire" => at[c].step = "acquire"
  PROVE  MemoryReserved'
<1>1. Acquirers' \in SUBSET Acquirers
  BY DEF Acquirers
<1>2. Cardinality(Acquirers') <= Cardinality(Acquirers) /\ Cardinality(Acquirers') \in Nat
  BY <1>1, AcquirersFinite, FS_Subset, FS_CardinalityType
<1>3. QED BY <1>2, AcquirersFinite DEF MemoryReserved, ManagerTypeOK

-----------------------------------------------------------------------------
(* The steps of the manager, one by one *)

\* A new locktree comes with the reference of its handle.
LEMMA CreateInv ==
  ASSUME ManagerInv, NEW c \in Clients, NEW d \in Dicts, get_lt_create(c, d)
  PROVE  ManagerInv'
<1> USE DEF ManagerInv
<1>1. PICK o \in Objects :
        /\ ~ lt[o].live
        /\ lt' = [lt EXCEPT ![o] = [live |-> TRUE, dict |-> d, refs |-> 1]]
        /\ locktree_map' = [locktree_map EXCEPT ![d] = o]
        /\ handle' = [handle EXCEPT ![c] = o]
  BY DEF get_lt_create
<1>2. /\ at[c].step = "idle" /\ handle[c] = Nil /\ locktree_map[d] = Nil
      /\ opens' = [opens EXCEPT ![c] = @ + 1]
      /\ UNCHANGED <<max_lock_memory, current_lock_memory, escalator_running, at, ref, records, todo>>
  BY DEF get_lt_create, memory
<1>3. ManagerTypeOK'
  BY <1>1, <1>2 DEF ManagerTypeOK
<1>4. /\ \A e \in Clients : handle[e] # o /\ ref[e] # o
      /\ o \notin todo /\ o # Nil /\ \A e \in Dicts : locktree_map[e] # o
      /\ \A e \in Clients : at[e].step = "destroy" => at[e].lt # o
  BY <1>1, ManagerAssumption DEF TreesInv, UsersLive, MapExact, DestroyedOnce
<1>5. Count(handle, o) = 0 /\ Count(ref, o) = 0
  BY <1>4, FS_EmptySet DEF Count
<1>6. RefsExact'
  <2> SUFFICES ASSUME NEW p \in Objects
               PROVE  lt'[p].refs = Count(handle', p) + Count(ref, p) + (IF p \in todo THEN 1 ELSE 0)
    BY <1>2 DEF RefsExact
  <2>1. Count(handle', p) = Count(handle, p) + (IF o = p THEN 1 ELSE 0) - (IF handle[c] = p THEN 1 ELSE 0)
    <3>1. handle'[c] = o /\ \A e \in Clients : e # c => handle'[e] = handle[e]
      BY <1>1 DEF ManagerTypeOK
    <3>2. QED BY <3>1, HandleMoves
  <2>2. CASE p = o
    BY <2>1, <2>2, <1>1, <1>2, <1>4, <1>5 DEF ManagerTypeOK
  <2>3. CASE p # o
    BY <2>1, <2>3, <1>1, <1>2, ManagerAssumption, CountType DEF ManagerTypeOK, TreesInv, RefsExact
  <2>4. QED BY <2>2, <2>3
<1>7. UsersLive'
  BY <1>1, <1>2, <1>4 DEF TreesInv, UsersLive, ManagerTypeOK
<1>8. MapExact'
  BY <1>1, <1>2, <1>4 DEF TreesInv, MapExact, ManagerTypeOK
<1>9. DestroyedOnce'
  BY <1>1, <1>2, <1>4 DEF TreesInv, DestroyedOnce, ManagerTypeOK
<1>10. LookedFor'
  <2> SUFFICES ASSUME NEW p \in Objects, lt'[p].live
               PROVE  /\ lt'[p].dict \in Dicts
                      /\ \/ \E e \in Clients : at[e].step = "destroy" /\ at[e].lt = p
                         \/ /\ locktree_map'[lt'[p].dict] = p
                            /\ lt'[p].refs = 0 =>
                                 \E e \in Clients :
                                   at[e].step = "zero" /\ at[e].lt = p /\ at[e].dict = lt'[p].dict
    BY <1>2 DEF TreesInv, LookedFor
  <2>1. CASE p = o
    BY <2>1, <1>1 DEF ManagerTypeOK
  <2>2. CASE p # o
    <3>1. lt'[p] = lt[p] BY <2>2, <1>1 DEF ManagerTypeOK
    <3>2. p # Nil BY ManagerAssumption
    <3>3. locktree_map[lt[p].dict] = p => locktree_map'[lt[p].dict] = p
      BY <3>2, <1>1, <1>2 DEF ManagerTypeOK
    <3>4. QED BY <3>1, <3>3 DEF TreesInv, LookedFor
  <2>3. QED BY <2>1, <2>2
<1>11. EscalationInv'
  <2>1. ~ Asks(c) BY <1>2 DEF Asks, Escalates
  <2>2. \A e \in Clients : e # c => handle'[e] = handle[e]
    BY <1>1 DEF ManagerTypeOK
  <2>3. \A e \in Clients : Asks(e)' = Asks(e) /\ Escalates(e)' = Escalates(e)
    BY <1>2 DEF Asks, Escalates
  <2>4. QED BY <1>2, <2>1, <2>2, <2>3, EscalationKept DEF EscalationInv, AskersOpen
<1>12. MemoryReserved'
  BY <1>2, ReservedKept DEF ManagerTypeOK
<1>13. QED BY <1>3, <1>6, <1>7, <1>8, <1>9, <1>10, <1>11, <1>12 DEF TreesInv

\* A creation that fails leaves everything as it was.
LEMMA FailsInv ==
  ASSUME ManagerInv, NEW c \in Clients, NEW d \in Dicts, get_lt_fails(c, d)
  PROVE  ManagerInv'
<1> USE DEF ManagerInv
<1>1. /\ opens' = [opens EXCEPT ![c] = @ + 1]
      /\ UNCHANGED <<locktree_map, lt, max_lock_memory, current_lock_memory, escalator_running, at,
                     handle, ref, records, todo>>
  BY DEF get_lt_fails, memory, trees
<1>2. ManagerTypeOK'
  BY <1>1 DEF ManagerTypeOK
<1>3. TreesInv'
  BY <1>1, TreesKept
<1>4. EscalationInv'
  BY <1>1, EscalationKept DEF Asks, Escalates, EscalationInv, AskersOpen
<1>5. MemoryReserved'
  BY <1>1, ReservedKept DEF ManagerTypeOK
<1>6. QED BY <1>2, <1>3, <1>4, <1>5

\* A handle of a locktree that is in the map.
LEMMA FoundInv ==
  ASSUME ManagerInv, NEW c \in Clients, NEW d \in Dicts, get_lt_found(c, d)
  PROVE  ManagerInv'
<1> USE DEF ManagerInv
<1>1. PICK o \in Objects : o = locktree_map[d]
  BY DEF get_lt_found, ManagerTypeOK
<1>2. /\ at[c].step = "idle" /\ handle[c] = Nil
      /\ lt' = [lt EXCEPT ![o].refs = @ + 1]
      /\ handle' = [handle EXCEPT ![c] = o]
      /\ opens' = [opens EXCEPT ![c] = @ + 1]
      /\ UNCHANGED <<locktree_map, max_lock_memory, current_lock_memory, escalator_running, at, ref,
                     records, todo>>
  BY <1>1 DEF get_lt_found, memory, Add
<1>3. /\ lt'[o].live = lt[o].live /\ lt'[o].dict = lt[o].dict /\ lt'[o].refs = lt[o].refs + 1
      /\ \A p \in Objects : p # o => lt'[p] = lt[p]
      /\ handle'[c] = o /\ \A e \in Clients : e # c => handle'[e] = handle[e]
      /\ lt[o].refs \in Nat /\ o # Nil
  BY <1>2, ManagerAssumption DEF ManagerTypeOK
<1>4. ManagerTypeOK'
  <2>1. lt' \in [Objects -> [live : BOOLEAN, dict : Dicts \cup {Nil}, refs : Nat]]
    <3>1. lt \in [Objects -> [live : BOOLEAN, dict : Dicts \cup {Nil}, refs : Nat]]
      BY DEF ManagerTypeOK
    <3>2. lt' = [lt EXCEPT ![o].refs = @ + 1]
      BY <1>2
    <3>3. QED BY <3>1, <3>2
  <2>2. handle' \in [Clients -> Objects \cup {Nil}] /\ opens' \in [Clients -> Nat]
    BY <1>2 DEF ManagerTypeOK
  <2>3. QED BY <2>1, <2>2, <1>2 DEF ManagerTypeOK
<1>5. lt[o].live /\ lt[o].dict = d /\ \A e \in Clients : at[e].step = "destroy" => at[e].lt # o
  BY <1>1, <1>3 DEF TreesInv, MapExact, DestroyedOnce
<1>6. RefsExact'
  <2> SUFFICES ASSUME NEW p \in Objects
               PROVE  lt'[p].refs = Count(handle', p) + Count(ref, p) + (IF p \in todo THEN 1 ELSE 0)
    BY <1>2 DEF RefsExact
  <2>1. Count(handle', p) = Count(handle, p) + (IF handle'[c] = p THEN 1 ELSE 0)
                              - (IF handle[c] = p THEN 1 ELSE 0)
    <3>1. \A e \in Clients : e # c => handle'[e] = handle[e] BY <1>3
    <3>2. QED BY <3>1, HandleMoves
  <2>2. handle[c] # p BY <1>2, ManagerAssumption
  <2>3. QED BY <2>1, <2>2, <1>3, CountType DEF TreesInv, RefsExact
<1>7. UsersLive' /\ MapExact' /\ DestroyedOnce'
  BY <1>2, <1>3, <1>5 DEF TreesInv, UsersLive, MapExact, DestroyedOnce, ManagerTypeOK
<1>8. LookedFor'
  BY <1>1, <1>2, <1>3, <1>5 DEF TreesInv, LookedFor
<1>9. EscalationInv'
  <2>1. ~ Asks(c) BY <1>2 DEF Asks, Escalates
  <2>2. \A e \in Clients : Asks(e)' = Asks(e) /\ Escalates(e)' = Escalates(e)
    BY <1>2 DEF Asks, Escalates
  <2>3. QED BY <1>2, <1>3, <2>1, <2>2, EscalationKept DEF EscalationInv, AskersOpen
<1>10. MemoryReserved'
  BY <1>2, ReservedKept DEF ManagerTypeOK
<1>11. QED BY <1>4, <1>6, <1>7, <1>8, <1>9, <1>10 DEF TreesInv

\* A reference that goes leaves the others; whoever takes the last one away will look for
\* the locktree in the map.
LEMMA ReleaseTrees ==
  ASSUME ManagerTypeOK, TreesInv, NEW c \in Clients, NEW o \in Objects, NEW back \in {"idle", "escalate"},
         at[c].step \in {"idle", "escalate"}, lt[o].live, lt[o].refs >= 1,
         release_reference(c, o, back), locktree_map' = locktree_map,
         \A e \in Clients : handle'[e] \in {Nil, handle[e]} /\ ref'[e] \in {Nil, ref[e]},
         todo' \subseteq todo, RefsExact'
  PROVE  /\ lt' \in [Objects -> [live : BOOLEAN, dict : Dicts \cup {Nil}, refs : Nat]]
         /\ at' \in [Clients -> [step : Steps, back : {"idle", "escalate"},
                                 ret : {"idle", "recheckBig", "recheck"}, lt : Objects \cup {Nil},
                                 dict : Dicts \cup {Nil}]]
         /\ \A e \in Clients : e # c => at'[e] = at[e]
         /\ at'[c].step = back \/ (at'[c].step = "zero" /\ at'[c].back = back)
         /\ TreesInv'
<1>1. /\ lt'[o].live = lt[o].live /\ lt'[o].dict = lt[o].dict /\ lt'[o].refs = lt[o].refs - 1
      /\ \A p \in Objects : p # o => lt'[p] = lt[p]
      /\ lt[o].refs \in Nat
      /\ lt' \in [Objects -> [live : BOOLEAN, dict : Dicts \cup {Nil}, refs : Nat]]
  <2>1. lt[o].refs \in Nat /\ lt[o].refs - 1 \in Nat
    BY DEF ManagerTypeOK
  <2>2. lt' = [lt EXCEPT ![o].refs = lt[o].refs - 1]
    BY <2>1 DEF release_reference, ManagerTypeOK, Add
  <2>3. lt \in [Objects -> [live : BOOLEAN, dict : Dicts \cup {Nil}, refs : Nat]]
    BY DEF ManagerTypeOK
  <2>4. QED BY <2>1, <2>2, <2>3
<1>2. /\ \A e \in Clients : e # c => at'[e] = at[e]
      /\ lt[o].refs = 1 => at'[c] = [step |-> "zero", back |-> back, ret |-> at[c].ret, lt |-> o,
                                    dict |-> lt[o].dict]
      /\ lt[o].refs # 1 => at'[c] = [at[c] EXCEPT !.step = back]
  BY DEF release_reference, ManagerTypeOK
<1>3. at' \in [Clients -> [step : Steps, back : {"idle", "escalate"},
                           ret : {"idle", "recheckBig", "recheck"}, lt : Objects \cup {Nil},
                           dict : Dicts \cup {Nil}]]
  <2>1. at'[c] \in [step : Steps, back : {"idle", "escalate"},
                    ret : {"idle", "recheckBig", "recheck"}, lt : Objects \cup {Nil},
                    dict : Dicts \cup {Nil}]
    <3>1. lt[o].dict \in Dicts \cup {Nil} BY DEF ManagerTypeOK
    <3>2. back \in Steps /\ "zero" \in Steps BY DEF Steps
    <3>3. at[c] \in [step : Steps, back : {"idle", "escalate"},
                     ret : {"idle", "recheckBig", "recheck"}, lt : Objects \cup {Nil},
                     dict : Dicts \cup {Nil}]
      BY DEF ManagerTypeOK
    <3>4. CASE lt[o].refs = 1 BY <3>1, <3>2, <3>3, <3>4, <1>2
    <3>5. CASE lt[o].refs # 1 BY <3>2, <3>3, <3>5, <1>2
    <3>6. QED BY <3>4, <3>5
  <2>2. at' = [at EXCEPT ![c] = at'[c]]
    BY DEF release_reference, ManagerTypeOK
  <2>3. QED BY <2>1, <2>2 DEF ManagerTypeOK
<1>4. \/ at'[c].step = back /\ lt[o].refs # 1
      \/ at'[c].step = "zero" /\ at'[c].back = back /\ at'[c].lt = o /\ at'[c].dict = lt[o].dict
  <2>1. at[c] \in [step : Steps, back : {"idle", "escalate"},
                   ret : {"idle", "recheckBig", "recheck"}, lt : Objects \cup {Nil},
                   dict : Dicts \cup {Nil}]
    BY DEF ManagerTypeOK
  <2>2. CASE lt[o].refs = 1 BY <2>1, <2>2, <1>2
  <2>3. CASE lt[o].refs # 1 BY <2>1, <2>3, <1>2
  <2>4. QED BY <2>2, <2>3
<1>5. \A e \in Clients : at[e].step = "destroy" => at[e].lt # o
  BY DEF TreesInv, DestroyedOnce
<1>6. lt[o].dict \in Dicts /\ locktree_map[lt[o].dict] = o
  BY <1>5 DEF TreesInv, LookedFor
<1>7. \A e \in Clients : at'[e].step = "destroy" => e # c /\ at[e].step = "destroy" /\ at'[e].lt = at[e].lt
  BY <1>2, <1>4
<1>8. \A p \in Objects : lt'[p].live = lt[p].live /\ lt'[p].dict = lt[p].dict
  BY <1>1
<1>9. UsersLive'
  BY <1>8 DEF TreesInv, UsersLive, ManagerTypeOK
<1>10. MapExact'
  BY <1>8 DEF TreesInv, MapExact, ManagerTypeOK
<1>11. DestroyedOnce'
  BY <1>1, <1>5, <1>7 DEF TreesInv, DestroyedOnce
<1>12. LookedFor'
  <2>1. \A e \in Clients : at'[e].step = "zero" => at'[e].lt \in Objects /\ at'[e].dict \in Dicts
    BY <1>2, <1>4, <1>6 DEF TreesInv, LookedFor
  <2>2. ASSUME NEW p \in Objects, lt'[p].live
        PROVE  /\ lt'[p].dict \in Dicts
               /\ \/ \E e \in Clients : at'[e].step = "destroy" /\ at'[e].lt = p
                  \/ /\ locktree_map'[lt'[p].dict] = p
                     /\ lt'[p].refs = 0 =>
                          \E e \in Clients :
                            at'[e].step = "zero" /\ at'[e].lt = p /\ at'[e].dict = lt'[p].dict
    <3>1. CASE p = o
      BY <3>1, <1>1, <1>4, <1>6
    <3>2. CASE p # o
      <4>1. lt'[p] = lt[p] BY <3>2, <1>1
      <4>2. \A e \in Clients : at[e].step \in {"zero", "destroy"} => at'[e] = at[e]
        BY <1>2
      <4>3. QED BY <4>1, <4>2, <2>2 DEF TreesInv, LookedFor
    <3>3. QED BY <3>1, <3>2
  <2>3. QED BY <2>1, <2>2 DEF LookedFor
<1>13. QED BY <1>1, <1>2, <1>3, <1>4, <1>9, <1>10, <1>11, <1>12 DEF TreesInv

\* The close of a handle takes its reference away.
LEMMA CloseInv ==
  ASSUME ManagerInv, NEW c \in Clients, close_handle(c)
  PROVE  ManagerInv'
<1> USE DEF ManagerInv
<1>1. PICK o \in Objects : o = handle[c]
  BY DEF close_handle, ManagerTypeOK
<1>2. /\ at[c].step = "idle" /\ release_reference(c, o, "idle")
      /\ handle' = [handle EXCEPT ![c] = Nil]
      /\ UNCHANGED <<locktree_map, max_lock_memory, current_lock_memory, escalator_running, ref,
                     records, todo, opens>>
  BY <1>1 DEF close_handle, memory
<1>3. /\ lt[o].live /\ lt[o].refs >= 1 /\ o # Nil
      /\ handle'[c] = Nil /\ \A e \in Clients : e # c => handle'[e] = handle[e]
  BY <1>1, <1>2, InUse, ManagerAssumption DEF TreesInv, UsersLive, ManagerTypeOK
<1>4. RefsExact'
  <2> SUFFICES ASSUME NEW p \in Objects
               PROVE  lt'[p].refs = Count(handle', p) + Count(ref, p) + (IF p \in todo THEN 1 ELSE 0)
    BY <1>2 DEF RefsExact
  <2>1. Count(handle', p) = Count(handle, p) + (IF handle'[c] = p THEN 1 ELSE 0)
                              - (IF handle[c] = p THEN 1 ELSE 0)
    <3>1. \A e \in Clients : e # c => handle'[e] = handle[e] BY <1>3
    <3>2. QED BY <3>1, HandleMoves
  <2>2. handle'[c] # p BY <1>3, ManagerAssumption
  <2>3. lt'[p].refs = lt[p].refs - (IF o = p THEN 1 ELSE 0)
    BY <1>2 DEF release_reference, Add, ManagerTypeOK
  <2>4. QED BY <2>1, <2>2, <2>3, <1>1, CountType DEF TreesInv, RefsExact
<1>5. /\ lt' \in [Objects -> [live : BOOLEAN, dict : Dicts \cup {Nil}, refs : Nat]]
      /\ at' \in [Clients -> [step : Steps, back : {"idle", "escalate"},
                              ret : {"idle", "recheckBig", "recheck"}, lt : Objects \cup {Nil},
                              dict : Dicts \cup {Nil}]]
      /\ \A e \in Clients : e # c => at'[e] = at[e]
      /\ at'[c].step = "idle" \/ (at'[c].step = "zero" /\ at'[c].back = "idle")
      /\ TreesInv'
  <2>1. \A e \in Clients : handle'[e] \in {Nil, handle[e]} /\ ref'[e] \in {Nil, ref[e]}
    BY <1>2, <1>3
  <2>2. QED BY <1>2, <1>3, <1>4, <2>1, ReleaseTrees
<1>6. ManagerTypeOK'
  <2>1. /\ current_lock_memory' \in Int
        /\ records' \in [Clients -> Nat] /\ ref' \in [Clients -> Objects \cup {Nil}]
    BY <1>2 DEF ManagerTypeOK
  <2>2. QED BY <1>2, <1>5, <2>1 DEF ManagerTypeOK
<1>7. EscalationInv'
  <2>1. ~ Asks(c) /\ ~ Asks(c)' /\ ~ Escalates(c) /\ ~ Escalates(c)'
    BY <1>2, <1>5 DEF Asks, Escalates
  <2>2. \A e \in Clients \ {c} : Asks(e)' = Asks(e) /\ Escalates(e)' = Escalates(e)
    BY <1>5 DEF Asks, Escalates
  <2>3. \A e \in Clients : /\ at'[e].step = "wait" => at[e].step = "wait"
                           /\ at'[e].step = "collect" => at[e].step = "collect"
    BY <1>5
  <2>4. QED BY <1>2, <1>3, <2>1, <2>2, <2>3, EscalationKept DEF EscalationInv, AskersOpen
<1>8. MemoryReserved'
  <2>1. current_lock_memory' \in Int /\ current_lock_memory' <= current_lock_memory
    BY <1>2 DEF ManagerTypeOK
  <2>2. \A e \in Clients : at'[e].step = "acquire" => at[e].step = "acquire"
    BY <1>5
  <2>3. QED BY <1>2, <2>1, <2>2, ReservedKept
<1>9. QED BY <1>5, <1>6, <1>7, <1>8

\* The end of a transaction takes its records and its reference away.
LEMMA ReleaseLocksInv ==
  ASSUME ManagerInv, NEW c \in Clients, release_locks(c)
  PROVE  ManagerInv'
<1> USE DEF ManagerInv
<1>1. PICK o \in Objects : o = ref[c]
  BY DEF release_locks, ManagerTypeOK
<1>2. /\ at[c].step = "idle" /\ release_reference(c, o, "idle")
      /\ ref' = [ref EXCEPT ![c] = Nil]
      /\ current_lock_memory' = current_lock_memory - records[c]
      /\ records' = [records EXCEPT ![c] = 0]
      /\ UNCHANGED <<locktree_map, max_lock_memory, escalator_running, handle, todo, opens>>
  BY <1>1 DEF release_locks
<1>3. /\ lt[o].live /\ lt[o].refs >= 1 /\ o # Nil
      /\ ref'[c] = Nil /\ \A e \in Clients : e # c => ref'[e] = ref[e]
  BY <1>1, <1>2, InUse, ManagerAssumption DEF TreesInv, UsersLive, ManagerTypeOK
<1>4. RefsExact'
  <2> SUFFICES ASSUME NEW p \in Objects
               PROVE  lt'[p].refs = Count(handle, p) + Count(ref', p) + (IF p \in todo THEN 1 ELSE 0)
    BY <1>2 DEF RefsExact
  <2>1. Count(ref', p) = Count(ref, p) + (IF ref'[c] = p THEN 1 ELSE 0)
                           - (IF ref[c] = p THEN 1 ELSE 0)
    <3>1. \A e \in Clients : e # c => ref'[e] = ref[e] BY <1>3
    <3>2. QED BY <3>1, RefMoves
  <2>2. ref'[c] # p BY <1>3, ManagerAssumption
  <2>3. lt'[p].refs = lt[p].refs - (IF o = p THEN 1 ELSE 0)
    BY <1>2 DEF release_reference, Add, ManagerTypeOK
  <2>4. QED BY <2>1, <2>2, <2>3, <1>1, CountType DEF TreesInv, RefsExact
<1>5. /\ lt' \in [Objects -> [live : BOOLEAN, dict : Dicts \cup {Nil}, refs : Nat]]
      /\ at' \in [Clients -> [step : Steps, back : {"idle", "escalate"},
                              ret : {"idle", "recheckBig", "recheck"}, lt : Objects \cup {Nil},
                              dict : Dicts \cup {Nil}]]
      /\ \A e \in Clients : e # c => at'[e] = at[e]
      /\ at'[c].step = "idle" \/ (at'[c].step = "zero" /\ at'[c].back = "idle")
      /\ TreesInv'
  <2>1. \A e \in Clients : handle'[e] \in {Nil, handle[e]} /\ ref'[e] \in {Nil, ref[e]}
    BY <1>2, <1>3
  <2>2. QED BY <1>2, <1>3, <1>4, <2>1, ReleaseTrees
<1>6. ManagerTypeOK'
  <2>1. /\ current_lock_memory' \in Int
        /\ records' \in [Clients -> Nat] /\ ref' \in [Clients -> Objects \cup {Nil}]
    BY <1>2 DEF ManagerTypeOK
  <2>2. QED BY <1>2, <1>5, <2>1 DEF ManagerTypeOK
<1>7. EscalationInv'
  <2>1. ~ Asks(c) /\ ~ Asks(c)' /\ ~ Escalates(c) /\ ~ Escalates(c)'
    BY <1>2, <1>5 DEF Asks, Escalates
  <2>2. \A e \in Clients \ {c} : Asks(e)' = Asks(e) /\ Escalates(e)' = Escalates(e)
    BY <1>5 DEF Asks, Escalates
  <2>3. \A e \in Clients : /\ at'[e].step = "wait" => at[e].step = "wait"
                           /\ at'[e].step = "collect" => at[e].step = "collect"
    BY <1>5
  <2>4. QED BY <1>2, <1>3, <2>1, <2>2, <2>3, EscalationKept DEF EscalationInv, AskersOpen
<1>8. MemoryReserved'
  <2>1. current_lock_memory' \in Int /\ current_lock_memory' <= current_lock_memory
    BY <1>2 DEF ManagerTypeOK
  <2>2. \A e \in Clients : at'[e].step = "acquire" => at[e].step = "acquire"
    BY <1>5
  <2>3. QED BY <1>2, <2>1, <2>2, ReservedKept
<1>9. QED BY <1>5, <1>6, <1>7, <1>8

\* The escalator gives back the reference of a locktree that it is done with.
LEMMA EscalateLocktreesInv ==
  ASSUME ManagerInv, NEW c \in Clients, NEW o \in Objects, escalate_locktrees(c, o)
  PROVE  ManagerInv'
<1> USE DEF ManagerInv
<1>2. /\ at[c].step = "escalate" /\ o \in todo /\ release_reference(c, o, "escalate")
      /\ todo' = todo \ {o}
      /\ UNCHANGED <<locktree_map, max_lock_memory, current_lock_memory, escalator_running, handle,
                     ref, records, opens>>
  BY DEF escalate_locktrees, memory
<1>3. lt[o].live /\ lt[o].refs >= 1
  BY <1>2, InUse DEF TreesInv, UsersLive
<1>4. RefsExact'
  <2> SUFFICES ASSUME NEW p \in Objects
               PROVE  lt'[p].refs = Count(handle, p) + Count(ref, p) + (IF p \in todo' THEN 1 ELSE 0)
    BY <1>2 DEF RefsExact
  <2>1. lt'[p].refs = lt[p].refs - (IF o = p THEN 1 ELSE 0)
    BY <1>2 DEF release_reference, Add, ManagerTypeOK
  <2>2. QED BY <2>1, <1>2, CountType DEF TreesInv, RefsExact
<1>5. /\ lt' \in [Objects -> [live : BOOLEAN, dict : Dicts \cup {Nil}, refs : Nat]]
      /\ at' \in [Clients -> [step : Steps, back : {"idle", "escalate"},
                              ret : {"idle", "recheckBig", "recheck"}, lt : Objects \cup {Nil},
                              dict : Dicts \cup {Nil}]]
      /\ \A e \in Clients : e # c => at'[e] = at[e]
      /\ at'[c].step = "escalate" \/ (at'[c].step = "zero" /\ at'[c].back = "escalate")
      /\ TreesInv'
  BY <1>2, <1>3, <1>4, ReleaseTrees
<1>6. ManagerTypeOK'
  BY <1>2, <1>5 DEF ManagerTypeOK
<1>7. EscalationInv'
  <2>1. Asks(c) /\ Escalates(c) /\ Escalates(c)'
    BY <1>2, <1>5 DEF Asks, Escalates
  <2>2. \A e \in Clients \ {c} : Asks(e)' = Asks(e) /\ Escalates(e)' = Escalates(e)
    BY <1>5 DEF Asks, Escalates
  <2>3. \A e \in Clients : /\ at'[e].step = "wait" => at[e].step = "wait"
                           /\ at'[e].step = "collect" => at[e].step = "collect"
    BY <1>5
  <2>4. QED BY <1>2, <2>1, <2>2, <2>3, EscalationKept DEF EscalationInv, AskersOpen
<1>8. MemoryReserved'
  <2>1. current_lock_memory' \in Int /\ current_lock_memory' <= current_lock_memory
    BY <1>2 DEF ManagerTypeOK
  <2>2. \A e \in Clients : at'[e].step = "acquire" => at[e].step = "acquire"
    BY <1>5
  <2>3. QED BY <1>2, <2>1, <2>2, ReservedKept
<1>9. QED BY <1>5, <1>6, <1>7, <1>8

AtType == [step : Steps, back : {"idle", "escalate"}, ret : {"idle", "recheckBig", "recheck"},
           lt : Objects \cup {Nil}, dict : Dicts \cup {Nil}]

\* The thread that looks under the mutex finds its locktree unused and takes it out of
\* the map, or somebody has it again or has destroyed it.
LEMMA LookAgainInv ==
  ASSUME ManagerInv, NEW c \in Clients, look_again(c)
  PROVE  ManagerInv'
<1> USE DEF ManagerInv
<1>1. /\ at[c].step = "zero" /\ at[c].lt \in Objects /\ at[c].dict \in Dicts
      /\ UNCHANGED <<lt, max_lock_memory, current_lock_memory, escalator_running, handle, ref,
                     records, todo, opens>>
  BY DEF look_again, memory, TreesInv, LookedFor
<1>2. PICK o \in Objects, d \in Dicts : o = at[c].lt /\ d = at[c].dict
  BY <1>1
<1>3. at \in [Clients -> AtType] /\ at[c] \in AtType
  BY DEF ManagerTypeOK, AtType
<1>4. CASE StillUnused(o, d)
  <2>1. locktree_map' = [locktree_map EXCEPT ![d] = Nil] /\ at' = [at EXCEPT ![c].step = "destroy"]
    BY <1>2, <1>4 DEF look_again, Goes
  <2>2. /\ \A e \in Clients : e # c => at'[e] = at[e]
        /\ at'[c].step = "destroy" /\ at'[c].back = at[c].back /\ at'[c].lt = o
        /\ at' \in [Clients -> AtType]
    BY <1>2, <1>3, <2>1 DEF AtType, Steps
  <2>3. /\ locktree_map'[d] = Nil /\ \A e \in Dicts : e # d => locktree_map'[e] = locktree_map[e]
        /\ locktree_map' \in [Dicts -> Objects \cup {Nil}]
    BY <2>1 DEF ManagerTypeOK
  <2>4. ManagerTypeOK'
    BY <1>1, <2>2, <2>3 DEF ManagerTypeOK, AtType
  <2>5. /\ lt[o].live /\ lt[o].dict = d /\ lt[o].refs = 0 /\ o # Nil /\ locktree_map[d] = o
        /\ \A e \in Clients : at[e].step = "destroy" => at[e].lt # o
        /\ \A e \in Dicts : e # d => locktree_map[e] # o
    BY <1>4, ManagerAssumption DEF StillUnused, TreesInv, MapExact, DestroyedOnce
  <2>6. RefsExact' /\ UsersLive' /\ MapExact'
    BY <1>1, <2>3 DEF TreesInv, RefsExact, UsersLive, MapExact
  <2>7. DestroyedOnce'
    BY <1>1, <2>2, <2>3, <2>5, ManagerAssumption DEF TreesInv, DestroyedOnce
  <2>8. LookedFor'
    <3>1. \A e \in Clients : at'[e].step = "zero" => at'[e].lt \in Objects /\ at'[e].dict \in Dicts
      BY <2>2 DEF TreesInv, LookedFor
    <3>2. ASSUME NEW p \in Objects, lt'[p].live
          PROVE  /\ lt'[p].dict \in Dicts
                 /\ \/ \E e \in Clients : at'[e].step = "destroy" /\ at'[e].lt = p
                    \/ /\ locktree_map'[lt'[p].dict] = p
                       /\ lt'[p].refs = 0 =>
                            \E e \in Clients :
                              at'[e].step = "zero" /\ at'[e].lt = p /\ at'[e].dict = lt'[p].dict
      <4>1. CASE p = o
        BY <4>1, <2>2, <2>5, <1>1
      <4>2. CASE p # o
        <5>1. lt[p].dict \in Dicts /\ lt'[p] = lt[p] /\ lt[p].live
          BY <1>1, <3>2 DEF TreesInv, LookedFor
        <5>2. locktree_map[lt[p].dict] = p => locktree_map'[lt[p].dict] = p
          BY <5>1, <4>2, <2>3, <2>5
        <5>3. \A e \in Clients : at[e].step \in {"zero", "destroy"} /\ at[e].lt = p => at'[e] = at[e]
          BY <4>2, <2>2, <1>2
        <5>4. CASE \E e \in Clients : at[e].step = "destroy" /\ at[e].lt = p
          BY <5>1, <5>3, <5>4
        <5>5. CASE /\ locktree_map[lt[p].dict] = p
                   /\ lt[p].refs = 0 =>
                        \E e \in Clients : at[e].step = "zero" /\ at[e].lt = p /\ at[e].dict = lt[p].dict
          BY <5>1, <5>2, <5>3, <5>5
        <5>6. QED BY <5>1, <5>4, <5>5 DEF TreesInv, LookedFor
      <4>3. QED BY <4>1, <4>2
    <3>3. QED BY <3>1, <3>2 DEF LookedFor
  <2>9. EscalationInv'
    <3>1. \A e \in Clients : Asks(e)' = Asks(e) /\ Escalates(e)' = Escalates(e)
      BY <1>1, <2>2 DEF Asks, Escalates
    <3>2. \A e \in Clients : /\ at'[e].step = "wait" => at[e].step = "wait"
                             /\ at'[e].step = "collect" => at[e].step = "collect"
      BY <2>2
    <3>3. QED BY <1>1, <3>1, <3>2, EscalationKept DEF EscalationInv, AskersOpen
  <2>10. MemoryReserved'
    <3>1. \A e \in Clients : at'[e].step = "acquire" => at[e].step = "acquire"
      BY <2>2
    <3>2. QED BY <1>1, <3>1, ReservedKept DEF ManagerTypeOK
  <2>11. QED BY <2>4, <2>6, <2>7, <2>8, <2>9, <2>10 DEF TreesInv
<1>5. CASE ~ StillUnused(o, d)
  <2>1. /\ locktree_map' = locktree_map
        /\ at' = [at EXCEPT ![c] = [Idle EXCEPT !.step = at[c].back, !.ret = at[c].ret]]
    BY <1>2, <1>5 DEF look_again, Returns
  <2>2. /\ \A e \in Clients : e # c => at'[e] = at[e]
        /\ at'[c].step = at[c].back
        /\ at' \in [Clients -> AtType]
    BY <1>3, <2>1 DEF AtType, Steps, Idle
  <2>3. ManagerTypeOK'
    BY <1>1, <2>1, <2>2 DEF ManagerTypeOK, AtType
  <2>4. at[c].back \in {"idle", "escalate"}
    BY <1>3 DEF AtType
  <2>5. RefsExact' /\ UsersLive' /\ MapExact'
    BY <1>1, <2>1 DEF TreesInv, RefsExact, UsersLive, MapExact
  <2>6. DestroyedOnce'
    BY <1>1, <2>1, <2>2, <2>4 DEF TreesInv, DestroyedOnce
  <2>7. LookedFor'
    <3>1. ASSUME NEW p \in Objects, lt[p].live, lt[p].refs = 0, locktree_map[lt[p].dict] = p,
                 at[c].lt = p, at[c].dict = lt[p].dict
          PROVE  FALSE
      BY <3>1, <1>2, <1>5 DEF StillUnused
    <3>2. QED BY <1>1, <2>1, <2>2, <2>4, <3>1 DEF TreesInv, LookedFor
  <2>8. EscalationInv'
    <3>1. \A e \in Clients : (Asks(e)' <=> Asks(e)) /\ (Escalates(e)' <=> Escalates(e))
      BY <1>1, <2>2, <2>4 DEF Asks, Escalates
    <3>2. \A e \in Clients : /\ at'[e].step = "wait" => at[e].step = "wait"
                             /\ at'[e].step = "collect" => at[e].step = "collect"
      BY <2>2, <2>4
    <3>3. QED BY <1>1, <3>1, <3>2, EscalationKept DEF EscalationInv, AskersOpen
  <2>9. MemoryReserved'
    <3>1. \A e \in Clients : at'[e].step = "acquire" => at[e].step = "acquire"
      BY <2>2, <2>4
    <3>2. QED BY <1>1, <3>1, ReservedKept DEF ManagerTypeOK
  <2>10. QED BY <2>3, <2>5, <2>6, <2>7, <2>8, <2>9 DEF TreesInv
<1>6. QED BY <1>4, <1>5

\* Nobody has the locktree that is destroyed, and nobody else destroys it.
LEMMA DestroyInv ==
  ASSUME ManagerInv, NEW c \in Clients, destroy_lt(c)
  PROVE  ManagerInv'
<1> USE DEF ManagerInv
<1>1. PICK o \in Objects : o = at[c].lt
  BY DEF destroy_lt, TreesInv, DestroyedOnce
<1>2. /\ at[c].step = "destroy"
      /\ lt' = [lt EXCEPT ![o] = NoTree]
      /\ at' = [at EXCEPT ![c] = [Idle EXCEPT !.step = at[c].back, !.ret = at[c].ret]]
      /\ UNCHANGED <<locktree_map, max_lock_memory, current_lock_memory, escalator_running, handle,
                     ref, records, todo, opens>>
  BY <1>1 DEF destroy_lt, memory, Returns
<1>3. at \in [Clients -> AtType] /\ at[c] \in AtType
  BY DEF ManagerTypeOK, AtType
<1>4. /\ \A e \in Clients : e # c => at'[e] = at[e]
      /\ at'[c].step = at[c].back /\ at[c].back \in {"idle", "escalate"}
      /\ at' \in [Clients -> AtType]
  BY <1>3, <1>2 DEF AtType, Steps, Idle
<1>5. /\ lt'[o].live = FALSE /\ lt'[o].refs = 0 /\ \A p \in Objects : p # o => lt'[p] = lt[p]
      /\ lt' \in [Objects -> [live : BOOLEAN, dict : Dicts \cup {Nil}, refs : Nat]]
  BY <1>2 DEF ManagerTypeOK, NoTree
<1>6. ManagerTypeOK'
  BY <1>2, <1>4, <1>5 DEF ManagerTypeOK, AtType
<1>7. /\ lt[o].refs = 0 /\ \A e \in Dicts : locktree_map[e] # o
      /\ \A e \in Clients : handle[e] # o /\ ref[e] # o
      /\ o \notin todo
      /\ \A e \in Clients \ {c} : at[e].step = "destroy" => at[e].lt # o
  <2>1. lt[o].refs = 0 /\ \A e \in Dicts : locktree_map[e] # o
    BY <1>1, <1>2 DEF TreesInv, DestroyedOnce
  <2>2. \A e \in Clients \ {c} : at[e].step = "destroy" => at[e].lt # o
    BY <1>1, <1>2 DEF TreesInv, DestroyedOnce
  <2>3. QED BY <2>1, <2>2, InUse DEF TreesInv
<1>8. RefsExact'
  BY <1>2, <1>5, <1>7 DEF TreesInv, RefsExact
<1>9. UsersLive' /\ MapExact'
  BY <1>2, <1>5, <1>7 DEF TreesInv, UsersLive, MapExact, ManagerTypeOK
<1>10. DestroyedOnce'
  BY <1>2, <1>4, <1>5, <1>7 DEF TreesInv, DestroyedOnce
<1>11. LookedFor'
  <2>1. \A e \in Clients : at'[e].step = "zero" => at'[e].lt \in Objects /\ at'[e].dict \in Dicts
    BY <1>4 DEF TreesInv, LookedFor
  <2>2. \A p \in Objects \ {o} : \A e \in Clients :
          at[e].step \in {"zero", "destroy"} /\ at[e].lt = p => at'[e] = at[e]
    BY <1>1, <1>4
  <2>3. ASSUME NEW p \in Objects, lt'[p].live
        PROVE  /\ lt'[p].dict \in Dicts
               /\ \/ \E e \in Clients : at'[e].step = "destroy" /\ at'[e].lt = p
                  \/ /\ locktree_map'[lt'[p].dict] = p
                     /\ lt'[p].refs = 0 =>
                          \E e \in Clients :
                            at'[e].step = "zero" /\ at'[e].lt = p /\ at'[e].dict = lt'[p].dict
    <3>1. p # o /\ lt'[p] = lt[p] BY <2>3, <1>5
    <3>2. lt[p].live /\ lt[p].dict \in Dicts BY <3>1, <2>3 DEF TreesInv, LookedFor
    <3>3. \A e \in Clients : at[e].step \in {"zero", "destroy"} /\ at[e].lt = p => at'[e] = at[e]
      BY <3>1, <2>2
    <3>4. CASE \E e \in Clients : at[e].step = "destroy" /\ at[e].lt = p
      BY <3>1, <3>2, <3>3, <3>4
    <3>5. CASE /\ locktree_map[lt[p].dict] = p
               /\ lt[p].refs = 0 =>
                    \E e \in Clients : at[e].step = "zero" /\ at[e].lt = p /\ at[e].dict = lt[p].dict
      BY <3>1, <3>2, <3>3, <3>5, <1>2
    <3>6. QED BY <3>2, <3>4, <3>5 DEF TreesInv, LookedFor
  <2>4. QED BY <2>1, <2>3 DEF LookedFor
<1>12. EscalationInv'
  <2>1. \A e \in Clients : (Asks(e)' <=> Asks(e)) /\ (Escalates(e)' <=> Escalates(e))
    BY <1>2, <1>4 DEF Asks, Escalates
  <2>2. \A e \in Clients : /\ at'[e].step = "wait" => at[e].step = "wait"
                           /\ at'[e].step = "collect" => at[e].step = "collect"
    BY <1>4
  <2>3. QED BY <1>2, <2>1, <2>2, EscalationKept DEF EscalationInv, AskersOpen
<1>13. MemoryReserved'
  <2>1. \A e \in Clients : at'[e].step = "acquire" => at[e].step = "acquire"
    BY <1>4
  <2>2. QED BY <1>2, <2>1, ReservedKept DEF ManagerTypeOK
<1>14. QED BY <1>6, <1>8, <1>9, <1>10, <1>11, <1>12, <1>13 DEF TreesInv

\* A step of one client that touches neither a locktree nor the escalator.
LEMMA OwnStep ==
  ASSUME ManagerInv, NEW c \in Clients,
         at[c].step \notin {"zero", "destroy", "collect", "escalate"},
         at'[c].step \notin {"zero", "destroy", "collect", "escalate", "wait"},
         at'[c] \in AtType, at' = [at EXCEPT ![c] = at'[c]],
         at'[c].step # "idle" => handle[c] # Nil /\ ref[c] \in {Nil, handle[c]},
         UNCHANGED <<locktree_map, lt, max_lock_memory, current_lock_memory, escalator_running,
                     handle, ref, records, todo, opens>>
  PROVE  ManagerTypeOK' /\ TreesInv' /\ EscalationInv' /\ \A e \in Clients : e # c => at'[e] = at[e]
<1> USE DEF ManagerInv
<1>1. at \in [Clients -> AtType]
  BY DEF ManagerTypeOK, AtType
<1>2. \A e \in Clients : e # c => at'[e] = at[e]
  BY <1>1
<1>3. at' \in [Clients -> AtType]
  BY <1>1
<1>4. ManagerTypeOK'
  BY <1>3 DEF ManagerTypeOK, AtType
<1>5. TreesInv'
  BY <1>2, TreesKept
<1>6. EscalationInv'
  <2>1. \A e \in Clients : Escalates(e)' <=> Escalates(e)
    BY <1>2 DEF Escalates
  <2>2. \A e \in Clients : Asks(e)' => handle'[e] # Nil /\ ref'[e] \in {Nil, handle'[e]}
    BY <1>2, <2>1 DEF Asks, Escalates, EscalationInv, AskersOpen
  <2>3. \A e \in Clients : /\ at'[e].step = "wait" => at[e].step = "wait"
                           /\ at'[e].step = "collect" => at[e].step = "collect"
    BY <1>2
  <2>4. QED BY <2>1, <2>2, <2>3, EscalationKept
<1>7. QED BY <1>2, <1>4, <1>5, <1>6

\* The check of the memory begins.
LEMMA ConstraintsInv ==
  ASSUME ManagerInv, NEW c \in Clients, NEW big \in BOOLEAN, check_current_lock_constraints(c, big)
  PROVE  ManagerInv'
<1> USE DEF ManagerInv
<1>1. /\ at[c].step = "idle" /\ handle[c] # Nil /\ ref[c] \in {Nil, handle[c]}
      /\ at' = [at EXCEPT ![c].step = IF big THEN "checkBig" ELSE "check"]
      /\ UNCHANGED <<locktree_map, lt, max_lock_memory, current_lock_memory, escalator_running,
                     handle, ref, records, todo, opens>>
  BY DEF check_current_lock_constraints, trees, memory
<1>2. at \in [Clients -> AtType]
  BY DEF ManagerTypeOK, AtType
<1>3. /\ at'[c] \in AtType /\ at' = [at EXCEPT ![c] = at'[c]]
      /\ at'[c].step \in {"checkBig", "check"}
  BY <1>1, <1>2 DEF AtType, Steps
<1>4. ManagerTypeOK' /\ TreesInv' /\ EscalationInv' /\ \A e \in Clients : e # c => at'[e] = at[e]
  BY <1>1, <1>3, OwnStep
<1>5. MemoryReserved'
  <2>1. \A e \in Clients : at'[e].step = "acquire" => at[e].step = "acquire"
    BY <1>3, <1>4
  <2>2. QED BY <1>1, <2>1, ReservedKept DEF ManagerTypeOK
<1>6. QED BY <1>4, <1>5

\* A look at the memory: only one that finds room lets the client go on to acquire.
LEMMA CheckMemoryInv ==
  ASSUME ManagerInv, NEW c \in Clients, check_memory(c)
  PROVE  ManagerInv'
<1> USE DEF ManagerInv
<1>1. /\ at[c].step \in {"checkBig", "recheckBig", "check", "recheck"}
      /\ UNCHANGED <<locktree_map, lt, max_lock_memory, current_lock_memory, escalator_running,
                     handle, ref, records, todo, opens>>
  BY DEF check_memory, trees, memory
<1>2. at \in [Clients -> AtType] /\ Idle \in AtType
  BY DEF ManagerTypeOK, AtType, Idle, Steps
<1>3. \/ at' = [at EXCEPT ![c].step = "run", ![c].ret = "recheckBig"]
      \/ at' = [at EXCEPT ![c].step = "run", ![c].ret = "recheck"]
      \/ at' = [at EXCEPT ![c].step = "check"]
      \/ at' = [at EXCEPT ![c] = Idle]
      \/ at' = [at EXCEPT ![c] = [Idle EXCEPT !.step = "check"]]
      \/ at' = [at EXCEPT ![c].step = "acquire"] /\ ~ out_of_locks
      \/ at' = [at EXCEPT ![c] = [Idle EXCEPT !.step = "acquire"]] /\ ~ out_of_locks
  BY DEF check_memory, ToEscalate, Goes
<1>4. /\ at'[c] \in AtType /\ at' = [at EXCEPT ![c] = at'[c]]
      /\ at'[c].step \in {"run", "check", "idle", "acquire"}
      /\ at'[c].step = "acquire" => ~ out_of_locks
  BY <1>2, <1>3 DEF AtType, Steps, Idle
<1>5. handle[c] # Nil /\ ref[c] \in {Nil, handle[c]}
  BY <1>1 DEF EscalationInv, AskersOpen, Asks
<1>6. ManagerTypeOK' /\ TreesInv' /\ EscalationInv' /\ \A e \in Clients : e # c => at'[e] = at[e]
  BY <1>1, <1>4, <1>5, OwnStep
<1>7. MemoryReserved'
  <2>1. CASE at'[c].step # "acquire"
    <3>1. \A e \in Clients : at'[e].step = "acquire" => at[e].step = "acquire"
      BY <1>6, <2>1
    <3>2. QED BY <1>1, <3>1, ReservedKept DEF ManagerTypeOK
  <2>2. CASE at'[c].step = "acquire"
    <3>1. current_lock_memory < max_lock_memory
      BY <1>4, <2>2 DEF out_of_locks, ManagerTypeOK
    <3>2. Acquirers' \in SUBSET Clients
      BY DEF Acquirers
    <3>3. Cardinality(Acquirers') <= Cardinality(Clients) /\ Cardinality(Acquirers') \in Nat
      BY <3>2, ManagerAssumption, FS_Subset, FS_CardinalityType
    <3>4. QED BY <3>1, <3>3, <1>1, AcquirersFinite DEF MemoryReserved, ManagerTypeOK
  <2>3. QED BY <2>1, <2>2
<1>8. QED BY <1>6, <1>7

\* The limit is never set below the memory in use.
LEMMA SetMaxInv ==
  ASSUME ManagerInv, NEW n \in Limits, set_max_lock_memory(n)
  PROVE  ManagerInv'
<1> USE DEF ManagerInv
<1>1. /\ n >= current_lock_memory /\ max_lock_memory' = n /\ n \in Nat
      /\ UNCHANGED <<locktree_map, lt, current_lock_memory, escalator_running, at, handle, ref,
                     records, todo, opens>>
  BY ManagerAssumption DEF set_max_lock_memory, trees
<1>2. ManagerTypeOK'
  BY <1>1 DEF ManagerTypeOK
<1>3. TreesInv'
  BY <1>1, TreesKept
<1>4. EscalationInv'
  BY <1>1, EscalationKept DEF Asks, Escalates, EscalationInv, AskersOpen
<1>5. Acquirers' = Acquirers
  BY <1>1 DEF Acquirers
<1>6. MemoryReserved'
  BY <1>1, <1>5, AcquirersFinite DEF MemoryReserved, ManagerTypeOK
<1>7. QED BY <1>2, <1>3, <1>4, <1>6

\* The lock that was reserved is taken; the first one of a transaction takes a reference.
LEMMA AcquireInv ==
  ASSUME ManagerInv, NEW c \in Clients, acquire_lock(c)
  PROVE  ManagerInv'
<1> USE DEF ManagerInv
<1>1. /\ at[c].step = "acquire" /\ at' = [at EXCEPT ![c] = Idle]
      /\ current_lock_memory' = current_lock_memory + 1
      /\ records' = [records EXCEPT ![c] = @ + 1]
      /\ UNCHANGED <<locktree_map, max_lock_memory, escalator_running, handle, todo, opens>>
  BY DEF acquire_lock
<1>2. handle[c] # Nil /\ ref[c] \in {Nil, handle[c]}
  BY <1>1 DEF EscalationInv, AskersOpen, Asks
<1>3. PICK o \in Objects : o = handle[c]
  BY <1>2 DEF ManagerTypeOK
<1>4. at \in [Clients -> AtType] /\ Idle \in AtType
  BY DEF ManagerTypeOK, AtType, Idle, Steps
<1>5. /\ at' \in [Clients -> AtType] /\ at'[c].step = "idle"
      /\ \A e \in Clients : e # c => at'[e] = at[e]
  BY <1>1, <1>4 DEF Idle
<1>6. current_lock_memory' \in Int /\ records' \in [Clients -> Nat]
  BY <1>1 DEF ManagerTypeOK
<1>7. ManagerTypeOK' /\ TreesInv' /\ \A e \in Clients \ {c} : ref'[e] = ref[e]
  <2>1. CASE ref[c] # Nil
    <3>1. UNCHANGED <<lt, ref>> BY <2>1 DEF acquire_lock
    <3>2. ManagerTypeOK'
      BY <1>1, <1>5, <1>6, <3>1 DEF ManagerTypeOK, AtType
    <3>3. TreesInv'
      BY <1>1, <1>5, <3>1, TreesKept
    <3>4. QED BY <3>1, <3>2, <3>3
  <2>2. CASE ref[c] = Nil
    <3>1. lt' = [lt EXCEPT ![o].refs = @ + 1] /\ ref' = [ref EXCEPT ![c] = o]
      BY <2>2, <1>3 DEF acquire_lock, Add
    <3>2. /\ lt \in [Objects -> [live : BOOLEAN, dict : Dicts \cup {Nil}, refs : Nat]]
          /\ ref \in [Clients -> Objects \cup {Nil}]
      BY DEF ManagerTypeOK
    <3>3. /\ lt' \in [Objects -> [live : BOOLEAN, dict : Dicts \cup {Nil}, refs : Nat]]
          /\ lt'[o].live = lt[o].live /\ lt'[o].dict = lt[o].dict /\ lt'[o].refs = lt[o].refs + 1
          /\ \A p \in Objects : p # o => lt'[p] = lt[p]
      BY <3>1, <3>2
    <3>4. /\ ref' \in [Clients -> Objects \cup {Nil}]
          /\ ref'[c] = o /\ \A e \in Clients : e # c => ref'[e] = ref[e]
      BY <3>1, <3>2
    <3>5. ManagerTypeOK'
      BY <1>1, <1>5, <1>6, <3>3, <3>4 DEF ManagerTypeOK, AtType
    <3>6. /\ lt[o].live /\ lt[o].refs >= 1 /\ lt[o].refs \in Nat /\ o # Nil
          /\ \A e \in Clients : at[e].step = "destroy" => at[e].lt # o
      BY <1>2, <1>3, InUse DEF TreesInv, UsersLive, DestroyedOnce
    <3>7. RefsExact'
      <4> SUFFICES ASSUME NEW p \in Objects
                   PROVE  lt'[p].refs = Count(handle, p) + Count(ref', p)
                                          + (IF p \in todo THEN 1 ELSE 0)
        BY <1>1 DEF RefsExact
      <4>1. Count(ref', p) = Count(ref, p) + (IF ref'[c] = p THEN 1 ELSE 0)
                               - (IF ref[c] = p THEN 1 ELSE 0)
        <5>1. \A e \in Clients : e # c => ref'[e] = ref[e] BY <3>4
        <5>2. QED BY <5>1, RefMoves
      <4>2. ref[c] # p BY <2>2, ManagerAssumption
      <4>3. QED BY <4>1, <4>2, <3>3, <3>4, CountType DEF TreesInv, RefsExact
    <3>8. UsersLive' /\ MapExact'
      <4>1. \A p \in Objects : lt'[p].live = lt[p].live /\ lt'[p].dict = lt[p].dict
        BY <3>3
      <4>2. MapExact'
        BY <1>1, <4>1 DEF TreesInv, MapExact, ManagerTypeOK
      <4>3. \A e \in Clients : ref'[e] # Nil => ref'[e] \in Objects /\ lt[ref'[e]].live
        BY <3>2, <3>4, <3>6 DEF TreesInv, UsersLive
      <4>4. UsersLive'
        BY <1>1, <4>1, <4>3 DEF TreesInv, UsersLive, ManagerTypeOK
      <4>5. QED BY <4>2, <4>4
    <3>9. DestroyedOnce'
      BY <1>1, <1>5, <3>3, <3>6 DEF TreesInv, DestroyedOnce
    <3>10. LookedFor'
      <4>1. \A e \in Clients : at'[e].step = "zero" => at'[e].lt \in Objects /\ at'[e].dict \in Dicts
        BY <1>5 DEF TreesInv, LookedFor
      <4>2. \A e \in Clients : at[e].step \in {"zero", "destroy"} => at'[e] = at[e]
        BY <1>1, <1>5
      <4>3. ASSUME NEW p \in Objects, lt'[p].live
            PROVE  /\ lt'[p].dict \in Dicts
                   /\ \/ \E e \in Clients : at'[e].step = "destroy" /\ at'[e].lt = p
                      \/ /\ locktree_map'[lt'[p].dict] = p
                         /\ lt'[p].refs = 0 =>
                              \E e \in Clients :
                                at'[e].step = "zero" /\ at'[e].lt = p /\ at'[e].dict = lt'[p].dict
        <5>1. /\ lt[p].live /\ lt'[p].dict = lt[p].dict
              /\ lt'[p].refs = 0 => lt[p].refs = 0
          BY <3>3, <3>6, <4>3
        <5>2. QED BY <5>1, <4>2, <1>1 DEF TreesInv, LookedFor
      <4>4. QED BY <4>1, <4>3 DEF LookedFor
    <3>11. QED BY <3>4, <3>5, <3>7, <3>8, <3>9, <3>10 DEF TreesInv
  <2>3. QED BY <2>1, <2>2
<1>8. EscalationInv'
  <2>1. ~ Asks(c)' /\ ~ Escalates(c)' /\ ~ Escalates(c)
    BY <1>1, <1>5 DEF Asks, Escalates
  <2>2. \A e \in Clients \ {c} : Asks(e)' = Asks(e) /\ Escalates(e)' = Escalates(e)
    BY <1>5 DEF Asks, Escalates
  <2>3. \A e \in Clients : /\ at'[e].step = "wait" => at[e].step = "wait"
                           /\ at'[e].step = "collect" => at[e].step = "collect"
    BY <1>5
  <2>4. QED BY <1>1, <1>7, <2>1, <2>2, <2>3, EscalationKept DEF EscalationInv, AskersOpen
<1>9. MemoryReserved'
  <2>1. Acquirers' = Acquirers \ {c} /\ c \in Acquirers
    BY <1>1, <1>5 DEF Acquirers
  <2>2. Cardinality(Acquirers') = Cardinality(Acquirers) - 1
    BY <2>1, AcquirersFinite, FS_RemoveElement
  <2>3. QED BY <1>1, <2>2, AcquirersFinite DEF MemoryReserved, ManagerTypeOK
<1>10. QED BY <1>7, <1>8, <1>9

\* One thread starts the escalation, the others wait for the end of it.
LEMMA RunInv ==
  ASSUME ManagerInv, NEW c \in Clients, run_escalation(c)
  PROVE  ManagerInv'
<1> USE DEF ManagerInv
<1>1. /\ at[c].step = "run"
      /\ at' = [at EXCEPT ![c].step = IF escalator_running THEN "wait" ELSE "collect"]
      /\ escalator_running' = TRUE
      /\ UNCHANGED <<locktree_map, lt, max_lock_memory, current_lock_memory, handle, ref, records,
                     todo, opens>>
  BY DEF run_escalation, Goes, trees, memory
<1>2. at \in [Clients -> AtType]
  BY DEF ManagerTypeOK, AtType
<1>3. /\ at' \in [Clients -> AtType] /\ \A e \in Clients : e # c => at'[e] = at[e]
      /\ at'[c].step = IF escalator_running THEN "wait" ELSE "collect"
  BY <1>1, <1>2 DEF AtType, Steps
<1>4. ManagerTypeOK'
  BY <1>1, <1>3 DEF ManagerTypeOK, AtType
<1>5. TreesInv'
  BY <1>1, <1>3, TreesKept
<1>6. AskersOpen'
  <2>1. Asks(c) BY <1>1 DEF Asks
  <2>2. \A e \in Clients \ {c} : Asks(e)' = Asks(e)
    BY <1>3 DEF Asks, Escalates
  <2>3. QED BY <1>1, <2>1, <2>2 DEF EscalationInv, AskersOpen
<1>7. TodoExact'
  BY <1>1, <1>3 DEF EscalationInv, TodoExact
<1>8. EscalatorExact'
  <2>1. ~ Escalates(c) /\ (Escalates(c)' <=> ~ escalator_running)
    BY <1>1, <1>3 DEF Escalates
  <2>2. \A e \in Clients \ {c} : Escalates(e)' <=> Escalates(e)
    BY <1>3 DEF Escalates
  <2>3. QED BY <1>1, <2>1, <2>2 DEF EscalationInv, EscalatorExact
<1>9. MemoryReserved'
  <2>1. \A e \in Clients : at'[e].step = "acquire" => at[e].step = "acquire"
    BY <1>3
  <2>2. QED BY <1>1, <2>1, ReservedKept DEF ManagerTypeOK
<1>10. QED BY <1>4, <1>5, <1>6, <1>7, <1>8, <1>9 DEF EscalationInv

\* The escalator takes a reference to each locktree of the map.
LEMMA CollectInv ==
  ASSUME ManagerInv, NEW c \in Clients, escalate_all_locktrees(c)
  PROVE  ManagerInv'
<1> USE DEF ManagerInv
<1>1. /\ at[c].step = "collect" /\ todo' = InMap /\ lt' = Collected(InMap)
      /\ at' = [at EXCEPT ![c].step = "escalate"]
      /\ UNCHANGED <<locktree_map, max_lock_memory, current_lock_memory, escalator_running, handle,
                     ref, records, opens>>
  BY DEF escalate_all_locktrees, Goes, memory
<1>2. at \in [Clients -> AtType]
  BY DEF ManagerTypeOK, AtType
<1>3. /\ at' \in [Clients -> AtType] /\ \A e \in Clients : e # c => at'[e] = at[e]
      /\ at'[c].step = "escalate"
  BY <1>1, <1>2 DEF AtType, Steps
<1>4. /\ lt \in [Objects -> [live : BOOLEAN, dict : Dicts \cup {Nil}, refs : Nat]]
      /\ InMap \in SUBSET Objects
  BY DEF ManagerTypeOK, InMap
<1>5. lt' = [o \in Objects |-> IF o \in InMap THEN [lt[o] EXCEPT !.refs = @ + 1] ELSE lt[o]]
  BY <1>1 DEF Collected
<1>6. /\ lt' \in [Objects -> [live : BOOLEAN, dict : Dicts \cup {Nil}, refs : Nat]]
      /\ \A o \in Objects : /\ lt'[o].live = lt[o].live /\ lt'[o].dict = lt[o].dict
                            /\ lt'[o].refs = lt[o].refs + (IF o \in InMap THEN 1 ELSE 0)
  BY <1>4, <1>5
<1>7. ManagerTypeOK'
  BY <1>1, <1>3, <1>4, <1>6 DEF ManagerTypeOK, AtType
<1>8. todo = {}
  BY <1>1 DEF EscalationInv, TodoExact
<1>9. RefsExact'
  <2> SUFFICES ASSUME NEW p \in Objects
               PROVE  lt'[p].refs = Count(handle, p) + Count(ref, p) + (IF p \in InMap THEN 1 ELSE 0)
    BY <1>1 DEF RefsExact
  <2>1. QED BY <1>6, <1>8, CountType DEF TreesInv, RefsExact
<1>10. UsersLive' /\ MapExact'
  <2>1. \A o \in InMap : lt[o].live
    BY DEF InMap, TreesInv, MapExact
  <2>2. QED BY <1>1, <1>4, <1>6, <2>1 DEF TreesInv, UsersLive, MapExact, ManagerTypeOK
<1>11. DestroyedOnce'
  <2>1. \A e \in Clients : at[e].step = "destroy" => at[e].lt \notin InMap
    BY DEF TreesInv, DestroyedOnce, InMap
  <2>2. \A e \in Clients : at'[e].step = "destroy" => e # c /\ at'[e] = at[e]
    BY <1>3
  <2>3. \A e \in Clients : at[e].step = "destroy" =>
          lt'[at[e].lt].live = lt[at[e].lt].live /\ lt'[at[e].lt].refs = lt[at[e].lt].refs
    BY <1>4, <1>6, <2>1 DEF TreesInv, DestroyedOnce
  <2>4. QED BY <1>1, <2>2, <2>3 DEF TreesInv, DestroyedOnce
<1>12. LookedFor'
  <2>1. \A e \in Clients : at'[e].step = "zero" => at'[e].lt \in Objects /\ at'[e].dict \in Dicts
    BY <1>3 DEF TreesInv, LookedFor
  <2>2. \A e \in Clients : at[e].step \in {"zero", "destroy"} => at'[e] = at[e]
    BY <1>1, <1>3
  <2>3. ASSUME NEW p \in Objects, lt'[p].live
        PROVE  /\ lt'[p].dict \in Dicts
               /\ \/ \E e \in Clients : at'[e].step = "destroy" /\ at'[e].lt = p
                  \/ /\ locktree_map'[lt'[p].dict] = p
                     /\ lt'[p].refs = 0 =>
                          \E e \in Clients :
                            at'[e].step = "zero" /\ at'[e].lt = p /\ at'[e].dict = lt'[p].dict
    <3>1. /\ lt[p].live /\ lt'[p].dict = lt[p].dict
          /\ lt'[p].refs = 0 => lt[p].refs = 0
      BY <1>4, <1>6, <2>3
    <3>2. QED BY <3>1, <2>2, <1>1 DEF TreesInv, LookedFor
  <2>4. QED BY <2>1, <2>3 DEF LookedFor
<1>13. EscalationInv'
  <2>1. Escalates(c) /\ Escalates(c)' /\ Asks(c)
    BY <1>1, <1>3 DEF Escalates, Asks
  <2>2. \A e \in Clients \ {c} : Asks(e)' = Asks(e) /\ Escalates(e)' = Escalates(e)
    BY <1>3 DEF Asks, Escalates
  <2>3. AskersOpen' /\ EscalatorExact'
    BY <1>1, <1>3, <2>1, <2>2 DEF EscalationInv, AskersOpen, EscalatorExact
  <2>4. \A e \in Clients : at'[e].step # "collect"
    BY <1>3, <2>1, <1>1 DEF EscalationInv, EscalatorExact, Escalates
  <2>5. TodoExact'
    BY <1>1, <2>1, <2>4 DEF EscalationInv, TodoExact, EscalatorExact
  <2>6. QED BY <2>3, <2>5 DEF EscalationInv
<1>14. MemoryReserved'
  <2>1. \A e \in Clients : at'[e].step = "acquire" => at[e].step = "acquire"
    BY <1>3
  <2>2. QED BY <1>1, <2>1, ReservedKept DEF ManagerTypeOK
<1>15. QED BY <1>7, <1>9, <1>10, <1>11, <1>12, <1>13, <1>14 DEF TreesInv

\* Escalation leaves a transaction fewer records.
LEMMA EscalateInv ==
  ASSUME ManagerInv, NEW c \in Clients, NEW u \in Clients, NEW n \in 1 .. MaxRecords, escalate(c, u, n)
  PROVE  ManagerInv'
<1> USE DEF ManagerInv
<1>1. /\ n \in 1 .. records[u] - 1 /\ records' = [records EXCEPT ![u] = n]
      /\ current_lock_memory' = current_lock_memory - (records[u] - n)
      /\ UNCHANGED <<locktree_map, lt, max_lock_memory, escalator_running, at, handle, ref, todo,
                     opens>>
  BY DEF escalate, trees
<1>2. ManagerTypeOK' /\ current_lock_memory' <= current_lock_memory
  BY <1>1 DEF ManagerTypeOK
<1>3. TreesInv'
  BY <1>1, TreesKept
<1>4. EscalationInv'
  BY <1>1, EscalationKept DEF Asks, Escalates, EscalationInv, AskersOpen
<1>5. MemoryReserved'
  BY <1>1, <1>2, ReservedKept DEF ManagerTypeOK
<1>6. QED BY <1>2, <1>3, <1>4, <1>5

\* Whoever ends the escalation wakes all who wait for it.
LEMMA DoneInv ==
  ASSUME ManagerInv, NEW c \in Clients, escalation_done(c)
  PROVE  ManagerInv'
<1> USE DEF ManagerInv
<1>1. /\ at[c].step = "escalate" /\ todo = {} /\ escalator_running' = FALSE
      /\ at' = [u \in Clients |-> IF u = c \/ at[u].step = "wait"
                                  THEN [at[u] EXCEPT !.step = at[u].ret] ELSE at[u]]
      /\ UNCHANGED <<locktree_map, lt, max_lock_memory, current_lock_memory, handle, ref, records,
                     todo, opens>>
  BY DEF escalation_done, Woken, trees, memory
<1>2. at \in [Clients -> AtType]
  BY DEF ManagerTypeOK, AtType
<1>3. ASSUME NEW e \in Clients
      PROVE  /\ at'[e] \in AtType
             /\ e = c \/ at[e].step = "wait" => at'[e].step \in {"idle", "recheckBig", "recheck"}
             /\ e # c /\ at[e].step # "wait" => at'[e] = at[e]
  BY <1>1, <1>2 DEF AtType, Steps
<1>4. ManagerTypeOK'
  <2>1. at' \in [Clients -> AtType] BY <1>1, <1>3
  <2>2. QED BY <1>1, <2>1 DEF ManagerTypeOK, AtType
<1>5. TreesInv'
  BY <1>1, <1>3, TreesKept
<1>6. Escalates(c) /\ \A e \in Clients : ~ Escalates(e)'
  <2>1. Escalates(c) BY <1>1 DEF Escalates
  <2>2. \A e \in Clients \ {c} : ~ Escalates(e)
    BY <2>1 DEF EscalationInv, EscalatorExact
  <2>3. QED BY <1>3, <2>1, <2>2 DEF Escalates
<1>7. EscalationInv'
  <2>1. \A e \in Clients : Asks(e)' => Asks(e)
    BY <1>1, <1>3, <1>6 DEF Asks
  <2>2. AskersOpen' BY <1>1, <2>1 DEF EscalationInv, AskersOpen
  <2>3. TodoExact' BY <1>1 DEF TodoExact
  <2>4. EscalatorExact' BY <1>1, <1>3, <1>6 DEF EscalatorExact
  <2>5. QED BY <2>2, <2>3, <2>4 DEF EscalationInv
<1>8. MemoryReserved'
  <2>1. \A e \in Clients : at'[e].step = "acquire" => at[e].step = "acquire"
    BY <1>3
  <2>2. QED BY <1>1, <2>1, ReservedKept DEF ManagerTypeOK
<1>9. QED BY <1>4, <1>5, <1>7, <1>8

-----------------------------------------------------------------------------
(* The theorems about the manager *)

LEMMA ManagerInitInv == ManagerInit => ManagerInv
<1> SUFFICES ASSUME ManagerInit PROVE ManagerInv
  OBVIOUS
<1>1. Idle \in AtType /\ Idle.step = "idle"
  BY DEF Idle, AtType, Steps
<1>2. at \in [Clients -> AtType] /\ \A c \in Clients : at[c].step = "idle"
  BY <1>1 DEF ManagerInit
<1>3. ManagerTypeOK
  <2>1. lt \in [Objects -> [live : BOOLEAN, dict : Dicts \cup {Nil}, refs : Nat]]
    BY DEF ManagerInit, NoTree
  <2>2. max_lock_memory \in Nat /\ current_lock_memory \in Int
    BY ManagerAssumption DEF ManagerInit
  <2>3. QED BY <1>2, <2>1, <2>2 DEF ManagerInit, ManagerTypeOK, AtType
<1>4. \A o \in Objects : Count(handle, o) = 0 /\ Count(ref, o) = 0
  BY ManagerAssumption, FS_EmptySet DEF ManagerInit, Count
<1>5. TreesInv
  BY <1>2, <1>4 DEF ManagerInit, TreesInv, RefsExact, UsersLive, MapExact, DestroyedOnce, LookedFor,
                    NoTree
<1>6. EscalationInv
  BY <1>2 DEF ManagerInit, EscalationInv, AskersOpen, Asks, TodoExact, EscalatorExact, Escalates
<1>7. Acquirers = {}
  BY <1>2 DEF Acquirers
<1>8. MemoryReserved
  BY <1>7, FS_EmptySet, AcquirersFinite, ManagerAssumption DEF MemoryReserved, ManagerInit
<1>9. QED BY <1>3, <1>5, <1>6, <1>8 DEF ManagerInv

LEMMA ManagerNextInv == ManagerInv /\ [ManagerNext]_managervars => ManagerInv'
<1> SUFFICES ASSUME ManagerInv, [ManagerNext]_managervars PROVE ManagerInv'
  OBVIOUS
<1>1. CASE UNCHANGED managervars
  <2>1. UNCHANGED <<locktree_map, lt, max_lock_memory, current_lock_memory, escalator_running, at,
                    handle, ref, records, todo, opens>>
    BY <1>1 DEF managervars
  <2>2. ManagerTypeOK' BY <2>1 DEF ManagerInv, ManagerTypeOK
  <2>3. TreesInv' BY <2>1, TreesKept DEF ManagerInv
  <2>4. EscalationInv'
    BY <2>1, EscalationKept DEF ManagerInv, Asks, Escalates, EscalationInv, AskersOpen
  <2>5. MemoryReserved' BY <2>1, ReservedKept DEF ManagerInv, ManagerTypeOK
  <2>6. QED BY <2>2, <2>3, <2>4, <2>5 DEF ManagerInv
<1>2. ASSUME NEW c \in Clients, NEW d \in Dicts,
             get_lt_create(c, d) \/ get_lt_fails(c, d) \/ get_lt_found(c, d)
      PROVE  ManagerInv'
  BY <1>2, CreateInv, FailsInv, FoundInv
<1>3. ASSUME NEW c \in Clients, close_handle(c) \/ release_locks(c) PROVE ManagerInv'
  BY <1>3, CloseInv, ReleaseLocksInv
<1>4. ASSUME NEW c \in Clients, ManagerStep(c) PROVE ManagerInv'
  <2>1. CASE look_again(c) \/ destroy_lt(c)
    BY <2>1, LookAgainInv, DestroyInv
  <2>2. CASE check_memory(c) \/ acquire_lock(c)
    BY <2>2, CheckMemoryInv, AcquireInv
  <2>3. CASE run_escalation(c) \/ escalate_all_locktrees(c) \/ escalation_done(c)
    BY <2>3, RunInv, CollectInv, DoneInv
  <2>4. CASE \E o \in Objects : escalate_locktrees(c, o)
    BY <2>4, EscalateLocktreesInv
  <2>5. QED BY <1>4, <2>1, <2>2, <2>3, <2>4 DEF ManagerStep
<1>5. ASSUME NEW c \in Clients, NEW big \in BOOLEAN, check_current_lock_constraints(c, big)
      PROVE  ManagerInv'
  BY <1>5, ConstraintsInv
<1>6. ASSUME NEW c \in Clients, NEW u \in Clients, NEW n \in 1 .. MaxRecords, escalate(c, u, n)
      PROVE  ManagerInv'
  BY <1>6, EscalateInv
<1>7. ASSUME NEW n \in Limits, set_max_lock_memory(n) PROVE ManagerInv'
  BY <1>7, SetMaxInv
<1>8. QED BY <1>1, <1>2, <1>3, <1>4, <1>5, <1>6, <1>7 DEF ManagerNext

\* The reference counts are exact, a locktree in the map is live and has its dictionary,
\* who destroys one is alone with it, one thread escalates at a time, and a lock that
\* passed its check is within the memory that its check found, in every reachable state.
THEOREM ManagerInvariantHolds == ManagerSpec => []ManagerInv
<1>1. QED BY ManagerInitInv, ManagerNextInv, PTL DEF ManagerSpec

\* What the invariant says of the users of the locktrees and of the memory.
LEMMA ManagerInvSound == ManagerInv => ManagerSound
<1> SUFFICES ASSUME ManagerInv PROVE ManagerSound
  OBVIOUS
<1> USE DEF ManagerInv
<1>1. NoDanglingTree
  <2>1. \A c \in Clients : {handle[c], ref[c]} \subseteq {Nil} \cup {o \in Objects : lt[o].live}
    BY DEF TreesInv, UsersLive, ManagerTypeOK
  <2>2. \A o \in todo \cup InMap : lt[o].live
    BY DEF TreesInv, UsersLive, MapExact, InMap
  <2>3. \A c \in Clients : at[c].step = "destroy" =>
          /\ lt[at[c].lt].live /\ lt[at[c].lt].refs = 0 /\ at[c].lt \notin InMap
          /\ Destroyers(at[c].lt) = {c}
    BY DEF TreesInv, DestroyedOnce, InMap, Destroyers
  <2>4. QED BY <2>1, <2>2, <2>3 DEF NoDanglingTree
<1>2. NoLeakedTree
  BY DEF TreesInv, LookedFor, NoLeakedTree, Destroyers, Lookers
<1>3. MemoryBound
  BY AcquirersFinite DEF MemoryReserved, MemoryBound, ManagerTypeOK
<1>4. EscalatorExact
  BY DEF EscalationInv
<1>5. QED BY <1>1, <1>2, <1>3, <1>4 DEF ManagerSound

\* For any number of clients, dictionaries and places of the heap: nobody has a locktree
\* that was destroyed, a locktree is destroyed by one thread only and none is leaked
\* (release_lt), the memory passes the limit by a lock for each client at most, and who
\* waits for an escalation has somebody to wake it.
THEOREM ManagerSoundHolds == ManagerSpec => []ManagerSound
<1>1. QED BY ManagerInvariantHolds, ManagerInvSound, PTL

-----------------------------------------------------------------------------
(* Finite sets of ranges *)

\* A finite set that is not empty has an element with a least value.
LEMMA LeastExists ==
  ASSUME NEW S, IsFiniteSet(S), S # {}, NEW f, \A x \in S : f[x] \in Int
  PROVE  \E x \in S : \A y \in S : f[x] <= f[y]
<1> DEFINE Below(x) == {y \in S : f[y] < f[x]}
           T == {Below(x) : x \in S}
<1>1. IsWellFoundedOn(StrictSubsetOrdering(S), FiniteSubsetsOf(S))
  BY FS_StrictSubsetOrderingWellFounded
<1>2. T \subseteq FiniteSubsetsOf(S) /\ T # {}
  <2>1. ASSUME NEW x \in S PROVE Below(x) \in FiniteSubsetsOf(S)
    <3>1. Below(x) \in SUBSET S OBVIOUS
    <3> HIDE DEF Below
    <3>2. QED BY <3>1, FS_Subset DEF FiniteSubsetsOf
  <2> HIDE DEF Below
  <2>2. QED BY <2>1
<1>3. PICK U \in T : \A V \in T : <<V, U>> \notin StrictSubsetOrdering(S)
  <2> HIDE DEF T
  <2>1. QED BY <1>1, <1>2, WFMin
<1>4. PICK x \in S : U = Below(x)
  OBVIOUS
<1>5. ASSUME NEW y \in S, f[y] < f[x] PROVE FALSE
  <2>1. Below(y) \in T /\ Below(y) \in SUBSET S /\ Below(x) \in SUBSET S
    OBVIOUS
  <2>2. Below(y) \subseteq Below(x) BY <1>5
  <2>3. y \in Below(x) /\ y \notin Below(y) BY <1>5
  <2>4. <<Below(y), Below(x)>> \in StrictSubsetOrdering(S)
    BY <2>1, <2>2, <2>3 DEF StrictSubsetOrdering
  <2>5. QED BY <2>1, <2>4, <1>3, <1>4
<1>6. \A y \in S : f[x] <= f[y] BY <1>5
<1>7. QED BY <1>6

\* The leftmost, and those that begin and that end furthest to the right.
LEMMA LeftmostExists ==
  ASSUME NEW S, IsFiniteSet(S), S # {}, \A x \in S : x.l \in Int
  PROVE  \E x \in S : \A y \in S : x.l <= y.l
<1> DEFINE f == [x \in S |-> x.l]
<1>1. \A x \in S : f[x] \in Int /\ f[x] = x.l OBVIOUS
<1> HIDE DEF f
<1>2. \E x \in S : \A y \in S : f[x] <= f[y] BY <1>1, LeastExists
<1>3. QED BY <1>1, <1>2

LEMMA LastExists ==
  ASSUME NEW S, IsFiniteSet(S), S # {}, \A x \in S : x.l \in Int
  PROVE  \E x \in S : \A y \in S : y.l <= x.l
<1> DEFINE f == [x \in S |-> 0 - x.l]
<1>1. \A x \in S : f[x] \in Int /\ f[x] = 0 - x.l OBVIOUS
<1> HIDE DEF f
<1>2. PICK x \in S : \A y \in S : f[x] <= f[y] BY <1>1, LeastExists
<1>3. \A y \in S : y.l <= x.l BY <1>1, <1>2
<1>4. QED BY <1>3

LEMMA RightmostExists ==
  ASSUME NEW S, IsFiniteSet(S), S # {}, \A x \in S : x.r \in Int
  PROVE  \E x \in S : \A y \in S : y.r <= x.r
<1> DEFINE f == [x \in S |-> 0 - x.r]
<1>1. \A x \in S : f[x] \in Int /\ f[x] = 0 - x.r OBVIOUS
<1> HIDE DEF f
<1>2. PICK x \in S : \A y \in S : f[x] <= f[y] BY <1>1, LeastExists
<1>3. \A y \in S : y.r <= x.r BY <1>1, <1>2
<1>4. QED BY <1>3

\* The ends of a range are integers, in order.
LEMMA RangeBounds ==
  /\ \A r \in Ranges : r.l \in Int /\ r.r \in Int /\ r.l <= r.r /\ r.l \in Keys /\ r.r \in Keys
  /\ \A a \in TreeLocks : /\ a.l \in Int /\ a.r \in Int /\ a.l <= a.r /\ a.l \in Keys /\ a.r \in Keys
                          /\ a.txn \in Txns
BY LockTreeAssumption DEF Ranges, TreeLocks

-----------------------------------------------------------------------------
(* The migration of the STO buffer *)

\* A start is a left end that no range reaches from the left, an end a right end that no
\* range goes beyond.
LEMMA StartsEnds ==
  ASSUME NEW S
  PROVE  /\ \A x : x \in Starts(S) <=> \E q \in S : q.l = x /\ \A p \in S : ~ (p.l < q.l /\ q.l <= p.r)
         /\ \A x : x \in Ends(S) <=> \E q \in S : q.r = x /\ \A p \in S : ~ (p.l <= q.r /\ q.r < p.r)
BY DEF Starts, Ends

\* The first range that begins after k begins a run, unless one from before k reaches it.
LEMMA NextStart ==
  ASSUME NEW S \in SUBSET Ranges, IsFiniteSet(S), NEW k \in Int,
         NEW q \in S, k < q.l,
         \A p \in S : p.l <= k => p.r <= k
  PROVE  \E x \in Starts(S) : k < x /\ x <= q.l
<1> DEFINE A == {p \in S : k < p.l}
<1>1. A \in SUBSET S /\ q \in A OBVIOUS
<1>2. IsFiniteSet(A) /\ \A p \in A : p.l \in Int
  BY <1>1, FS_Subset, RangeBounds
<1>3. PICK x \in A : \A y \in A : x.l <= y.l
  <2> HIDE DEF A
  <2>1. QED BY <1>1, <1>2, LeftmostExists
<1>4. ASSUME NEW p \in S, p.l < x.l, x.l <= p.r PROVE FALSE
  <2>1. p.l \in Int /\ p.r \in Int /\ x.l \in Int /\ k < x.l BY RangeBounds
  <2>2. CASE p.l <= k BY <2>1, <2>2, <1>4
  <2>3. CASE k < p.l BY <2>1, <2>3, <1>3, <1>4
  <2>4. QED BY <2>1, <2>2, <2>3
<1>5. x.l \in Starts(S) BY <1>4, StartsEnds
<1>6. QED BY <1>1, <1>3, <1>5

\* The run that contains range q ends before every start after q.
LEMMA EndBefore ==
  ASSUME NEW S \in SUBSET Ranges, IsFiniteSet(S), NEW q \in S, NEW k \in Int,
         q.l <= k, \A p \in S : p.l <= k => p.r <= k
  PROVE  \E e \in Ends(S) : q.r <= e /\ e <= k
<1> DEFINE A == {p \in S : p.l <= k}
<1>1. A \in SUBSET S /\ q \in A OBVIOUS
<1>2. IsFiniteSet(A) /\ \A p \in A : p.r \in Int
  BY <1>1, FS_Subset, RangeBounds
<1>3. PICK x \in A : \A y \in A : y.r <= x.r
  <2> HIDE DEF A
  <2>1. QED BY <1>1, <1>2, RightmostExists
<1>4. ASSUME NEW p \in S, p.l <= x.r, x.r < p.r PROVE FALSE
  <2>1. p.l \in Int /\ p.r \in Int /\ x.r \in Int /\ x.r <= k BY RangeBounds
  <2>2. p \in A BY <2>1, <1>4
  <2>3. QED BY <2>1, <2>2, <1>3, <1>4
<1>5. x.r \in Ends(S) BY <1>4, StartsEnds
<1>6. QED BY <1>1, <1>3, <1>5

\* The runs are ranges, and each begins with a range of S.
LEMMA MergedRanges ==
  ASSUME NEW S \in SUBSET Ranges
  PROVE  \A n \in Merged(S) : n \in Ranges /\ \E q \in S : q.l = n.l
<1> SUFFICES ASSUME NEW n \in Merged(S) PROVE n \in Ranges /\ \E q \in S : q.l = n.l
  OBVIOUS
<1>1. n \in [l : Starts(S), r : Ends(S)] /\ n.l <= n.r
  BY DEF Merged
<1>2. Starts(S) \subseteq Keys /\ Ends(S) \subseteq Keys
  BY RangeBounds, StartsEnds
<1>3. n \in [l : Keys, r : Keys]
  BY <1>1, <1>2
<1>4. QED BY <1>1, <1>3, StartsEnds DEF Ranges

\* No two runs overlap.
LEMMA MergedApart ==
  ASSUME NEW S \in SUBSET Ranges, IsFiniteSet(S), NEW m \in Merged(S), NEW n \in Merged(S), m # n
  PROVE  m.r < n.l \/ n.r < m.l
<1>1. /\ m \in [l : Starts(S), r : Ends(S)] /\ m.l <= m.r /\ \A x \in Starts(S) : ~ (m.l < x /\ x <= m.r)
      /\ n \in [l : Starts(S), r : Ends(S)] /\ n.l <= n.r /\ \A x \in Starts(S) : ~ (n.l < x /\ x <= n.r)
  BY DEF Merged
<1>2. /\ m.l \in Int /\ m.r \in Int /\ n.l \in Int /\ n.r \in Int
      /\ m.l \in Starts(S) /\ n.l \in Starts(S) /\ m.r \in Ends(S) /\ n.r \in Ends(S)
  BY <1>1, MergedRanges, RangeBounds
<1>3. CASE m.l # n.l
  BY <1>1, <1>2, <1>3
<1>4. CASE m.l = n.l
  <2>1. m.r # n.r
    BY <1>1, <1>4
  <2>2. ASSUME NEW u, NEW v, u \in {m, n}, v \in {m, n}, u.r < v.r PROVE FALSE
    <3>1. u.r \in Int /\ v.r \in Int /\ u.r \in Ends(S) /\ v.r \in Ends(S) /\ u.l = v.l /\ u.l <= u.r
      BY <1>1, <1>2, <1>4, <2>2
    <3>2. PICK p \in S : p.r = u.r /\ \A y \in S : ~ (y.l <= p.r /\ p.r < y.r)
      BY <3>1, StartsEnds
    <3>3. PICK q \in S : q.r = v.r
      BY <3>1, StartsEnds
    <3>4. u.r < q.l
      BY <3>1, <3>2, <3>3, <2>2, RangeBounds
    <3>5. \A y \in S : y.l <= u.r => y.r <= u.r
      BY <3>1, <3>2, RangeBounds
    <3>6. PICK x \in Starts(S) : u.r < x /\ x <= q.l
      BY <3>1, <3>4, <3>5, NextStart
    <3>7. v.l < x /\ x <= v.r
      <4>1. x \in Int BY StartsEnds, RangeBounds
      <4>2. q.l <= q.r /\ q.l \in Int BY RangeBounds
      <4>3. v.l \in Int BY <1>2, <2>2
      <4>4. QED BY <4>1, <4>2, <4>3, <3>1, <3>3, <3>6
    <3>8. QED BY <3>7, <1>1, <2>2
  <2>3. QED BY <2>1, <2>2, <1>2
<1>5. QED BY <1>3, <1>4

\* Each range of S lies in one run.
LEMMA MergedCovers ==
  ASSUME NEW S \in SUBSET Ranges, IsFiniteSet(S), NEW q \in S
  PROVE  \E n \in Merged(S) : n.l <= q.l /\ q.r <= n.r
<1>0. q.l \in Int /\ q.r \in Int /\ q.l <= q.r
  BY RangeBounds
<1> DEFINE A == {p \in S : p.l <= q.l /\ p.l \in Starts(S)}
           B == {p \in S : q.r <= p.r /\ p.r \in Ends(S)}
<1>1. PICK a \in S : a.l \in Starts(S) /\ a.l <= q.l /\ \A p \in A : p.l <= a.l
  <2>1. PICK x \in S : \A y \in S : x.l <= y.l
    BY LeftmostExists, RangeBounds
  <2>2. x.l \in Starts(S)
    BY <2>1, StartsEnds, RangeBounds
  <2>3. x \in A /\ A \in SUBSET S
    BY <2>1, <2>2
  <2>4. IsFiniteSet(A) /\ \A p \in A : p.l \in Int
    BY <2>3, FS_Subset, RangeBounds
  <2>5. PICK a \in A : \A p \in A : p.l <= a.l
    <3> HIDE DEF A
    <3>1. QED BY <2>3, <2>4, LastExists
  <2>6. QED BY <2>5
<1>2. PICK b \in S : b.r \in Ends(S) /\ q.r <= b.r /\ \A p \in B : b.r <= p.r
  <2>1. PICK x \in S : \A y \in S : y.r <= x.r
    BY RightmostExists, RangeBounds
  <2>2. x.r \in Ends(S)
    BY <2>1, StartsEnds, RangeBounds
  <2>3. x \in B /\ B \in SUBSET S
    BY <2>1, <2>2
  <2>4. IsFiniteSet(B) /\ \A p \in B : p.r \in Int
    BY <2>3, FS_Subset, RangeBounds
  <2> DEFINE f == [p \in B |-> p.r]
  <2>5. \A p \in B : f[p] = p.r /\ f[p] \in Int
    BY <2>4
  <2>6. PICK b \in B : \A p \in B : f[b] <= f[p]
    <3> HIDE DEF B, f
    <3>1. QED BY <2>3, <2>4, <2>5, LeastExists
  <2>7. QED BY <2>5, <2>6
<1>3. a.l \in Int /\ b.r \in Int
  BY RangeBounds
<1>4. ASSUME NEW y \in Starts(S), a.l < y, y <= b.r PROVE FALSE
  <2>1. PICK p \in S : p.l = y /\ \A z \in S : ~ (z.l < p.l /\ p.l <= z.r)
    BY StartsEnds
  <2>2. y \in Int BY <2>1, RangeBounds
  <2>3. ~ (y <= q.l) BY <1>1, <1>3, <1>4, <2>1, <2>2
  <2>4. q.r < y BY <1>0, <2>1, <2>2, <2>3
  <2>5. \A z \in S : z.l <= y - 1 => z.r <= y - 1
    BY <2>1, <2>2, RangeBounds
  <2>6. PICK e \in Ends(S) : q.r <= e /\ e <= y - 1
    BY <1>0, <2>2, <2>4, <2>5, EndBefore
  <2>7. PICK z \in S : z.r = e BY StartsEnds
  <2>8. z \in B BY <2>6, <2>7
  <2>9. b.r <= e BY <1>2, <2>7, <2>8
  <2>10. e \in Int BY <2>7, RangeBounds
  <2>11. QED BY <1>3, <1>4, <2>2, <2>6, <2>9, <2>10
<1> DEFINE n == [l |-> a.l, r |-> b.r]
<1>5. n.l <= n.r /\ n.l <= q.l /\ q.r <= n.r
  BY <1>0, <1>1, <1>2, <1>3
<1>6. n \in Merged(S)
  BY <1>1, <1>2, <1>4, <1>5 DEF Merged
<1>7. QED BY <1>5, <1>6

\* A run has no gap: each of its keys lies in a range of S.
LEMMA MergedTight ==
  ASSUME NEW S \in SUBSET Ranges, IsFiniteSet(S), NEW n \in Merged(S), NEW k \in Int,
         n.l <= k, k <= n.r
  PROVE  \E q \in S : q.l <= k /\ k <= q.r
<1> SUFFICES ASSUME \A q \in S : ~ (q.l <= k /\ k <= q.r) PROVE FALSE
  OBVIOUS
<1>1. /\ n \in [l : Starts(S), r : Ends(S)] /\ \A x \in Starts(S) : ~ (n.l < x /\ x <= n.r)
  BY DEF Merged
<1>2. n.l \in Int /\ n.r \in Int
  BY MergedRanges, RangeBounds
<1>3. PICK q \in S : q.r = n.r
  BY <1>1, StartsEnds
<1>4. k < q.l
  BY <1>2, <1>3, RangeBounds
<1>5. \A p \in S : p.l <= k => p.r <= k
  BY RangeBounds
<1>6. PICK x \in Starts(S) : k < x /\ x <= q.l
  BY <1>4, <1>5, NextStart
<1>7. n.l < x /\ x <= n.r
  <2>1. x \in Int BY StartsEnds, RangeBounds
  <2>2. q.l <= q.r /\ q.l \in Int BY RangeBounds
  <2>3. QED BY <2>1, <2>2, <1>2, <1>3, <1>6
<1>8. QED BY <1>1, <1>7

\* There are finitely many runs.
LEMMA MergedFinite ==
  ASSUME NEW S \in SUBSET Ranges, IsFiniteSet(S)
  PROVE  IsFiniteSet(Merged(S))
<1> DEFINE P == S \X S
           T == {[l |-> p[1].l, r |-> p[2].r] : p \in P}
           f == [p \in P |-> [l |-> p[1].l, r |-> p[2].r]]
<1>1. IsFiniteSet(P) BY FS_Product
<1>2. f \in Surjection(P, T) BY DEF Surjection
<1>3. IsFiniteSet(T)
  <2> HIDE DEF P, T, f
  <2>1. QED BY <1>1, <1>2, FS_Surjection
<1>4. Merged(S) \in SUBSET T
  <2> SUFFICES ASSUME NEW n \in Merged(S) PROVE n \in T
    OBVIOUS
  <2>1. n \in [l : Starts(S), r : Ends(S)] BY DEF Merged
  <2>2. PICK p \in S, q \in S : p.l = n.l /\ q.r = n.r
    BY <2>1, StartsEnds
  <2>3. n = [l |-> p.l, r |-> q.r] BY <2>1, <2>2
  <2>4. <<p, q>> \in P /\ <<p, q>>[1] = p /\ <<p, q>>[2] = q OBVIOUS
  <2>5. QED BY <2>3, <2>4
<1>5. QED BY <1>3, <1>4, FS_Subset

-----------------------------------------------------------------------------
(* Escalation *)

\* a set of row locks that may be a range tree
Flat(T) ==
  /\ T \in SUBSET TreeLocks /\ IsFiniteSet(T)
  /\ \A a, b \in T : a # b => a.r < b.l \/ b.r < a.l

\* In a tree the left ends tell the locks apart, and order them.
LEMMA FlatOrder ==
  ASSUME NEW T, Flat(T)
  PROVE  /\ \A a, b \in T : a.l = b.l => a = b
         /\ \A a, b \in T : a.l < b.l => a.r < b.l
         /\ \A a \in T : a.l \in Int /\ a.r \in Int /\ a.l <= a.r /\ a.txn \in Txns
BY RangeBounds DEF Flat

LEMMA DivisionMonotone ==
  ASSUME NEW m \in Nat, NEW n \in Nat, m <= n
  PROVE  m \div Batch <= n \div Batch /\ m \div Batch \in Int /\ n \div Batch \in Int
<1> PICK d \in Nat : d = Batch /\ d > 0
  BY LockTreeAssumption
<1>1. PICK q \in Int : q = m \div d
  OBVIOUS
<1>2. PICK p \in Int : p = n \div d
  OBVIOUS
<1>3. d * q <= m /\ n < d * p + d
  BY <1>1, <1>2
<1>4. CASE p < q
  <2>1. d * (p + 1) <= d * q
    BY <1>4
  <2>2. QED BY <1>3, <2>1
<1>5. QED BY <1>1, <1>2, <1>4

\* The batches follow the order of the locks.
LEMMA BatchMonotone ==
  ASSUME NEW T, Flat(T), NEW a \in T, NEW b \in T, a.l <= b.l
  PROVE  BatchOf(T, a) <= BatchOf(T, b) /\ BatchOf(T, a) \in Int /\ BatchOf(T, b) \in Int
<1> DEFINE A == {c \in T : c.l < a.l}
           B == {c \in T : c.l < b.l}
<1>1. A \in SUBSET B /\ B \in SUBSET T
  BY FlatOrder
<1>2. IsFiniteSet(B) /\ IsFiniteSet(A)
  BY <1>1, FS_Subset DEF Flat
<1>3. Cardinality(A) \in Nat /\ Cardinality(B) \in Nat /\ Cardinality(A) <= Cardinality(B)
  <2> HIDE DEF A, B
  <2>1. QED BY <1>1, <1>2, FS_Subset, FS_CardinalityType
<1>4. QED BY <1>3, DivisionMonotone DEF BatchOf

\* Being in one run is an equivalence, and what is between two locks of a run is in it.
LEMMA SameRunLaws ==
  ASSUME NEW T, Flat(T)
  PROVE  /\ \A a \in T : SameRun(T, a, a)
         /\ \A a, b \in T : SameRun(T, a, b) => a.txn = b.txn /\ SameRun(T, b, a)
         /\ \A a, b, c \in T : SameRun(T, a, b) /\ SameRun(T, b, c) => SameRun(T, a, c)
         /\ \A a, b, c \in T : SameRun(T, a, b) /\ a.l <= c.l /\ c.l <= b.l => SameRun(T, a, c)
<1>1. ASSUME NEW a \in T PROVE SameRun(T, a, a)
  BY FlatOrder DEF SameRun
<1>2. ASSUME NEW a \in T, NEW b \in T, SameRun(T, a, b) PROVE a.txn = b.txn /\ SameRun(T, b, a)
  <2>1. a.txn = b.txn BY <1>2, FlatOrder DEF SameRun
  <2>2. QED BY <2>1, <1>2 DEF SameRun
<1>3. ASSUME NEW a \in T, NEW b \in T, NEW c \in T, SameRun(T, a, b), SameRun(T, b, c)
      PROVE  SameRun(T, a, c)
  <2>1. a.txn = b.txn BY <1>2, <1>3
  <2>2. QED BY <2>1, <1>3, FlatOrder DEF SameRun
<1>4. ASSUME NEW a \in T, NEW b \in T, NEW c \in T, SameRun(T, a, b), a.l <= c.l, c.l <= b.l
      PROVE  SameRun(T, a, c)
  <2>1. BatchOf(T, a) <= BatchOf(T, c) /\ BatchOf(T, c) <= BatchOf(T, b)
    BY <1>4, BatchMonotone
  <2>2. BatchOf(T, a) \in Int /\ BatchOf(T, c) \in Int
    BY <1>4, BatchMonotone
  <2>3. BatchOf(T, c) = BatchOf(T, a)
    BY <2>1, <2>2, <1>4 DEF SameRun
  <2>4. QED BY <2>3, <1>4, FlatOrder DEF SameRun
<1>5. QED BY <1>1, <1>2, <1>3, <1>4

\* Each lock after escalation goes from the first lock of a run to its last.
LEMMA EscalatedRuns ==
  ASSUME NEW T, Flat(T), NEW e \in Escalated(T)
  PROVE  \E p, q \in T : /\ e = [l |-> p.l, r |-> q.r, txn |-> p.txn]
                         /\ \A c \in T : SameRun(T, p, c) <=> p.l <= c.l /\ c.l <= q.l
                         /\ p.l <= q.l /\ p.r <= q.r /\ p.txn = q.txn
<1>1. PICK x \in T \X T : /\ e = [l |-> x[1].l, r |-> x[2].r, txn |-> x[1].txn]
                          /\ \A c \in T : SameRun(T, x[1], c) <=> x[1].l <= c.l /\ c.l <= x[2].l
  BY DEF Escalated
<1>2. PICK p \in T, q \in T : p = x[1] /\ q = x[2]
  OBVIOUS
<1>3. \A c \in T : SameRun(T, p, c) <=> p.l <= c.l /\ c.l <= q.l
  BY <1>1, <1>2
<1>4. p.l <= q.l
  BY <1>3, SameRunLaws
<1>5. SameRun(T, p, q)
  BY <1>3, <1>4, FlatOrder
<1>6. p.txn = q.txn /\ p.r <= q.r
  BY <1>4, <1>5, SameRunLaws, FlatOrder
<1>7. QED BY <1>1, <1>2, <1>3, <1>4, <1>6

\* It is a row lock, and begins with a lock of the same transaction.
LEMMA EscalatedTraced ==
  ASSUME NEW T, Flat(T), NEW e \in Escalated(T)
  PROVE  e \in TreeLocks /\ \E a \in T : a.txn = e.txn /\ e.l = a.l /\ a.r <= e.r
<1>1. PICK p \in T, q \in T : /\ e = [l |-> p.l, r |-> q.r, txn |-> p.txn]
                              /\ p.l <= q.l /\ p.r <= q.r
  BY EscalatedRuns
<1>2. p \in TreeLocks /\ q \in TreeLocks BY DEF Flat
<1>3. p.l <= q.r BY <1>1, FlatOrder
<1>4. e \in TreeLocks BY <1>1, <1>2, <1>3, RangeBounds DEF TreeLocks
<1>5. e.txn = p.txn /\ e.l = p.l /\ e.r = q.r BY <1>1
<1>6. QED BY <1>1, <1>4, <1>5

\* Every lock lies in a lock of its transaction after escalation.
LEMMA EscalatedCovers ==
  ASSUME NEW T, Flat(T), NEW a \in T
  PROVE  \E e \in Escalated(T) : e.txn = a.txn /\ e.l <= a.l /\ a.r <= e.r
<1> DEFINE R == {c \in T : SameRun(T, a, c)}
<1>1. R \in SUBSET T /\ a \in R
  BY SameRunLaws
<1>2. IsFiniteSet(R) /\ \A c \in R : c.l \in Int
  BY <1>1, FS_Subset, FlatOrder DEF Flat
<1>3. PICK p \in R : \A c \in R : p.l <= c.l
  <2> HIDE DEF R
  <2>1. QED BY <1>1, <1>2, LeftmostExists
<1>4. PICK q \in R : \A c \in R : c.l <= q.l
  <2> HIDE DEF R
  <2>1. QED BY <1>1, <1>2, LastExists
<1>5. SameRun(T, p, a) /\ SameRun(T, p, q) /\ p.txn = a.txn
  BY SameRunLaws
<1>6. ASSUME NEW c \in T PROVE SameRun(T, p, c) <=> p.l <= c.l /\ c.l <= q.l
  <2>1. ASSUME SameRun(T, p, c) PROVE p.l <= c.l /\ c.l <= q.l
    <3>1. SameRun(T, a, p) OBVIOUS
    <3>2. SameRun(T, a, c) BY <2>1, <3>1, SameRunLaws
    <3>3. QED BY <3>2, <1>3, <1>4
  <2>2. ASSUME p.l <= c.l, c.l <= q.l PROVE SameRun(T, p, c)
    BY <2>2, <1>5, SameRunLaws
  <2>3. QED BY <2>1, <2>2
<1> DEFINE e == [l |-> p.l, r |-> q.r, txn |-> p.txn]
<1>7. e \in Escalated(T)
  <2>1. <<p, q>> \in T \X T /\ <<p, q>>[1] = p /\ <<p, q>>[2] = q OBVIOUS
  <2> HIDE DEF R
  <2>2. QED BY <2>1, <1>6 DEF Escalated
<1>8. p.l <= a.l /\ a.r <= q.r
  <2>1. p.l <= a.l /\ a.l <= q.l BY <1>1, <1>3, <1>4
  <2>2. QED BY <2>1, <1>1, FlatOrder
<1>9. QED BY <1>5, <1>7, <1>8

\* Locks after escalation do not touch each other.
LEMMA EscalatedApart ==
  ASSUME NEW T, Flat(T), NEW e \in Escalated(T), NEW f \in Escalated(T), e # f
  PROVE  e.r < f.l \/ f.r < e.l
<1>1. PICK p \in T, q \in T : /\ e = [l |-> p.l, r |-> q.r, txn |-> p.txn]
                              /\ \A c \in T : SameRun(T, p, c) <=> p.l <= c.l /\ c.l <= q.l
                              /\ p.l <= q.l
  BY EscalatedRuns
<1>2. PICK u \in T, v \in T : /\ f = [l |-> u.l, r |-> v.r, txn |-> u.txn]
                              /\ \A c \in T : SameRun(T, u, c) <=> u.l <= c.l /\ c.l <= v.l
                              /\ u.l <= v.l
  BY EscalatedRuns
<1>3. p.l # u.l
  <2> SUFFICES ASSUME p.l = u.l PROVE FALSE OBVIOUS
  <2>1. p = u BY FlatOrder
  <2>2. q.l <= v.l /\ v.l <= q.l BY <2>1, <1>1, <1>2, FlatOrder
  <2>3. q = v BY <2>2, FlatOrder
  <2>4. QED BY <2>1, <2>3, <1>1, <1>2
<1>4. CASE p.l < u.l
  <2>1. ~ SameRun(T, u, p) BY <1>2, <1>4, FlatOrder
  <2>2. ~ SameRun(T, p, u) BY <2>1, SameRunLaws
  <2>3. q.l < u.l BY <2>2, <1>1, <1>4, FlatOrder
  <2>4. q.r < u.l BY <2>3, FlatOrder
  <2>5. QED BY <2>4, <1>1, <1>2
<1>5. CASE u.l < p.l
  <2>1. ~ SameRun(T, p, u) BY <1>1, <1>5, FlatOrder
  <2>2. ~ SameRun(T, u, p) BY <2>1, SameRunLaws
  <2>3. v.l < p.l BY <2>2, <1>2, <1>5, FlatOrder
  <2>4. v.r < p.l BY <2>3, FlatOrder
  <2>5. QED BY <2>4, <1>1, <1>2
<1>6. QED BY <1>3, <1>4, <1>5, FlatOrder

\* Escalation makes a tree of a tree.
LEMMA EscalatedFlat ==
  ASSUME NEW T, Flat(T)
  PROVE  Flat(Escalated(T))
<1> DEFINE P == T \X T
           S == {[l |-> p[1].l, r |-> p[2].r, txn |-> p[1].txn] : p \in P}
           f == [p \in P |-> [l |-> p[1].l, r |-> p[2].r, txn |-> p[1].txn]]
<1>1. IsFiniteSet(P) BY FS_Product DEF Flat
<1>2. f \in Surjection(P, S) BY DEF Surjection
<1>3. IsFiniteSet(S)
  <2> HIDE DEF P, S, f
  <2>1. QED BY <1>1, <1>2, FS_Surjection
<1>4. Escalated(T) \in SUBSET S
  BY DEF Escalated
<1>5. IsFiniteSet(Escalated(T))
  BY <1>3, <1>4, FS_Subset
<1>6. Escalated(T) \in SUBSET TreeLocks
  BY EscalatedTraced
<1>7. QED BY <1>5, <1>6, EscalatedApart DEF Flat

-----------------------------------------------------------------------------
(* A lock that dominates *)

\* The dominating lock and what is left of the tree make a tree again.
LEMMA DominatesFlat ==
  ASSUME NEW T, Flat(T), NEW t \in Txns, NEW r \in Ranges, NEW n \in Ranges,
         Dominates(n, r, Overlapping(T, r))
  PROVE  /\ Flat((T \ Overlapping(T, r)) \cup {Lock(n, t)})
         /\ Lock(n, t) \notin T \ Overlapping(T, r)
         /\ n.l <= r.l /\ r.r <= n.r
         /\ \A a \in Overlapping(T, r) : n.l <= a.l /\ a.r <= n.r
<1> DEFINE O == Overlapping(T, r)
           m == Lock(n, t)
<1>0. r.l \in Int /\ r.r \in Int /\ r.l <= r.r /\ n.l \in Int /\ n.r \in Int /\ n.l <= n.r
      /\ n.l \in Keys /\ n.r \in Keys
  BY RangeBounds
<1>1. /\ n.l \in {r.l} \cup {a.l : a \in O} /\ n.l <= r.l /\ \A a \in O : n.l <= a.l
      /\ n.r \in {r.r} \cup {a.r : a \in O} /\ r.r <= n.r /\ \A a \in O : a.r <= n.r
  BY DEF Dominates
<1>2. m.l = n.l /\ m.r = n.r /\ m \in TreeLocks
  BY <1>0 DEF Lock, TreeLocks
<1>3. ASSUME NEW b \in T \ O PROVE b.r < n.l \/ n.r < b.l
  <2>1. b.r < r.l \/ r.r < b.l
    BY <1>0, FlatOrder DEF Overlapping, Overlaps
  <2>2. CASE b.r < r.l
    <3>1. CASE n.l = r.l BY <2>2, <3>1
    <3>2. CASE n.l # r.l
      <4>1. PICK a \in O : n.l = a.l BY <1>1, <3>2
      <4>2. a \in T /\ r.l <= a.r /\ a # b BY DEF Overlapping, Overlaps
      <4>3. a.r < b.l \/ b.r < a.l BY <4>2 DEF Flat
      <4>4. QED BY <4>1, <4>2, <4>3, <2>2, <1>0, FlatOrder
    <3>3. QED BY <3>1, <3>2
  <2>3. CASE r.r < b.l
    <3>1. CASE n.r = r.r BY <2>3, <3>1
    <3>2. CASE n.r # r.r
      <4>1. PICK a \in O : n.r = a.r BY <1>1, <3>2
      <4>2. a \in T /\ a.l <= r.r /\ a # b BY DEF Overlapping, Overlaps
      <4>3. a.r < b.l \/ b.r < a.l BY <4>2 DEF Flat
      <4>4. QED BY <4>1, <4>2, <4>3, <2>3, <1>0, FlatOrder
    <3>3. QED BY <3>1, <3>2
  <2>4. QED BY <2>1, <2>2, <2>3
<1>4. IsFiniteSet((T \ O) \cup {m})
  <2>1. IsFiniteSet(T \ O)
    <3>1. T \ O \in SUBSET T OBVIOUS
    <3>2. QED BY <3>1, FS_Subset DEF Flat
  <2> HIDE DEF O, m
  <2>2. QED BY <2>1, FS_AddElement
<1>5. Flat((T \ O) \cup {m})
  <2>1. (T \ O) \cup {m} \in SUBSET TreeLocks BY <1>2 DEF Flat
  <2>2. ASSUME NEW a \in (T \ O) \cup {m}, NEW b \in (T \ O) \cup {m}, a # b
        PROVE  a.r < b.l \/ b.r < a.l
    <3> HIDE DEF O, m
    <3>1. CASE a = m BY <3>1, <2>2, <1>2, <1>3
    <3>2. CASE b = m BY <3>2, <2>2, <1>2, <1>3
    <3>3. CASE a \in T /\ b \in T BY <3>3, <2>2 DEF Flat
    <3>4. QED BY <3>1, <3>2, <3>3
  <2>3. QED BY <2>1, <2>2, <1>4 DEF Flat
<1>6. m \notin T \ O
  BY <1>0, <1>2, <1>3
<1>7. QED BY <1>1, <1>5, <1>6

-----------------------------------------------------------------------------
(* The end of the optimization *)

\* The tree that a thread works on once the optimization is over: it is a tree, each of
\* its locks goes back to a range of its transaction, and it covers the same ranges and
\* the same keys as the tree and the buffer before.
LEMMA EarlyTreeFacts ==
  ASSUME LockTreeInv, NEW t, sto = None \/ EndsEarly(t)
  PROVE  /\ Flat(EarlyTree(t)) /\ EarlyMem(t) \in Int
         /\ \A a \in EarlyTree(t) :
              \E r \in granted[a.txn] \cup noted[a.txn] : a.l <= r.r /\ r.l <= a.r
         /\ \A u \in Txns, r \in Ranges : Covered(u, r) =>
              \E a \in EarlyTree(t) : a.txn = u /\ a.l <= r.l /\ r.r <= a.r
         /\ \A u \in Txns, k \in Keys : k \in Holds(u) <=>
              \E a \in EarlyTree(t) : a.txn = u /\ a.l <= k /\ k <= a.r
<1>0. /\ tree \in SUBSET TreeLocks /\ IsFiniteSet(tree) /\ mem \in Int /\ stoSize \in Nat
      /\ sto \in Txns \cup {None} /\ stoBuffer \in SUBSET Ranges /\ IsFiniteSet(stoBuffer)
  BY DEF LockTreeInv, TypeOK
<1>1. CASE ~ EndsEarly(t)
  <2>1. sto = None /\ EarlyTree(t) = tree /\ EarlyMem(t) = mem /\ None \notin Txns
    BY <1>1, LockTreeAssumption DEF EarlyTree, EarlyMem
  <2>2. Flat(tree) BY <1>0 DEF Flat, LockTreeInv, Apart
  <2>3. \A a \in tree : \E r \in granted[a.txn] \cup noted[a.txn] : a.l <= r.r /\ r.l <= a.r
    BY DEF LockTreeInv, AllTraced
  <2>4. \A u \in Txns, r \in Ranges : Covered(u, r) =>
              \E a \in tree : a.txn = u /\ a.l <= r.l /\ r.r <= a.r
    BY <2>1 DEF Covered
  <2>5. \A u \in Txns, k \in Keys : k \in Holds(u) <=>
              \E a \in tree : a.txn = u /\ a.l <= k /\ k <= a.r
    BY <2>1 DEF Holds
  <2>6. QED BY <2>1, <2>2, <2>3, <2>4, <2>5, <1>0
<1>2. CASE EndsEarly(t)
  <2>1. /\ sto \in Txns /\ sto # None /\ EarlyTree(t) = AfterMigration
        /\ EarlyMem(t) = mem + Cardinality(AfterMigration) - stoSize
    BY <1>0, <1>2 DEF EndsEarly, EarlyTree, EarlyMem
  <2>2. tree = {} /\ stoBuffer \subseteq granted[sto] \cup noted[sto]
    BY <2>1 DEF LockTreeInv, StoExact
  <2> DEFINE M == Merged(stoBuffer)
             A == AfterMigration
  <2>3. M \in SUBSET Ranges /\ IsFiniteSet(M)
    BY <1>0, MergedRanges, MergedFinite
  <2>4. A = {Lock(m, sto) : m \in M}
    BY DEF AfterMigration
  <2>5. \A m \in M : Lock(m, sto).l = m.l /\ Lock(m, sto).r = m.r /\ Lock(m, sto).txn = sto
    BY DEF Lock
  <2>6. \A a \in A : \E m \in M : a = Lock(m, sto) /\ a.l = m.l /\ a.r = m.r /\ a.txn = sto
    BY <2>4, <2>5
  <2>7. IsFiniteSet(A)
    <3> DEFINE f == [m \in M |-> Lock(m, sto)]
    <3>1. f \in Surjection(M, A) BY <2>4 DEF Surjection
    <3> HIDE DEF M, A, f
    <3>2. QED BY <3>1, <2>3, FS_Surjection
  <2>8. A \in SUBSET TreeLocks
    <3>1. ASSUME NEW m \in M PROVE Lock(m, sto) \in TreeLocks
      BY <2>1, <2>3, RangeBounds DEF Lock, TreeLocks
    <3>2. QED BY <3>1, <2>4
  <2>9. \A a, b \in A : a # b => a.r < b.l \/ b.r < a.l
    <3> SUFFICES ASSUME NEW a \in A, NEW b \in A, a # b PROVE a.r < b.l \/ b.r < a.l
      OBVIOUS
    <3>1. PICK m \in M : a = Lock(m, sto) /\ a.l = m.l /\ a.r = m.r BY <2>6
    <3>2. PICK n \in M : b = Lock(n, sto) /\ b.l = n.l /\ b.r = n.r BY <2>6
    <3>3. m # n BY <3>1, <3>2
    <3>4. m.r < n.l \/ n.r < m.l BY <3>3, <1>0, MergedApart
    <3>5. QED BY <3>1, <3>2, <3>4
  <2>10. Flat(A) /\ Cardinality(A) \in Nat
    BY <2>7, <2>8, <2>9, FS_CardinalityType DEF Flat
  <2>11. ASSUME NEW a \in A
         PROVE  \E r \in granted[a.txn] \cup noted[a.txn] : a.l <= r.r /\ r.l <= a.r
    <3>1. PICK m \in M : a.l = m.l /\ a.r = m.r /\ a.txn = sto BY <2>6
    <3>2. PICK q \in stoBuffer : q.l = m.l BY <1>0, MergedRanges
    <3>3. q.l <= q.r /\ m.l <= m.r BY <1>0, <2>3, RangeBounds
    <3>4. a.l <= q.r /\ q.l <= a.r BY <3>1, <3>2, <3>3
    <3>5. q \in granted[a.txn] \cup noted[a.txn] BY <3>1, <2>2
    <3>6. QED BY <3>4, <3>5
  <2>12. ASSUME NEW u \in Txns, NEW r \in Ranges, Covered(u, r)
         PROVE  \E a \in A : a.txn = u /\ a.l <= r.l /\ r.r <= a.r
    <3>1. PICK q \in stoBuffer : sto = u /\ q.l <= r.l /\ r.r <= q.r
      BY <2>12, <2>2 DEF Covered
    <3>2. PICK m \in M : m.l <= q.l /\ q.r <= m.r BY <1>0, MergedCovers
    <3>3. Lock(m, sto) \in A BY <2>4
    <3>4. m.l <= r.l /\ r.r <= m.r BY <3>1, <3>2, <1>0, <2>3, RangeBounds
    <3>5. QED BY <3>1, <3>3, <3>4, <2>5
  <2>13. ASSUME NEW u \in Txns, NEW k \in Keys
         PROVE  k \in Holds(u) <=> \E a \in A : a.txn = u /\ a.l <= k /\ k <= a.r
    <3>0. k \in Int BY LockTreeAssumption
    <3>1. ASSUME k \in Holds(u) PROVE \E a \in A : a.txn = u /\ a.l <= k /\ k <= a.r
      <4>1. PICK q \in stoBuffer : sto = u /\ q.l <= k /\ k <= q.r
        BY <3>1, <2>2 DEF Holds
      <4>2. PICK m \in M : m.l <= q.l /\ q.r <= m.r BY <1>0, MergedCovers
      <4>3. Lock(m, sto) \in A BY <2>4
      <4>4. m.l <= k /\ k <= m.r BY <4>1, <4>2, <3>0, <1>0, <2>3, RangeBounds
      <4>5. QED BY <4>1, <4>3, <4>4, <2>5
    <3>2. ASSUME NEW a \in A, a.txn = u, a.l <= k, k <= a.r PROVE k \in Holds(u)
      <4>1. PICK m \in M : a.l = m.l /\ a.r = m.r /\ a.txn = sto BY <2>6
      <4>2. m.l <= k /\ k <= m.r BY <4>1, <3>2
      <4>3. PICK q \in stoBuffer : q.l <= k /\ k <= q.r BY <4>2, <3>0, <1>0, MergedTight
      <4>4. QED BY <4>1, <4>3, <3>2 DEF Holds
    <3>3. QED BY <3>1, <3>2
  <2>14. QED BY <2>1, <2>10, <2>11, <2>12, <2>13, <1>0
<1>3. QED BY <1>1, <1>2

\* After it there is no optimization.
LEMMA EarlySto ==
  ASSUME LockTreeInv, NEW t, sto = None \/ EndsEarly(t), EndEarlyIfNeeded(t)
  PROVE  sto' = None /\ stoBuffer' = {} /\ stoSize' \in Nat /\ score' \in 0..ScoreThreshold
<1>1. score \in 0..ScoreThreshold /\ stoSize \in Nat /\ (sto = None <=> stoBuffer = {})
  BY DEF LockTreeInv, TypeOK, StoExact
<1>2. CASE EndsEarly(t)
  BY <1>2, LockTreeAssumption DEF EndEarlyIfNeeded, StoEnd
<1>3. CASE ~ EndsEarly(t)
  BY <1>1, <1>3 DEF EndEarlyIfNeeded, stoVars
<1>4. QED BY <1>2, <1>3

-----------------------------------------------------------------------------
(* The memory of the locks *)

\* When the buffer of one transaction changes, the records change by as many.
LEMMA RecordsUpdate ==
  \A f, g \in [Txns -> Nat] : \A t \in Txns :
    (\A u \in Txns : u # t => g[u] = f[u]) /\ IsFiniteSet(BufferRecords(f)) =>
      /\ IsFiniteSet(BufferRecords(g))
      /\ Cardinality(BufferRecords(g)) = Cardinality(BufferRecords(f)) - f[t] + g[t]
<1> TAKE f, g \in [Txns -> Nat]
<1> TAKE t \in Txns
<1> HAVE (\A u \in Txns : u # t => g[u] = f[u]) /\ IsFiniteSet(BufferRecords(f))
<1> DEFINE C == UNION {{u} \X (1 .. f[u]) : u \in Txns \ {t}}
           F == {t} \X (1 .. f[t])
           G == {t} \X (1 .. g[t])
<1>1. BufferRecords(f) = C \cup F /\ BufferRecords(g) = C \cup G
  BY DEF BufferRecords
<1>2. C \cap F = {} /\ C \cap G = {}
  OBVIOUS
<1>3. ASSUME NEW n \in Nat
      PROVE  IsFiniteSet({t} \X (1 .. n)) /\ Cardinality({t} \X (1 .. n)) = n
  <2> DEFINE I == 1 .. n
             S == {t}
  <2>1. IsFiniteSet(I) /\ Cardinality(I) = n
    <3>1. 1 \in Int /\ n \in Int OBVIOUS
    <3>2. IsFiniteSet(1 .. n) /\ Cardinality(1 .. n) = IF 1 > n THEN 0 ELSE n - 1 + 1
      BY ONLY <3>1, FS_Interval
    <3>3. QED BY <3>2
  <2>2. IsFiniteSet(S) /\ Cardinality(S) = 1
    BY FS_Singleton
  <2>3. IsFiniteSet(S \X I) /\ Cardinality(S \X I) = Cardinality(S) * Cardinality(I)
    <3> HIDE DEF S, I
    <3>1. QED BY <2>1, <2>2, FS_Product
  <2> HIDE DEF S, I
  <2>4. Cardinality(S \X I) = n BY <2>1, <2>2, <2>3
  <2>5. QED BY <2>3, <2>4 DEF S, I
<1>4. IsFiniteSet(F) /\ Cardinality(F) = f[t] /\ IsFiniteSet(G) /\ Cardinality(G) = g[t]
  BY <1>3
<1>5. IsFiniteSet(C)
  BY <1>1, FS_Subset
<1>6. /\ Cardinality(C \cup F) = Cardinality(C) + f[t] - Cardinality(C \cap F)
      /\ Cardinality(C \cup G) = Cardinality(C) + g[t] - Cardinality(C \cap G)
      /\ IsFiniteSet(C \cup G)
  <2> HIDE DEF C, F, G
  <2>1. QED BY <1>4, <1>5, FS_Union
<1>7. Cardinality(C) \in Nat /\ Cardinality(C \cap F) = 0 /\ Cardinality(C \cap G) = 0
  <2> HIDE DEF C, F, G
  <2>1. QED BY <1>2, <1>5, FS_CardinalityType, FS_EmptySet
<1>8. f[t] \in Nat /\ g[t] \in Nat
  OBVIOUS
<1> HIDE DEF C, F, G
<1>9. QED BY <1>1, <1>6, <1>7, <1>8

\* What the tracker has counted when the optimization is over.
LEMMA EarlyMemory ==
  ASSUME LockTreeInv, NEW t, sto = None \/ EndsEarly(t), EndEarlyIfNeeded(t)
  PROVE  /\ stoSize' = 0
         /\ EarlyMem(t) = Cardinality(EarlyTree(t)) + Cardinality(BufferRecords(notedSize))
         /\ Cardinality(EarlyTree(t)) \in Nat /\ Cardinality(BufferRecords(notedSize)) \in Nat
         /\ Cardinality(tree) \in Nat
<1>1. /\ mem = Cardinality(tree) + stoSize + Cardinality(BufferRecords(notedSize))
      /\ mem \in Int /\ stoSize \in Nat
      /\ sto = None => stoSize = 0
      /\ sto # None => tree = {}
  BY DEF LockTreeInv, MemoryExact, StoExact, TypeOK
<1>2. Cardinality(tree) \in Nat /\ Cardinality(BufferRecords(notedSize)) \in Nat
  BY FS_CardinalityType DEF LockTreeInv
<1>3. Cardinality(EarlyTree(t)) \in Nat
  BY EarlyTreeFacts, FS_CardinalityType DEF Flat
<1>4. CASE EndsEarly(t)
  <2>1. Cardinality(tree) = 0 BY <1>1, <1>4, FS_EmptySet DEF EndsEarly
  <2>2. /\ EarlyMem(t) = mem + Cardinality(AfterMigration) - stoSize
        /\ EarlyTree(t) = AfterMigration
    BY <1>4 DEF EarlyMem, EarlyTree
  <2>3. stoSize' = 0 BY <1>4 DEF EndEarlyIfNeeded, StoEnd
  <2>4. QED BY <2>1, <2>2, <2>3, <1>1, <1>2, <1>3
<1>5. CASE ~ EndsEarly(t)
  <2>1. EarlyMem(t) = mem /\ EarlyTree(t) = tree /\ stoSize = 0 /\ stoSize' = stoSize
    BY <1>1, <1>5 DEF EarlyMem, EarlyTree, EndEarlyIfNeeded, stoVars
  <2>2. QED BY <2>1, <1>1, <1>2
<1>6. QED BY <1>4, <1>5

-----------------------------------------------------------------------------
(* Acquiring a lock *)

\* what the client's variables keep when a request is made
LEMMA MayAskFacts ==
  ASSUME LockTreeInv, NEW t \in Txns, MayAsk(t)
  PROVE  /\ t \in live /\ pc[t] = "run" /\ escalated = None
         /\ ~ HotIndexer => granted[t] = {}
         /\ ~ StoApplies(t) => sto = None \/ EndsEarly(t)
         /\ StoApplies(t) => tree = {} /\ (sto = None \/ sto = t)
<1>1. sto = None <=> stoBuffer = {}
  BY DEF LockTreeInv, StoExact
<1>2. sto # None => tree = {}
  BY DEF LockTreeInv, StoExact
<1>3. QED BY <1>1, <1>2 DEF MayAsk, RootFree, StoApplies, EndsEarly

LEMMA AcquireStoInv ==
  ASSUME LockTreeInv, NEW t \in Txns, NEW r \in Ranges, AcquireSto(t, r)
  PROVE  LockTreeInv'
<1>0. TypeOK /\ IsFiniteSet(stoBuffer) /\ AllCovered /\ StoExact /\ PhasesExact /\ MemoryExact
  BY DEF LockTreeInv
<1>1. /\ t \in live /\ pc[t] = "run" /\ escalated = None /\ (~ HotIndexer => granted[t] = {})
      /\ tree = {} /\ (sto = None \/ sto = t)
  BY MayAskFacts DEF AcquireSto
<1>2. /\ sto' = t /\ stoBuffer' = stoBuffer \cup {r} /\ stoSize' = stoSize + 1
      /\ mem' = mem + 1 /\ tree' = tree /\ score' = score /\ pc' = pc /\ live' = live
      /\ noted' = noted /\ notedSize' = notedSize /\ escalated' = escalated
      /\ granted' = [granted EXCEPT ![t] = @ \cup {r}] /\ used' = [used EXCEPT ![t] = @ + 1]
  BY DEF AcquireSto, Granted
<1>3. granted \in [Txns -> SUBSET Ranges] /\ noted \in [Txns -> SUBSET Ranges] /\ None \notin Txns
  BY <1>0, LockTreeAssumption DEF TypeOK
<1>4. granted'[t] = granted[t] \cup {r} /\ \A u \in Txns : u # t => granted'[u] = granted[u]
  BY <1>2, <1>3
<1>5. TypeOK'
  BY <1>0, <1>2 DEF TypeOK
<1>6. IsFiniteSet(tree') /\ IsFiniteSet(stoBuffer') /\ IsFiniteSet(BufferRecords(notedSize)')
  BY <1>2, FS_AddElement DEF LockTreeInv
<1>7. MemoryExact'
  <2>1. Cardinality(tree) \in Nat /\ Cardinality(BufferRecords(notedSize)) \in Nat
    BY FS_CardinalityType DEF LockTreeInv
  <2>2. BufferRecords(notedSize)' = BufferRecords(notedSize)
    BY <1>2 DEF BufferRecords
  <2>3. stoSize \in Nat BY <1>0 DEF TypeOK
  <2>4. QED BY <2>1, <2>2, <2>3, <1>0, <1>2 DEF MemoryExact
<1>8. Apart' /\ AllTraced'
  BY <1>1, <1>2 DEF Apart, AllTraced
<1>9. AllCovered'
  <2> SUFFICES ASSUME NEW u \in Txns, pc[u] \in NotReleasing, NEW q \in granted'[u] \cup noted'[u]
               PROVE  Covered(u, q)'
    BY <1>2 DEF AllCovered
  <2>1. CASE u = t /\ q = r
    <3>1. r.l <= r.l /\ r.r <= r.r BY RangeBounds
    <3>2. QED BY <2>1, <3>1, <1>2 DEF Covered
  <2>2. CASE q \in granted[u] \cup noted[u]
    <3>1. Covered(u, q) BY <2>2, <1>0 DEF AllCovered
    <3>2. sto = u BY <3>1, <1>1 DEF Covered
    <3>3. QED BY <3>1, <3>2, <1>1, <1>2, <1>3 DEF Covered
  <2>3. QED BY <2>1, <2>2, <1>2, <1>4
<1>10. StoExact'
  <2>1. stoBuffer \subseteq granted[t] \cup noted[t]
    BY <1>0, <1>1, <1>3 DEF StoExact
  <2>2. stoBuffer' \subseteq granted'[t] \cup noted'[t]
    BY <2>1, <1>2, <1>4
  <2>3. sto' # None /\ stoBuffer' # {} /\ pc'[t] \in NotReleasing
    BY <1>1, <1>2, <1>3 DEF NotReleasing
  <2>4. QED BY <2>2, <2>3, <1>1, <1>2 DEF StoExact
<1>11. PhasesExact'
  <2>1. ~ HotIndexer => \A p, q \in granted'[t] : p = q
    BY <1>1, <1>4
  <2>2. QED BY <2>1, <1>0, <1>1, <1>2, <1>4 DEF PhasesExact
<1>12. CalledHaveLocks'
  BY <1>1, <1>2 DEF CalledHaveLocks
<1>13. QED BY <1>5, <1>6, <1>7, <1>8, <1>9, <1>10, <1>11, <1>12 DEF LockTreeInv

LEMMA AcquireTreeInv ==
  ASSUME LockTreeInv, NEW t \in Txns, NEW r \in Ranges, AcquireTree(t, r)
  PROVE  LockTreeInv'
<1>0. TypeOK /\ AllCovered /\ AllTraced /\ PhasesExact
  BY DEF LockTreeInv
<1>1. /\ t \in live /\ pc[t] = "run" /\ escalated = None /\ (~ HotIndexer => granted[t] = {})
      /\ sto = None \/ EndsEarly(t)
  BY MayAskFacts DEF AcquireTree
<1> DEFINE T == EarlyTree(t)
           O == Overlapping(T, r)
<1>2. /\ pc' = pc /\ live' = live /\ noted' = noted /\ notedSize' = notedSize /\ escalated' = escalated
      /\ granted' = [granted EXCEPT ![t] = @ \cup {r}] /\ used' = [used EXCEPT ![t] = @ + 1]
      /\ mem' = EarlyMem(t) - Cardinality(O) + 1 /\ EndEarlyIfNeeded(t)
      /\ \A a \in O : a.txn = t
  BY DEF AcquireTree, Granted, Conflicting
<1>3. PICK n \in Ranges : Dominates(n, r, O) /\ tree' = (T \ O) \cup {Lock(n, t)}
  BY DEF AcquireTree
<1>4. /\ Flat(T) /\ EarlyMem(t) \in Int
      /\ \A a \in T : \E q \in granted[a.txn] \cup noted[a.txn] : a.l <= q.r /\ q.l <= a.r
      /\ \A u \in Txns, q \in Ranges : Covered(u, q) =>
           \E a \in T : a.txn = u /\ a.l <= q.l /\ q.r <= a.r
  BY <1>1, EarlyTreeFacts
<1>5. /\ Flat(tree') /\ Lock(n, t) \notin T \ O
      /\ n.l <= r.l /\ r.r <= n.r /\ \A a \in O : n.l <= a.l /\ a.r <= n.r
  BY <1>3, <1>4, DominatesFlat
<1>6. Lock(n, t).l = n.l /\ Lock(n, t).r = n.r /\ Lock(n, t).txn = t
  BY DEF Lock
<1>7. sto' = None /\ stoBuffer' = {} /\ stoSize' \in Nat /\ score' \in 0..ScoreThreshold
  BY <1>1, <1>2, EarlySto
<1>8. granted \in [Txns -> SUBSET Ranges] /\ noted \in [Txns -> SUBSET Ranges] /\ None \notin Txns
  BY <1>0, LockTreeAssumption DEF TypeOK
<1>9. granted'[t] = granted[t] \cup {r} /\ \A u \in Txns : u # t => granted'[u] = granted[u]
  BY <1>2, <1>8
<1>10. O \in SUBSET T /\ IsFiniteSet(O) /\ Cardinality(O) \in Nat
  <2>1. O \in SUBSET T BY DEF Overlapping
  <2>2. QED BY <2>1, <1>4, FS_Subset, FS_CardinalityType DEF Flat
<1> HIDE DEF T, O
<1>11. TypeOK'
  <2>1. tree' \in SUBSET TreeLocks BY <1>5 DEF Flat
  <2>2. mem' \in Int BY <1>2, <1>4, <1>10
  <2>3. QED BY <2>1, <2>2, <1>0, <1>2, <1>7 DEF TypeOK
<1>12. IsFiniteSet(tree') /\ IsFiniteSet(stoBuffer') /\ IsFiniteSet(BufferRecords(notedSize)')
  BY <1>2, <1>5, <1>7, FS_EmptySet DEF LockTreeInv, Flat
<1>13. MemoryExact'
  <2>1. /\ stoSize' = 0 /\ EarlyMem(t) = Cardinality(T) + Cardinality(BufferRecords(notedSize))
        /\ Cardinality(T) \in Nat /\ Cardinality(BufferRecords(notedSize)) \in Nat
    BY <1>1, <1>2, EarlyMemory DEF T
  <2>2. IsFiniteSet(T \ O) /\ Cardinality(T \ O) = Cardinality(T) - Cardinality(O)
    <3>1. T \cap O = O BY <1>10
    <3>2. QED BY <3>1, <1>4, FS_Difference DEF Flat
  <2>3. Cardinality(tree') = Cardinality(T) - Cardinality(O) + 1
    BY <2>2, <1>3, <1>5, FS_AddElement
  <2>4. BufferRecords(notedSize)' = BufferRecords(notedSize)
    BY <1>2 DEF BufferRecords
  <2>5. QED BY <2>1, <2>3, <2>4, <1>2, <1>10 DEF MemoryExact
<1>14. Apart'
  BY <1>5 DEF Apart, Flat
<1>15. AllTraced'
  <2> SUFFICES ASSUME NEW a \in tree'
               PROVE  \E q \in granted'[a.txn] \cup noted'[a.txn] : a.l <= q.r /\ q.l <= a.r
    BY DEF AllTraced
  <2>1. CASE a = Lock(n, t)
    <3>1. r.l \in Int /\ r.r \in Int /\ r.l <= r.r /\ n.l \in Int /\ n.r \in Int BY RangeBounds
    <3>2. n.l <= r.r /\ r.l <= n.r BY <3>1, <1>5
    <3>3. r \in granted'[t] BY <1>9
    <3>4. QED BY <2>1, <3>2, <3>3, <1>6
  <2>2. CASE a \in T
    <3>1. PICK q \in granted[a.txn] \cup noted[a.txn] : a.l <= q.r /\ q.l <= a.r
      BY <2>2, <1>4
    <3>2. a.txn \in Txns BY <2>2, <1>4, FlatOrder
    <3>3. q \in granted'[a.txn] \cup noted'[a.txn] BY <3>1, <3>2, <1>2, <1>9
    <3>4. QED BY <3>1, <3>3
  <2>3. QED BY <2>1, <2>2, <1>3
<1>16. AllCovered'
  <2> SUFFICES ASSUME NEW u \in Txns, pc[u] \in NotReleasing, NEW q \in granted'[u] \cup noted'[u]
               PROVE  Covered(u, q)'
    BY <1>2 DEF AllCovered
  <2>0. Lock(n, t) \in tree' BY <1>3
  <2>1. CASE u = t /\ q = r
    BY <2>0, <2>1, <1>5, <1>6 DEF Covered
  <2>2. CASE q \in granted[u] \cup noted[u]
    <3>1. Covered(u, q) /\ q \in Ranges BY <2>2, <1>0, <1>8 DEF AllCovered
    <3>2. PICK a \in T : a.txn = u /\ a.l <= q.l /\ q.r <= a.r BY <3>1, <1>4
    <3>3. CASE a \notin O
      <4>1. a \in tree' BY <3>3, <1>3
      <4>2. QED BY <4>1, <3>2 DEF Covered
    <3>4. CASE a \in O
      <4>1. u = t /\ n.l <= a.l /\ a.r <= n.r BY <3>2, <3>4, <1>2, <1>5
      <4>2. n.l <= q.l /\ q.r <= n.r
        BY <3>1, <3>2, <4>1, <1>4, RangeBounds, FlatOrder
      <4>3. QED BY <2>0, <4>1, <4>2, <1>6 DEF Covered
    <3>5. QED BY <3>3, <3>4
  <2>3. QED BY <2>1, <2>2, <1>2, <1>9
<1>17. StoExact'
  <2>1. stoSize' = 0 BY <1>1, <1>2, EarlyMemory
  <2>2. QED BY <2>1, <1>7 DEF StoExact
<1>18. PhasesExact'
  <2>1. ~ HotIndexer => \A p, q \in granted'[t] : p = q
    BY <1>1, <1>9
  <2>2. QED BY <2>1, <1>0, <1>1, <1>2, <1>9 DEF PhasesExact
<1>19. CalledHaveLocks'
  BY <1>1, <1>2 DEF CalledHaveLocks
<1>20. QED BY <1>11, <1>12, <1>13, <1>14, <1>15, <1>16, <1>17, <1>18, <1>19 DEF LockTreeInv

LEMMA AcquireConflictInv ==
  ASSUME LockTreeInv, NEW t \in Txns, NEW r \in Ranges, AcquireConflict(t, r)
  PROVE  LockTreeInv'
<1>0. TypeOK /\ AllCovered /\ PhasesExact
  BY DEF LockTreeInv
<1>1. escalated = None /\ (sto = None \/ EndsEarly(t))
  BY MayAskFacts DEF AcquireConflict
<1>2. /\ pc' = pc /\ live' = live /\ noted' = noted /\ notedSize' = notedSize /\ escalated' = escalated
      /\ granted' = granted /\ used' = [used EXCEPT ![t] = @ + 1]
      /\ mem' = EarlyMem(t) /\ tree' = EarlyTree(t) /\ EndEarlyIfNeeded(t)
  BY DEF AcquireConflict
<1>3. /\ Flat(tree') /\ mem' \in Int
      /\ \A a \in tree' : \E q \in granted[a.txn] \cup noted[a.txn] : a.l <= q.r /\ q.l <= a.r
      /\ \A u \in Txns, q \in Ranges : Covered(u, q) =>
           \E a \in tree' : a.txn = u /\ a.l <= q.l /\ q.r <= a.r
  BY <1>1, <1>2, EarlyTreeFacts
<1>4. sto' = None /\ stoBuffer' = {} /\ stoSize' \in Nat /\ score' \in 0..ScoreThreshold
  BY <1>1, <1>2, EarlySto
<1>5. granted \in [Txns -> SUBSET Ranges] /\ noted \in [Txns -> SUBSET Ranges]
  BY <1>0 DEF TypeOK
<1>6. TypeOK'
  BY <1>0, <1>2, <1>3, <1>4 DEF TypeOK, Flat
<1>7. IsFiniteSet(tree') /\ IsFiniteSet(stoBuffer') /\ IsFiniteSet(BufferRecords(notedSize)')
  BY <1>2, <1>3, <1>4, FS_EmptySet DEF LockTreeInv, Flat
<1>8. MemoryExact' /\ StoExact'
  <2>1. /\ stoSize' = 0 /\ mem' = Cardinality(tree') + Cardinality(BufferRecords(notedSize))
        /\ Cardinality(tree') \in Nat
    BY <1>1, <1>2, EarlyMemory
  <2>2. BufferRecords(notedSize)' = BufferRecords(notedSize)
    BY <1>2 DEF BufferRecords
  <2>3. QED BY <2>1, <2>2, <1>4 DEF MemoryExact, StoExact
<1>9. Apart' /\ AllTraced'
  BY <1>2, <1>3 DEF Apart, AllTraced, Flat
<1>10. AllCovered'
  <2> SUFFICES ASSUME NEW u \in Txns, pc[u] \in NotReleasing, NEW q \in granted[u] \cup noted[u]
               PROVE  Covered(u, q)'
    BY <1>2 DEF AllCovered
  <2>1. Covered(u, q) /\ q \in Ranges BY <1>0, <1>5 DEF AllCovered
  <2>2. QED BY <2>1, <1>3 DEF Covered
<1>11. PhasesExact' /\ CalledHaveLocks'
  BY <1>0, <1>1, <1>2 DEF PhasesExact, CalledHaveLocks
<1>12. QED BY <1>6, <1>7, <1>8, <1>9, <1>10, <1>11 DEF LockTreeInv

-----------------------------------------------------------------------------
(* Noting, ending, releasing *)

LEMMA NoteRowLockInv ==
  ASSUME LockTreeInv, NEW t \in Txns, NEW r \in Ranges, NoteRowLock(t, r)
  PROVE  LockTreeInv'
<1>0. TypeOK /\ AllCovered /\ AllTraced /\ StoExact /\ PhasesExact /\ CalledHaveLocks
      /\ IsFiniteSet(BufferRecords(notedSize)) /\ MemoryExact
  BY DEF LockTreeInv
<1>1. /\ tree' = tree /\ sto' = sto /\ stoBuffer' = stoBuffer /\ stoSize' = stoSize /\ score' = score
      /\ pc' = pc /\ live' = live /\ used' = used /\ escalated' = escalated
      /\ r \in granted[t] /\ mem' = mem + 1
      /\ granted' = [granted EXCEPT ![t] = @ \ {r}] /\ noted' = [noted EXCEPT ![t] = @ \cup {r}]
      /\ notedSize' = [notedSize EXCEPT ![t] = @ + 1]
  BY DEF NoteRowLock, stoVars
<1>2. /\ granted \in [Txns -> SUBSET Ranges] /\ noted \in [Txns -> SUBSET Ranges]
      /\ notedSize \in [Txns -> Nat] /\ tree \in SUBSET TreeLocks /\ mem \in Int /\ stoSize \in Nat
      /\ sto \in Txns \cup {None}
  BY <1>0 DEF TypeOK
<1>3. \A u \in Txns : granted'[u] \cup noted'[u] = granted[u] \cup noted[u]
  BY <1>1, <1>2
<1>4. /\ granted'[t] = granted[t] \ {r} /\ noted'[t] = noted[t] \cup {r} /\ notedSize'[t] = notedSize[t] + 1
      /\ \A u \in Txns : u # t => /\ granted'[u] = granted[u] /\ noted'[u] = noted[u]
                                  /\ notedSize'[u] = notedSize[u]
      /\ notedSize' \in [Txns -> Nat]
  BY <1>1, <1>2
<1>5. TypeOK'
  BY <1>0, <1>1 DEF TypeOK
<1>6. IsFiniteSet(BufferRecords(notedSize)') /\ MemoryExact'
  <2> DEFINE f == notedSize
             g == notedSize'
  <2>1. f \in [Txns -> Nat] /\ g \in [Txns -> Nat] /\ \A u \in Txns : u # t => g[u] = f[u]
    BY <1>2, <1>4
  <2>2. g[t] = f[t] + 1 /\ f[t] \in Nat BY <1>2, <1>4
  <2>3. Cardinality(BufferRecords(f)) \in Nat /\ Cardinality(tree) \in Nat
    BY <1>0, FS_CardinalityType DEF LockTreeInv
  <2>4. IsFiniteSet(BufferRecords(f)) BY <1>0
  <2>5. BufferRecords(notedSize)' = BufferRecords(g) BY DEF BufferRecords
  <2>6. mem = Cardinality(tree) + stoSize + Cardinality(BufferRecords(f)) BY <1>0 DEF MemoryExact
  <2>7. IsFiniteSet(BufferRecords(g))
        /\ Cardinality(BufferRecords(g)) = Cardinality(BufferRecords(f)) - f[t] + g[t]
    <3> HIDE DEF f, g
    <3>1. QED BY <2>1, <2>4, RecordsUpdate
  <2>8. QED BY <2>2, <2>3, <2>5, <2>6, <2>7, <1>1, <1>2 DEF MemoryExact
<1>7. AllTraced'
  BY <1>0, <1>1, <1>2, <1>3, RangeBounds DEF AllTraced
<1>8. AllCovered'
  BY <1>0, <1>1, <1>3 DEF AllCovered, Covered
<1>9. StoExact'
  BY <1>0, <1>1, <1>2, <1>3 DEF StoExact
<1>10. PhasesExact'
  <2>1. pc[t] = "run" BY <1>0, <1>1 DEF PhasesExact
  <2>2. noted'[t] # {} /\ notedSize'[t] # 0 BY <1>2, <1>4
  <2>3. \A p, q \in granted'[t] : p \in granted[t] /\ q \in granted[t] BY <1>4
  <2>4. QED BY <2>1, <2>2, <2>3, <1>0, <1>1, <1>4 DEF PhasesExact
<1>11. CalledHaveLocks' /\ Apart' /\ IsFiniteSet(tree') /\ IsFiniteSet(stoBuffer')
  BY <1>0, <1>1 DEF CalledHaveLocks, Apart, LockTreeInv
<1>12. QED BY <1>5, <1>6, <1>7, <1>8, <1>9, <1>10, <1>11 DEF LockTreeInv

\* A step that moves only the pc of one transaction, and not to where it has no locks.
LEMMA PhaseStepInv ==
  ASSUME LockTreeInv, NEW t \in Txns,
         UNCHANGED <<tree, stoVars, score, mem, granted, noted, notedSize, used, escalated>>,
         pc' \in [Txns -> {"run", "ended", "stoRelease", "releasing", "done"}],
         live' \in SUBSET Txns,
         \A u \in Txns : u # t => pc'[u] = pc[u] /\ (u \in live' <=> u \in live),
         t \notin live', pc'[t] # "run", granted[t] = {},
         pc'[t] = "done" => noted[t] = {}, pc'[t] # "done" => noted[t] # {},
         pc'[t] \in NotReleasing => pc[t] \in NotReleasing,
         sto = t => pc'[t] \in NotReleasing
  PROVE  LockTreeInv'
<1>0. TypeOK /\ AllCovered /\ StoExact /\ PhasesExact
  BY DEF LockTreeInv
<1>1. /\ tree' = tree /\ sto' = sto /\ stoBuffer' = stoBuffer /\ stoSize' = stoSize /\ score' = score
      /\ mem' = mem /\ granted' = granted /\ noted' = noted /\ notedSize' = notedSize
      /\ used' = used /\ escalated' = escalated
  BY DEF stoVars
<1>2. sto \in Txns \cup {None}
  BY <1>0 DEF TypeOK
<1>3. TypeOK'
  BY <1>0, <1>1 DEF TypeOK
<1>4. AllCovered'
  BY <1>0, <1>1 DEF AllCovered, Covered
<1>5. StoExact'
  BY <1>0, <1>1, <1>2 DEF StoExact
<1>6. PhasesExact'
  BY <1>0, <1>1 DEF PhasesExact
<1>7. /\ IsFiniteSet(tree') /\ IsFiniteSet(stoBuffer') /\ IsFiniteSet(BufferRecords(notedSize)')
      /\ MemoryExact' /\ Apart' /\ AllTraced' /\ CalledHaveLocks'
  BY <1>1 DEF LockTreeInv, MemoryExact, BufferRecords, Apart, AllTraced, CalledHaveLocks
<1>8. QED BY <1>3, <1>4, <1>5, <1>6, <1>7 DEF LockTreeInv

LEMMA EndInv ==
  ASSUME LockTreeInv, NEW t \in Txns, End(t)
  PROVE  LockTreeInv'
<1>1. /\ pc \in [Txns -> {"run", "ended", "stoRelease", "releasing", "done"}] /\ live \in SUBSET Txns
      /\ pc[t] = "run" /\ granted[t] = {}
      /\ pc' = [pc EXCEPT ![t] = IF noted[t] = {} THEN "done" ELSE "ended"] /\ live' = live \ {t}
  BY DEF LockTreeInv, TypeOK, End
<1>2. pc'[t] = (IF noted[t] = {} THEN "done" ELSE "ended") /\ \A u \in Txns : u # t => pc'[u] = pc[u]
  BY <1>1
<1>3. sto = t => noted[t] # {}
  BY <1>1, LockTreeAssumption DEF LockTreeInv, StoExact
<1>4. QED BY <1>1, <1>2, <1>3, PhaseStepInv DEF End, NotReleasing

LEMMA StoLookInv ==
  ASSUME LockTreeInv, NEW t \in Txns, StoLook(t)
  PROVE  LockTreeInv'
<1>1. /\ pc \in [Txns -> {"run", "ended", "stoRelease", "releasing", "done"}] /\ live \in SUBSET Txns
      /\ pc[t] = "ended" /\ pc' = [pc EXCEPT ![t] = IF sto # None THEN "stoRelease" ELSE "releasing"]
      /\ live' = live
  BY DEF LockTreeInv, TypeOK, StoLook
<1>2. t \notin live /\ granted[t] = {} /\ noted[t] # {}
  BY <1>1 DEF LockTreeInv, PhasesExact
<1>3. /\ pc'[t] = (IF sto # None THEN "stoRelease" ELSE "releasing")
      /\ \A u \in Txns : u # t => pc'[u] = pc[u]
  BY <1>1
<1>4. None \notin Txns
  BY LockTreeAssumption
<1>5. QED BY <1>1, <1>2, <1>3, <1>4, PhaseStepInv DEF StoLook, NotReleasing

\* The end of a release: the locks are gone, and so is the buffer of the transaction.
LEMMA ReleasedFacts ==
  ASSUME LockTreeInv, NEW t \in Txns, NEW m \in Int, Released(t, m)
  PROVE  /\ pc' \in [Txns -> {"run", "ended", "stoRelease", "releasing", "done"}]
         /\ noted' \in [Txns -> SUBSET Ranges] /\ notedSize' \in [Txns -> Nat] /\ mem' \in Int
         /\ pc'[t] = "done" /\ noted'[t] = {}
         /\ \A u \in Txns : u # t => pc'[u] = pc[u] /\ noted'[u] = noted[u] /\ notedSize'[u] = notedSize[u]
         /\ IsFiniteSet(BufferRecords(notedSize)')
         /\ mem' = m - Cardinality(BufferRecords(notedSize)) + Cardinality(BufferRecords(notedSize)')
         /\ Cardinality(BufferRecords(notedSize)) \in Nat /\ Cardinality(BufferRecords(notedSize)') \in Nat
<1>1. /\ pc \in [Txns -> {"run", "ended", "stoRelease", "releasing", "done"}]
      /\ noted \in [Txns -> SUBSET Ranges] /\ notedSize \in [Txns -> Nat]
      /\ IsFiniteSet(BufferRecords(notedSize))
  BY DEF LockTreeInv, TypeOK
<1>2. /\ pc' = [pc EXCEPT ![t] = "done"] /\ noted' = [noted EXCEPT ![t] = {}]
      /\ notedSize' = [notedSize EXCEPT ![t] = 0] /\ mem' = m - notedSize[t]
  BY DEF Released
<1>3. /\ notedSize' \in [Txns -> Nat] /\ notedSize'[t] = 0 /\ notedSize[t] \in Nat
      /\ \A u \in Txns : u # t => notedSize'[u] = notedSize[u]
  BY <1>1, <1>2
<1> DEFINE f == notedSize
           g == notedSize'
<1>4. BufferRecords(notedSize)' = BufferRecords(g) BY DEF BufferRecords
<1>5. f \in [Txns -> Nat] /\ g \in [Txns -> Nat] /\ (\A u \in Txns : u # t => g[u] = f[u])
      /\ IsFiniteSet(BufferRecords(f))
  BY <1>1, <1>3
<1>6. IsFiniteSet(BufferRecords(g))
      /\ Cardinality(BufferRecords(g)) = Cardinality(BufferRecords(f)) - f[t] + g[t]
  <2> HIDE DEF f, g
  <2>1. QED BY <1>5, RecordsUpdate
<1>7. Cardinality(BufferRecords(f)) \in Nat /\ Cardinality(BufferRecords(g)) \in Nat
  BY <1>5, <1>6, FS_CardinalityType
<1>8. mem' = m - Cardinality(BufferRecords(f)) + Cardinality(BufferRecords(g))
  BY <1>2, <1>3, <1>6, <1>7
<1>9. QED BY <1>1, <1>2, <1>3, <1>4, <1>6, <1>7, <1>8

LEMMA StoTryReleaseInv ==
  ASSUME LockTreeInv, NEW t \in Txns, StoTryRelease(t)
  PROVE  LockTreeInv'
<1>0. TypeOK /\ AllCovered /\ StoExact /\ PhasesExact /\ MemoryExact
  BY DEF LockTreeInv
<1>1. /\ pc[t] = "stoRelease" /\ escalated = None
      /\ tree' = tree /\ score' = score /\ live' = live /\ granted' = granted
      /\ used' = used /\ escalated' = escalated
  BY DEF StoTryRelease, RootFree
<1>2. t \notin live /\ granted[t] = {} /\ noted[t] # {}
  BY <1>0, <1>1 DEF PhasesExact
<1>3. CASE sto = None
  <2>1. /\ pc' = [pc EXCEPT ![t] = "releasing"] /\ mem' = mem /\ noted' = noted /\ notedSize' = notedSize
        /\ UNCHANGED stoVars
    BY <1>3 DEF StoTryRelease
  <2>2. pc \in [Txns -> {"run", "ended", "stoRelease", "releasing", "done"}] /\ live \in SUBSET Txns
    BY <1>0 DEF TypeOK
  <2>3. pc'[t] = "releasing" /\ \A u \in Txns : u # t => pc'[u] = pc[u]
    BY <2>1, <2>2
  <2>4. None \notin Txns BY LockTreeAssumption
  <2>5. pc' \in [Txns -> {"run", "ended", "stoRelease", "releasing", "done"}]
    BY <2>1, <2>2
  <2>6. QED BY <1>1, <1>2, <1>3, <2>1, <2>2, <2>3, <2>4, <2>5, PhaseStepInv DEF NotReleasing
<1>4. CASE sto # None
  <2>1. StoEnd /\ Released(t, mem - stoSize)
    BY <1>4 DEF StoTryRelease
  <2>2. tree = {} /\ mem \in Int /\ stoSize \in Nat
    BY <1>0, <1>4 DEF StoExact, TypeOK
  <2>3. sto' = None /\ stoBuffer' = {} /\ stoSize' = 0
    BY <2>1 DEF StoEnd
  <2>4. /\ pc' \in [Txns -> {"run", "ended", "stoRelease", "releasing", "done"}]
        /\ noted' \in [Txns -> SUBSET Ranges] /\ notedSize' \in [Txns -> Nat] /\ mem' \in Int
        /\ pc'[t] = "done" /\ noted'[t] = {}
        /\ \A u \in Txns : u # t => pc'[u] = pc[u] /\ noted'[u] = noted[u] /\ notedSize'[u] = notedSize[u]
        /\ IsFiniteSet(BufferRecords(notedSize)')
        /\ mem' = mem - stoSize - Cardinality(BufferRecords(notedSize)) + Cardinality(BufferRecords(notedSize)')
        /\ Cardinality(BufferRecords(notedSize)) \in Nat /\ Cardinality(BufferRecords(notedSize)') \in Nat
    <3>1. mem - stoSize \in Int BY <2>2
    <3>2. QED BY <2>1, <3>1, ReleasedFacts
  <2>5. sto = t
    <3>1. PICK q \in noted[t] : TRUE BY <1>2
    <3>2. Covered(t, q) BY <3>1, <1>0, <1>1 DEF AllCovered, NotReleasing
    <3>3. QED BY <3>2, <2>2 DEF Covered
  <2>6. \A u \in Txns : u # t /\ pc[u] \in NotReleasing => granted[u] \cup noted[u] = {}
    BY <1>0, <2>2, <2>5 DEF AllCovered, Covered
  <2>7. TypeOK'
    BY <1>0, <1>1, <2>3, <2>4 DEF TypeOK
  <2>8. IsFiniteSet(tree') /\ IsFiniteSet(stoBuffer')
    BY <1>1, <2>2, <2>3, FS_EmptySet
  <2>9. MemoryExact'
    <3>1. Cardinality(tree) = 0 BY <2>2, FS_EmptySet
    <3>2. QED BY <3>1, <1>0, <1>1, <2>2, <2>3, <2>4 DEF MemoryExact
  <2>10. AllCovered'
    BY <1>1, <2>4, <2>6 DEF AllCovered, NotReleasing
  <2>11. StoExact' /\ Apart' /\ AllTraced' /\ CalledHaveLocks'
    BY <1>1, <2>2, <2>3 DEF StoExact, Apart, AllTraced, CalledHaveLocks
  <2>12. PhasesExact'
    BY <1>0, <1>1, <1>2, <2>4 DEF PhasesExact
  <2>13. QED BY <2>4, <2>7, <2>8, <2>9, <2>10, <2>11, <2>12 DEF LockTreeInv
<1>5. QED BY <1>3, <1>4

LEMMA ReleaseOneInv ==
  ASSUME LockTreeInv, NEW t \in Txns, NEW r \in Ranges, ReleaseOne(t, r)
  PROVE  LockTreeInv'
<1>0. TypeOK /\ AllCovered /\ AllTraced /\ StoExact /\ PhasesExact /\ MemoryExact /\ IsFiniteSet(tree)
      /\ Apart /\ IsFiniteSet(stoBuffer)
  BY DEF LockTreeInv
<1> DEFINE R == RemoveOverlapping(t, r)
<1>1. /\ pc[t] = "releasing" /\ escalated = None /\ r \in noted[t] /\ tree' = tree \ R
      /\ sto' = sto /\ stoBuffer' = stoBuffer /\ stoSize' = stoSize
      /\ live' = live /\ granted' = granted /\ used' = used /\ escalated' = escalated
  BY DEF ReleaseOne, RootFree, stoVars
<1>2. t \notin live /\ granted[t] = {}
  BY <1>0, <1>1 DEF PhasesExact
<1>3. /\ tree \in SUBSET TreeLocks /\ mem \in Int /\ stoSize \in Nat /\ sto \in Txns \cup {None}
      /\ noted \in [Txns -> SUBSET Ranges] /\ granted \in [Txns -> SUBSET Ranges]
  BY <1>0 DEF TypeOK
<1>4. R \in SUBSET tree /\ \A a \in tree : a \in R <=> a.txn = t /\ a.l <= r.r /\ r.l <= a.r
  BY DEF RemoveOverlapping, Overlapping, Overlaps
<1>5. /\ IsFiniteSet(R) /\ Cardinality(R) \in Nat /\ Cardinality(tree) \in Nat
      /\ IsFiniteSet(tree \ R) /\ Cardinality(tree \ R) = Cardinality(tree) - Cardinality(R)
  <2>1. tree \cap R = R BY <1>4
  <2> HIDE DEF R
  <2>2. IsFiniteSet(R) BY <1>0, <1>4, FS_Subset
  <2>3. QED BY <2>1, <2>2, <1>0, FS_Difference, FS_CardinalityType
<1>6. sto # t
  BY <1>0, <1>1, LockTreeAssumption DEF StoExact, NotReleasing
<1> HIDE DEF R
<1>7. /\ pc' \in [Txns -> {"run", "ended", "stoRelease", "releasing", "done"}]
      /\ noted' \in [Txns -> SUBSET Ranges] /\ notedSize' \in [Txns -> Nat] /\ mem' \in Int
      /\ score' \in 0..ScoreThreshold
      /\ noted'[t] = noted[t] \ {r}
      /\ pc'[t] = (IF noted'[t] = {} THEN "done" ELSE "releasing")
      /\ \A u \in Txns : u # t => pc'[u] = pc[u] /\ noted'[u] = noted[u] /\ notedSize'[u] = notedSize[u]
      /\ IsFiniteSet(BufferRecords(notedSize)')
      /\ mem' = mem - Cardinality(R) - Cardinality(BufferRecords(notedSize))
                + Cardinality(BufferRecords(notedSize)')
      /\ Cardinality(BufferRecords(notedSize)) \in Nat /\ Cardinality(BufferRecords(notedSize)') \in Nat
  <2>0. mem - Cardinality(R) \in Int BY <1>3, <1>5
  <2>1. CASE noted[t] = {r}
    <3>1. Released(t, mem - Cardinality(R)) /\ score' = NextScore
      BY <2>1 DEF ReleaseOne, R
    <3>2. score' \in 0..ScoreThreshold
      BY <3>1, <1>0, LockTreeAssumption DEF NextScore, TypeOK
    <3>3. /\ pc' \in [Txns -> {"run", "ended", "stoRelease", "releasing", "done"}]
          /\ noted' \in [Txns -> SUBSET Ranges] /\ notedSize' \in [Txns -> Nat] /\ mem' \in Int
          /\ pc'[t] = "done" /\ noted'[t] = {}
          /\ \A u \in Txns : u # t => pc'[u] = pc[u] /\ noted'[u] = noted[u] /\ notedSize'[u] = notedSize[u]
          /\ IsFiniteSet(BufferRecords(notedSize)')
          /\ mem' = (mem - Cardinality(R)) - Cardinality(BufferRecords(notedSize))
                    + Cardinality(BufferRecords(notedSize)')
          /\ Cardinality(BufferRecords(notedSize)) \in Nat /\ Cardinality(BufferRecords(notedSize)') \in Nat
      BY <3>1, <2>0, ReleasedFacts
    <3>4. noted[t] \ {r} = {} BY <2>1
    <3>5. QED BY <3>2, <3>3, <3>4
  <2>2. CASE noted[t] # {r}
    <3>1. /\ noted' = [noted EXCEPT ![t] = @ \ {r}] /\ mem' = mem - Cardinality(R)
          /\ pc' = pc /\ notedSize' = notedSize /\ score' = score
      BY <2>2 DEF ReleaseOne, R
    <3>2. noted'[t] = noted[t] \ {r} /\ noted'[t] # {} /\ (\A u \in Txns : u # t => noted'[u] = noted[u])
          /\ noted' \in [Txns -> SUBSET Ranges]
      BY <3>1, <2>2, <1>1, <1>3
    <3>3. /\ IsFiniteSet(BufferRecords(notedSize)) /\ Cardinality(BufferRecords(notedSize)) \in Nat
          /\ BufferRecords(notedSize)' = BufferRecords(notedSize)
      BY <3>1, FS_CardinalityType DEF LockTreeInv, BufferRecords
    <3>4. QED BY <3>1, <3>2, <3>3, <2>0, <1>0, <1>1 DEF TypeOK
  <2>3. QED BY <2>1, <2>2
<1>8. TypeOK'
  BY <1>0, <1>1, <1>3, <1>7 DEF TypeOK
<1>9. MemoryExact'
  BY <1>0, <1>1, <1>3, <1>5, <1>7 DEF MemoryExact
<1>10. Apart' /\ IsFiniteSet(tree') /\ IsFiniteSet(stoBuffer') /\ CalledHaveLocks'
  BY <1>0, <1>1, <1>5 DEF Apart, CalledHaveLocks
<1>11. AllTraced'
  <2> SUFFICES ASSUME NEW a \in tree'
               PROVE  \E q \in granted'[a.txn] \cup noted'[a.txn] : a.l <= q.r /\ q.l <= a.r
    BY DEF AllTraced
  <2>1. a \in tree /\ a \notin R /\ a.txn \in Txns BY <1>1, <1>3, RangeBounds
  <2>2. PICK q \in granted[a.txn] \cup noted[a.txn] : a.l <= q.r /\ q.l <= a.r
    BY <2>1, <1>0 DEF AllTraced
  <2>3. q \in granted'[a.txn] \cup noted'[a.txn]
    BY <2>1, <2>2, <1>1, <1>4, <1>7
  <2>4. QED BY <2>2, <2>3
<1>12. AllCovered'
  <2> SUFFICES ASSUME NEW u \in Txns, pc'[u] \in NotReleasing, NEW q \in granted'[u] \cup noted'[u]
               PROVE  Covered(u, q)'
    BY DEF AllCovered
  <2>1. u # t BY <1>7 DEF NotReleasing
  <2>2. pc[u] \in NotReleasing /\ q \in granted[u] \cup noted[u] BY <2>1, <1>1, <1>7
  <2>3. Covered(u, q) BY <2>2, <1>0 DEF AllCovered
  <2>4. QED BY <2>1, <2>3, <1>1, <1>4 DEF Covered
<1>13. StoExact'
  BY <1>0, <1>1, <1>3, <1>6, <1>7 DEF StoExact
<1>14. PhasesExact'
  BY <1>0, <1>1, <1>2, <1>7 DEF PhasesExact
<1>15. QED BY <1>7, <1>8, <1>9, <1>10, <1>11, <1>12, <1>13, <1>14 DEF LockTreeInv

-----------------------------------------------------------------------------
(* Escalating *)

LEMMA EscalateBeginInv ==
  ASSUME LockTreeInv, EscalateBegin
  PROVE  LockTreeInv'
<1>0. TypeOK /\ AllCovered /\ PhasesExact
  BY DEF LockTreeInv
<1> DEFINE E == EarlyTree(None)
           T == Escalated(E)
<1>1. sto = None \/ EndsEarly(None)
  BY DEF EndsEarly
<1>2. /\ tree' = T /\ mem' = EarlyMem(None) - Cardinality(E) + Cardinality(T)
      /\ escalated' = {a.txn : a \in T} /\ EndEarlyIfNeeded(None)
      /\ pc' = pc /\ live' = live /\ granted' = granted /\ noted' = noted
      /\ notedSize' = notedSize /\ used' = used
  BY DEF EscalateBegin, clientVars
<1>3. /\ Flat(E) /\ EarlyMem(None) \in Int
      /\ \A a \in E : \E q \in granted[a.txn] \cup noted[a.txn] : a.l <= q.r /\ q.l <= a.r
      /\ \A u \in Txns, q \in Ranges : Covered(u, q) =>
           \E a \in E : a.txn = u /\ a.l <= q.l /\ q.r <= a.r
  BY <1>1, EarlyTreeFacts
<1>4. sto' = None /\ stoBuffer' = {} /\ stoSize' \in Nat /\ score' \in 0..ScoreThreshold
  BY <1>1, <1>2, EarlySto
<1>5. /\ stoSize' = 0 /\ EarlyMem(None) = Cardinality(E) + Cardinality(BufferRecords(notedSize))
      /\ Cardinality(E) \in Nat /\ Cardinality(BufferRecords(notedSize)) \in Nat
  BY <1>1, <1>2, EarlyMemory
<1>6. granted \in [Txns -> SUBSET Ranges] /\ noted \in [Txns -> SUBSET Ranges]
  BY <1>0 DEF TypeOK
<1> HIDE DEF E
<1>7. Flat(T) /\ Cardinality(T) \in Nat
  BY <1>3, EscalatedFlat, FS_CardinalityType DEF Flat
<1>8. /\ \A e \in T : \E a \in E : a.txn = e.txn /\ e.l = a.l /\ a.r <= e.r
      /\ \A a \in E : \E e \in T : e.txn = a.txn /\ e.l <= a.l /\ a.r <= e.r
  BY <1>3, EscalatedTraced, EscalatedCovers
<1> HIDE DEF T
<1>9. TypeOK'
  <2>1. tree' \in SUBSET TreeLocks BY <1>2, <1>7 DEF Flat
  <2>2. mem' \in Int BY <1>2, <1>3, <1>5, <1>7
  <2>3. escalated' \in SUBSET Txns BY <1>2, <1>7, FlatOrder
  <2>4. QED BY <2>1, <2>2, <2>3, <1>0, <1>2, <1>4 DEF TypeOK
<1>10. IsFiniteSet(tree') /\ IsFiniteSet(stoBuffer') /\ IsFiniteSet(BufferRecords(notedSize)')
  BY <1>2, <1>4, <1>7, FS_EmptySet DEF LockTreeInv, Flat
<1>11. MemoryExact' /\ StoExact'
  <2>1. BufferRecords(notedSize)' = BufferRecords(notedSize)
    BY <1>2 DEF BufferRecords
  <2>2. QED BY <2>1, <1>2, <1>4, <1>5, <1>7 DEF MemoryExact, StoExact
<1>12. Apart'
  BY <1>2, <1>7 DEF Apart, Flat
<1>13. AllTraced'
  <2> SUFFICES ASSUME NEW e \in T
               PROVE  \E q \in granted[e.txn] \cup noted[e.txn] : e.l <= q.r /\ q.l <= e.r
    BY <1>2 DEF AllTraced
  <2>1. PICK a \in E : a.txn = e.txn /\ e.l = a.l /\ a.r <= e.r BY <1>8
  <2>2. PICK q \in granted[e.txn] \cup noted[e.txn] : a.l <= q.r /\ q.l <= a.r BY <2>1, <1>3
  <2>3. a.txn \in Txns /\ a.r \in Int /\ e.r \in Int BY <1>3, <1>7, FlatOrder
  <2>4. q \in Ranges BY <2>1, <2>2, <2>3, <1>6
  <2>5. e.l <= q.r /\ q.l <= e.r BY <2>1, <2>2, <2>3, <2>4, RangeBounds
  <2>6. QED BY <2>2, <2>5
<1>14. AllCovered'
  <2> SUFFICES ASSUME NEW u \in Txns, pc[u] \in NotReleasing, NEW q \in granted[u] \cup noted[u]
               PROVE  Covered(u, q)'
    BY <1>2 DEF AllCovered
  <2>1. Covered(u, q) /\ q \in Ranges BY <1>0, <1>6 DEF AllCovered
  <2>2. PICK a \in E : a.txn = u /\ a.l <= q.l /\ q.r <= a.r BY <2>1, <1>3
  <2>3. PICK e \in T : e.txn = a.txn /\ e.l <= a.l /\ a.r <= e.r BY <1>8
  <2>4. a.l \in Int /\ a.r \in Int /\ e.l \in Int /\ e.r \in Int BY <1>3, <1>7, FlatOrder
  <2>5. e.txn = u /\ e.l <= q.l /\ q.r <= e.r BY <2>1, <2>2, <2>3, <2>4, RangeBounds
  <2>6. QED BY <2>5, <1>2 DEF Covered
<1>15. PhasesExact'
  BY <1>0, <1>2 DEF PhasesExact
<1>16. CalledHaveLocks'
  BY <1>2 DEF CalledHaveLocks
<1>17. QED BY <1>9, <1>10, <1>11, <1>12, <1>13, <1>14, <1>15, <1>16 DEF LockTreeInv

\* The callback writes the locks of a live transaction over its buffer.
LEMMA EscalateCallbackInv ==
  ASSUME LockTreeInv, NEW t \in Txns, EscalateCallback(t)
  PROVE  LockTreeInv'
<1>0. TypeOK /\ AllCovered /\ AllTraced /\ StoExact /\ PhasesExact /\ MemoryExact /\ CalledHaveLocks
      /\ IsFiniteSet(tree) /\ IsFiniteSet(BufferRecords(notedSize))
  BY DEF LockTreeInv
<1>1. /\ escalated # None /\ t \in escalated /\ escalated' = escalated \ {t}
      /\ tree' = tree /\ sto' = sto /\ stoBuffer' = stoBuffer /\ stoSize' = stoSize /\ score' = score
      /\ pc' = pc /\ live' = live /\ granted' = granted /\ used' = used
  BY DEF EscalateCallback, stoVars
<1>2. /\ tree \in SUBSET TreeLocks /\ mem \in Int /\ stoSize \in Nat
      /\ noted \in [Txns -> SUBSET Ranges] /\ granted \in [Txns -> SUBSET Ranges]
      /\ notedSize \in [Txns -> Nat] /\ escalated \in SUBSET Txns
  BY <1>0, <1>1 DEF TypeOK
<1>3. sto = None
  BY <1>0, <1>1 DEF StoExact
<1>4. /\ IsFiniteSet(tree') /\ IsFiniteSet(stoBuffer') /\ Apart' /\ CalledHaveLocks'
      /\ escalated' \in SUBSET Txns
  BY <1>0, <1>1, <1>2 DEF LockTreeInv, Apart, CalledHaveLocks
<1>5. CASE noted' = noted /\ notedSize' = notedSize /\ mem' = mem
  <2>1. TypeOK'
    BY <1>0, <1>1, <1>4, <1>5 DEF TypeOK
  <2>2. StoExact' /\ PhasesExact'
    BY <1>0, <1>1, <1>3, <1>5 DEF StoExact, PhasesExact
  <2>3. AllCovered' /\ AllTraced'
    BY <1>0, <1>1, <1>5 DEF AllCovered, Covered, AllTraced
  <2>4. MemoryExact' /\ IsFiniteSet(BufferRecords(notedSize)')
    BY <1>0, <1>1, <1>5 DEF MemoryExact, BufferRecords
  <2>5. QED BY <2>1, <2>2, <2>3, <2>4, <1>4 DEF LockTreeInv
<1>6. CASE /\ t \in live /\ noted' = [noted EXCEPT ![t] = {Span(a) : a \in LocksOf(t)}]
           /\ notedSize' = [notedSize EXCEPT ![t] = Cardinality(LocksOf(t))]
           /\ mem' = mem - notedSize[t] + Cardinality(LocksOf(t))
  <2> DEFINE L == LocksOf(t)
             N == {Span(a) : a \in L}
  <2>1. L \in SUBSET tree /\ \A a \in tree : a \in L <=> a.txn = t
    BY DEF LocksOf
  <2>2. \A a \in L : Span(a) \in Ranges /\ Span(a).l = a.l /\ Span(a).r = a.r
    BY <2>1, <1>2, RangeBounds DEF Span, Ranges
  <2>3. N \in SUBSET Ranges /\ (\A a \in L : Span(a) \in N) /\ \A q \in N : \E a \in L : q = Span(a)
    BY <2>2
  <2>4. IsFiniteSet(L) /\ Cardinality(L) \in Nat /\ L # {} /\ Cardinality(L) # 0
    <3>1. L # {} BY <1>0, <1>1, <2>1 DEF CalledHaveLocks
    <3> HIDE DEF L
    <3>2. QED BY <3>1, <2>1, <1>0, FS_Subset, FS_CardinalityType, FS_EmptySet
  <2>5. N # {} BY <2>3, <2>4
  <2> HIDE DEF L, N
  <2>6. /\ noted' = [noted EXCEPT ![t] = N] /\ notedSize' = [notedSize EXCEPT ![t] = Cardinality(L)]
        /\ mem' = mem - notedSize[t] + Cardinality(L)
    BY <1>6 DEF L, N
  <2>7. /\ noted'[t] = N /\ notedSize'[t] = Cardinality(L) /\ notedSize' \in [Txns -> Nat]
        /\ noted' \in [Txns -> SUBSET Ranges]
        /\ \A u \in Txns : u # t => noted'[u] = noted[u] /\ notedSize'[u] = notedSize[u]
    BY <2>3, <2>4, <2>6, <1>2
  <2>8. mem' \in Int BY <2>4, <2>6, <1>2
  <2>9. TypeOK'
    BY <2>7, <2>8, <1>0, <1>1, <1>4 DEF TypeOK
  <2>10. IsFiniteSet(BufferRecords(notedSize)') /\ MemoryExact'
    <3> DEFINE f == notedSize
               g == notedSize'
    <3>1. f \in [Txns -> Nat] /\ g \in [Txns -> Nat] /\ (\A u \in Txns : u # t => g[u] = f[u])
          /\ IsFiniteSet(BufferRecords(f))
      BY <1>0, <1>2, <2>7
    <3>2. IsFiniteSet(BufferRecords(g))
          /\ Cardinality(BufferRecords(g)) = Cardinality(BufferRecords(f)) - f[t] + g[t]
      <4> HIDE DEF f, g
      <4>1. QED BY <3>1, RecordsUpdate
    <3>3. BufferRecords(notedSize)' = BufferRecords(g) BY DEF BufferRecords
    <3>4. Cardinality(BufferRecords(f)) \in Nat /\ Cardinality(tree) \in Nat
      BY <1>0, FS_CardinalityType
    <3>5. mem = Cardinality(tree) + stoSize + Cardinality(BufferRecords(f)) BY <1>0 DEF MemoryExact
    <3>6. g[t] = Cardinality(L) /\ f[t] \in Nat /\ mem' = mem - f[t] + Cardinality(L)
      BY <1>2, <2>6, <2>7
    <3>7. mem' = Cardinality(tree) + stoSize + Cardinality(BufferRecords(g))
      BY <3>2, <3>4, <3>5, <3>6, <1>2, <2>4
    <3>8. QED BY <3>2, <3>3, <3>7, <1>1 DEF MemoryExact
  <2>11. AllTraced'
    <3> SUFFICES ASSUME NEW a \in tree
                 PROVE  \E q \in granted[a.txn] \cup noted'[a.txn] : a.l <= q.r /\ q.l <= a.r
      BY <1>1 DEF AllTraced
    <3>1. CASE a.txn = t
      <4>1. Span(a) \in noted'[t] BY <3>1, <2>1, <2>3, <2>7
      <4>2. a.l <= Span(a).r /\ Span(a).l <= a.r BY <3>1, <2>1, <2>2, <1>2, RangeBounds
      <4>3. QED BY <3>1, <4>1, <4>2
    <3>2. CASE a.txn # t
      <4>1. a.txn \in Txns BY <1>2, RangeBounds
      <4>2. QED BY <3>2, <4>1, <2>7, <1>0 DEF AllTraced
    <3>3. QED BY <3>1, <3>2
  <2>12. AllCovered'
    <3> SUFFICES ASSUME NEW u \in Txns, pc[u] \in NotReleasing, NEW q \in granted[u] \cup noted'[u]
                 PROVE  Covered(u, q)'
      BY <1>1 DEF AllCovered
    <3>1. CASE q \in granted[u] \cup noted[u]
      BY <3>1, <1>0, <1>1 DEF AllCovered, Covered
    <3>2. CASE u = t /\ q \in N
      <4>1. PICK a \in L : q = Span(a) BY <3>2, <2>3
      <4>2. a \in tree /\ a.txn = t BY <4>1, <2>1
      <4>3. a.l <= q.l /\ q.r <= a.r BY <4>1, <4>2, <2>2, <1>2, RangeBounds
      <4>4. QED BY <3>2, <4>2, <4>3, <1>1 DEF Covered
    <3>3. QED BY <3>1, <3>2, <2>7
  <2>13. StoExact'
    BY <1>0, <1>1, <1>3 DEF StoExact
  <2>14. PhasesExact'
    <3>1. pc[t] = "run" BY <1>0, <1>6 DEF PhasesExact
    <3>2. QED BY <3>1, <1>0, <1>1, <2>4, <2>5, <2>7 DEF PhasesExact
  <2>15. QED BY <2>9, <2>10, <2>11, <2>12, <2>13, <2>14, <1>4 DEF LockTreeInv
<1>7. QED BY <1>5, <1>6 DEF EscalateCallback

LEMMA EscalateEndInv ==
  ASSUME LockTreeInv, EscalateEnd
  PROVE  LockTreeInv'
<1>1. /\ escalated' = None /\ tree' = tree /\ sto' = sto /\ stoBuffer' = stoBuffer /\ stoSize' = stoSize
      /\ score' = score /\ mem' = mem /\ pc' = pc /\ live' = live /\ granted' = granted
      /\ noted' = noted /\ notedSize' = notedSize /\ used' = used
  BY DEF EscalateEnd, stoVars, clientVars
<1>2. TypeOK' /\ StoExact' /\ CalledHaveLocks'
  BY <1>1 DEF LockTreeInv, TypeOK, StoExact, CalledHaveLocks
<1>3. MemoryExact' /\ IsFiniteSet(BufferRecords(notedSize)') /\ Apart' /\ PhasesExact'
  BY <1>1 DEF LockTreeInv, MemoryExact, BufferRecords, Apart, PhasesExact
<1>4. AllCovered' /\ AllTraced'
  BY <1>1 DEF LockTreeInv, AllCovered, Covered, AllTraced
<1>5. QED BY <1>1, <1>2, <1>3, <1>4 DEF LockTreeInv

-----------------------------------------------------------------------------
(* The locktree's theorems *)

LEMMA LockTreeInitInv == Init => LockTreeInv
<1> SUFFICES ASSUME Init PROVE LockTreeInv
  OBVIOUS
<1>1. /\ tree = {} /\ sto = None /\ stoBuffer = {} /\ stoSize = 0 /\ score = ScoreThreshold /\ mem = 0
      /\ pc = [t \in Txns |-> "run"] /\ live = Txns /\ granted = [t \in Txns |-> {}]
      /\ noted = [t \in Txns |-> {}] /\ notedSize = [t \in Txns |-> 0] /\ used = [t \in Txns |-> 0]
      /\ escalated = None
  BY DEF Init
<1>2. TypeOK
  BY <1>1, LockTreeAssumption DEF TypeOK
<1>3. BufferRecords(notedSize) = {}
  BY <1>1 DEF BufferRecords
<1>4. IsFiniteSet({}) /\ Cardinality({}) = 0
  BY FS_EmptySet
<1>5. MemoryExact
  BY <1>1, <1>3, <1>4 DEF MemoryExact
<1>6. Apart /\ AllTraced /\ AllCovered /\ StoExact /\ CalledHaveLocks
  BY <1>1 DEF Apart, AllTraced, AllCovered, StoExact, CalledHaveLocks
<1>7. PhasesExact
  BY <1>1 DEF PhasesExact
<1>8. QED BY <1>1, <1>2, <1>3, <1>4, <1>5, <1>6, <1>7 DEF LockTreeInv

LEMMA LockTreeNextInv == LockTreeInv /\ [Next]_vars => LockTreeInv'
<1> SUFFICES ASSUME LockTreeInv, [Next]_vars PROVE LockTreeInv'
  OBVIOUS
<1>1. CASE UNCHANGED vars
  <2>1. /\ escalated' = escalated /\ tree' = tree /\ sto' = sto /\ stoBuffer' = stoBuffer
        /\ stoSize' = stoSize /\ score' = score /\ mem' = mem /\ pc' = pc /\ live' = live
        /\ granted' = granted /\ noted' = noted /\ notedSize' = notedSize /\ used' = used
    BY <1>1 DEF vars
  <2>2. TypeOK' /\ StoExact' /\ CalledHaveLocks'
    BY <2>1 DEF LockTreeInv, TypeOK, StoExact, CalledHaveLocks
  <2>3. MemoryExact' /\ IsFiniteSet(BufferRecords(notedSize)') /\ Apart' /\ PhasesExact'
    BY <2>1 DEF LockTreeInv, MemoryExact, BufferRecords, Apart, PhasesExact
  <2>4. AllCovered' /\ AllTraced'
    BY <2>1 DEF LockTreeInv, AllCovered, Covered, AllTraced
  <2>5. QED BY <2>1, <2>2, <2>3, <2>4 DEF LockTreeInv
<1>2. ASSUME NEW t \in Txns, NEW r \in Ranges, AcquireSto(t, r) \/ AcquireTree(t, r) \/ AcquireConflict(t, r)
      PROVE  LockTreeInv'
  BY <1>2, AcquireStoInv, AcquireTreeInv, AcquireConflictInv
<1>3. ASSUME NEW t \in Txns, End(t) PROVE LockTreeInv'
  BY <1>3, EndInv
<1>4. ASSUME NEW t \in Txns, Step(t) PROVE LockTreeInv'
  BY <1>4, StoLookInv, StoTryReleaseInv, NoteRowLockInv, ReleaseOneInv DEF Step
<1>5. CASE EscalateBegin
  BY <1>5, EscalateBeginInv
<1>6. CASE EscalateStep
  BY <1>6, EscalateEndInv, EscalateCallbackInv DEF EscalateStep
<1>7. QED BY <1>1, <1>2, <1>3, <1>4, <1>5, <1>6 DEF Next

\* The locktree keeps its inductive invariant, for any transactions, keys, thresholds
\* and batch size.
THEOREM LockTreeInvariantHolds == Spec => []LockTreeInv
<1>1. QED BY LockTreeInitInv, LockTreeNextInv, PTL DEF Spec

\* Row locks are exclusive, and a live transaction holds every key it was granted,
\* through migration, consolidation and escalation (locktree.cc).
THEOREM LocksExactHolds == Spec => []LocksExact
<1>1. LockTreeInv => LocksExact
  <2> SUFFICES ASSUME LockTreeInv PROVE LocksExact
    OBVIOUS
  <2>0. TypeOK /\ Apart /\ AllCovered /\ PhasesExact
    BY DEF LockTreeInv
  <2>1. /\ tree \in SUBSET TreeLocks /\ stoBuffer \in SUBSET Ranges /\ live \in SUBSET Txns
        /\ noted \in [Txns -> SUBSET Ranges] /\ granted \in [Txns -> SUBSET Ranges]
        /\ Keys \subseteq Int
    BY <2>0, LockTreeAssumption DEF TypeOK
  <2>2. Disjoint
    <3> SUFFICES ASSUME NEW a \in tree, NEW b \in tree, a # b, NEW k \in Keys,
                        a.l <= k, k <= a.r, b.l <= k, k <= b.r
                 PROVE  FALSE
      BY DEF Disjoint
    <3>1. a.r < b.l \/ b.r < a.l BY <2>0 DEF Apart
    <3>2. QED BY <3>1, <2>1, RangeBounds
  <2>3. KeepsItsLocks
    <3> SUFFICES ASSUME NEW t \in live, NEW r \in granted[t] \cup noted[t], NEW k \in Keys,
                        r.l <= k, k <= r.r
                 PROVE  k \in Holds(t)
      BY DEF KeepsItsLocks
    <3>1. t \in Txns /\ pc[t] \in NotReleasing /\ r \in Ranges
      BY <2>0, <2>1 DEF PhasesExact, NotReleasing
    <3>2. Covered(t, r) BY <2>0, <3>1 DEF AllCovered
    <3>3. CASE \E a \in tree : a.txn = t /\ a.l <= r.l /\ r.r <= a.r
      BY <3>1, <3>3, <2>1, RangeBounds DEF Holds
    <3>4. CASE sto = t /\ \E q \in stoBuffer : q.l <= r.l /\ r.r <= q.r
      BY <3>1, <3>4, <2>1, RangeBounds DEF Holds
    <3>5. QED BY <3>2, <3>3, <3>4 DEF Covered
  <2>4. QED BY <2>2, <2>3 DEF LocksExact
<1>2. QED BY <1>1, LockTreeInvariantHolds, PTL

\* No lock outlives its transaction: each goes back to a range that is still to be
\* released, and a transaction that is done holds nothing (release_locks).
THEOREM NothingLeakedHolds == Spec => []NothingLeaked
<1>1. LockTreeInv => NothingLeaked
  <2> SUFFICES ASSUME LockTreeInv PROVE NothingLeaked
    OBVIOUS
  <2>1. AllTraced /\ StoExact /\ PhasesExact
    BY DEF LockTreeInv
  <2>2. ASSUME NEW t \in Txns, pc[t] = "done" PROVE Holds(t) = {}
    <3>1. granted[t] = {} /\ noted[t] = {} BY <2>1, <2>2 DEF PhasesExact
    <3>2. \A a \in tree : a.txn # t BY <3>1, <2>1 DEF AllTraced
    <3>3. sto # t BY <2>1, <2>2, LockTreeAssumption DEF StoExact, NotReleasing
    <3>4. QED BY <3>2, <3>3 DEF Holds
  <2>3. QED BY <2>1, <2>2 DEF NothingLeaked, AllTraced
<1>2. QED BY <1>1, LockTreeInvariantHolds, PTL

\* The memory tracker counts the row locks, the STO buffer and the transactions' buffers
\* exactly, after every way of adding, merging and removing them.
THEOREM MemoryExactHolds == Spec => []MemoryExact
<1>1. LockTreeInv => MemoryExact
  BY DEF LockTreeInv
<1>2. QED BY <1>1, LockTreeInvariantHolds, PTL

\* Without a hot indexer a live transaction that is called back and has no buffer has
\* just the lock it is about to note ("the single lock that this txnid just acquired",
\* ydb_row_lock.cc:162); with one the assertion fails.
THEOREM CallbackSeesOneLockHolds == Spec => [](~ HotIndexer => CallbackSeesOneLock)
<1>1. LockTreeInv => (~ HotIndexer => CallbackSeesOneLock)
  <2> SUFFICES ASSUME LockTreeInv, ~ HotIndexer, NEW t \in live,
                      escalated # None, t \in escalated, notedSize[t] = 0
               PROVE  Cardinality(LocksOf(t)) = 1
    BY DEF CallbackSeesOneLock
  <2>0. TypeOK /\ Apart /\ AllCovered /\ AllTraced /\ StoExact /\ PhasesExact /\ CalledHaveLocks
    BY DEF LockTreeInv
  <2>1. /\ t \in Txns /\ pc[t] = "run" /\ noted[t] = {} /\ sto = None /\ None \notin Txns
        /\ tree \in SUBSET TreeLocks /\ granted[t] \in SUBSET Ranges
        /\ \A r, q \in granted[t] : r = q
    BY <2>0, LockTreeAssumption DEF PhasesExact, StoExact, TypeOK
  <2>2. PICK b \in tree : b.txn = t
    BY <2>0 DEF CalledHaveLocks
  <2>3. PICK r \in granted[t] : TRUE
    BY <2>0, <2>1, <2>2 DEF AllTraced
  <2>4. PICK a \in tree : a.txn = t /\ a.l <= r.l /\ r.r <= a.r
    BY <2>0, <2>1, <2>3 DEF AllCovered, NotReleasing, Covered
  <2>5. ASSUME NEW c \in tree, c.txn = t, c # a PROVE FALSE
    <3>1. c.l <= r.r /\ r.l <= c.r BY <2>0, <2>1, <2>3, <2>5 DEF AllTraced
    <3>2. c.r < a.l \/ a.r < c.l BY <2>0, <2>5 DEF Apart
    <3>3. QED BY <3>1, <3>2, <2>1, <2>4, RangeBounds
  <2>6. LocksOf(t) = {a}
    BY <2>4, <2>5 DEF LocksOf
  <2>7. QED BY <2>6, FS_Singleton
<1>2. QED BY <1>1, LockTreeInvariantHolds, PTL

-----------------------------------------------------------------------------
(* The locktree implements the abstract row locks *)

\* After every step no key is held by two transactions.
LEMMA ExclusiveAfter ==
  ASSUME LockTreeInv', NEW t \in Txns, NEW u \in Txns, t # u
  PROVE  Holds(t)' \cap Holds(u)' = {}
<1> SUFFICES ASSUME NEW k \in Keys, k \in Holds(t)', k \in Holds(u)' PROVE FALSE
  BY DEF Holds
<1>0. TypeOK' /\ Apart' /\ StoExact'
  BY DEF LockTreeInv
<1>1. tree' \in SUBSET TreeLocks /\ k \in Int /\ None \notin Txns
  BY <1>0, LockTreeAssumption DEF TypeOK
<1>2. CASE sto' = None
  <2>1. PICK a \in tree' : a.txn = t /\ a.l <= k /\ k <= a.r BY <1>1, <1>2 DEF Holds
  <2>2. PICK b \in tree' : b.txn = u /\ b.l <= k /\ k <= b.r BY <1>1, <1>2 DEF Holds
  <2>3. a.r < b.l \/ b.r < a.l BY <2>1, <2>2, <1>0 DEF Apart
  <2>4. QED BY <2>1, <2>2, <2>3, <1>1, RangeBounds
<1>3. CASE sto' # None
  BY <1>0, <1>3 DEF StoExact, Holds
<1>4. QED BY <1>2, <1>3

LEMMA HoldsKept ==
  ASSUME tree' = tree, sto' = sto, stoBuffer' = stoBuffer, NEW u \in Txns
  PROVE  Holds(u)' = Holds(u)
BY DEF Holds

\* What an acquisition does to the keys.
LEMMA AcquireHolds ==
  ASSUME LockTreeInv, NEW t \in Txns, NEW r \in Ranges, AcquireSto(t, r) \/ AcquireTree(t, r)
  PROVE  /\ t \in live /\ live' = live /\ Holds(t) \subseteq Holds(t)'
         /\ \A u \in Txns \ {t} : Holds(u)' = Holds(u)
<1>0. None \notin Txns
  BY LockTreeAssumption
<1>1. CASE AcquireSto(t, r)
  <2>1. t \in live /\ tree = {} /\ (sto = None \/ sto = t) /\ (sto = None <=> stoBuffer = {})
    BY <1>1, MayAskFacts DEF AcquireSto, LockTreeInv, StoExact
  <2>2. sto' = t /\ stoBuffer' = stoBuffer \cup {r} /\ tree' = {} /\ live' = live
    BY <1>1, <2>1 DEF AcquireSto, Granted
  <2>3. Holds(t) \subseteq Holds(t)' BY <2>1, <2>2, <1>0 DEF Holds
  <2>4. ASSUME NEW u \in Txns \ {t} PROVE Holds(u)' = Holds(u)
    BY <2>1, <2>2, <1>0 DEF Holds
  <2>5. QED BY <2>1, <2>2, <2>3, <2>4
<1>2. CASE AcquireTree(t, r)
  <2> DEFINE T == EarlyTree(t)
             O == Overlapping(T, r)
  <2>1. t \in live /\ (sto = None \/ EndsEarly(t)) /\ live' = live /\ EndEarlyIfNeeded(t)
    BY <1>2, MayAskFacts DEF AcquireTree, Granted
  <2>2. sto' = None BY <2>1, EarlySto
  <2>3. PICK n \in Ranges : Dominates(n, r, O) /\ tree' = (T \ O) \cup {Lock(n, t)}
    BY <1>2 DEF AcquireTree
  <2>4. \A a \in O : a.txn = t
    BY <1>2 DEF AcquireTree, Conflicting
  <2>5. Flat(T) /\ \A u \in Txns, k \in Keys : k \in Holds(u) <=>
                     \E a \in T : a.txn = u /\ a.l <= k /\ k <= a.r
    BY <2>1, EarlyTreeFacts
  <2>6. \A a \in O : n.l <= a.l /\ a.r <= n.r
    BY <2>3, <2>5, DominatesFlat
  <2>7. Lock(n, t).l = n.l /\ Lock(n, t).r = n.r /\ Lock(n, t).txn = t
    BY DEF Lock
  <2>8. O \subseteq T BY DEF Overlapping
  <2> HIDE DEF T, O
  <2>9. \A u \in Txns, k \in Keys : k \in Holds(u)' <=>
          \E a \in tree' : a.txn = u /\ a.l <= k /\ k <= a.r
    BY <2>2, <1>0 DEF Holds
  <2>10. \A u \in Txns : Holds(u) \subseteq Keys /\ Holds(u)' \subseteq Keys
    BY DEF Holds
  <2>11. ASSUME NEW k \in Holds(t) PROVE k \in Holds(t)'
    <3>1. k \in Keys /\ k \in Int BY <2>10, LockTreeAssumption
    <3>2. PICK a \in T : a.txn = t /\ a.l <= k /\ k <= a.r BY <3>1, <2>5
    <3>3. CASE a \in O
      <4>1. n.l <= k /\ k <= n.r BY <3>1, <3>2, <3>3, <2>5, <2>6, FlatOrder, RangeBounds
      <4>2. Lock(n, t) \in tree' BY <2>3
      <4>3. QED BY <3>1, <4>1, <4>2, <2>7, <2>9
    <3>4. CASE a \notin O BY <3>1, <3>2, <3>4, <2>3, <2>9
    <3>5. QED BY <3>3, <3>4
  <2>12. ASSUME NEW u \in Txns \ {t} PROVE Holds(u)' = Holds(u)
    <3>1. \A a : a.txn = u => (a \in tree' <=> a \in T)
      BY <2>3, <2>4, <2>7, <2>8
    <3>2. \A k \in Keys : k \in Holds(u)' <=> k \in Holds(u)
      BY <3>1, <2>5, <2>9
    <3>3. QED BY <3>2, <2>10
  <2>13. QED BY <2>1, <2>11, <2>12
<1>3. QED BY <1>1, <1>2

\* A refused request leaves the keys as they are, even if it ends the optimization.
LEMMA ConflictHolds ==
  ASSUME LockTreeInv, NEW t \in Txns, NEW r \in Ranges, AcquireConflict(t, r)
  PROVE  live' = live /\ \A u \in Txns : Holds(u)' = Holds(u)
<1>1. (sto = None \/ EndsEarly(t)) /\ live' = live /\ EndEarlyIfNeeded(t) /\ tree' = EarlyTree(t)
  BY MayAskFacts DEF AcquireConflict
<1>2. sto' = None /\ None \notin Txns BY <1>1, EarlySto, LockTreeAssumption
<1>3. \A u \in Txns, k \in Keys : k \in Holds(u) <=> \E a \in tree' : a.txn = u /\ a.l <= k /\ k <= a.r
  BY <1>1, EarlyTreeFacts
<1>4. \A u \in Txns, k \in Keys : k \in Holds(u)' <=> \E a \in tree' : a.txn = u /\ a.l <= k /\ k <= a.r
  BY <1>2 DEF Holds
<1>5. \A u \in Txns : Holds(u) \subseteq Keys /\ Holds(u)' \subseteq Keys
  BY DEF Holds
<1>6. QED BY <1>1, <1>3, <1>4, <1>5

\* Releasing takes keys from the transaction that releases, and from no other.
LEMMA ReleaseHolds ==
  ASSUME LockTreeInv, NEW t \in Txns, NEW r \in Ranges, StoTryRelease(t) \/ ReleaseOne(t, r)
  PROVE  /\ t \notin live /\ live' = live /\ Holds(t)' \subseteq Holds(t)
         /\ \A u \in Txns \ {t} : Holds(u)' = Holds(u)
<1>0. AllCovered /\ StoExact /\ PhasesExact /\ None \notin Txns
  BY LockTreeAssumption DEF LockTreeInv
<1>1. CASE StoTryRelease(t)
  <2>1. pc[t] = "stoRelease" /\ tree' = tree /\ live' = live /\ t \notin live /\ noted[t] # {}
    BY <1>0, <1>1 DEF StoTryRelease, PhasesExact
  <2>2. CASE sto = None
    <3>1. sto' = sto /\ stoBuffer' = stoBuffer BY <1>1, <2>2 DEF StoTryRelease, stoVars
    <3>2. QED BY <3>1, <2>1, HoldsKept
  <2>3. CASE sto # None
    <3>1. tree = {} /\ sto' = None BY <1>0, <1>1, <2>3 DEF StoExact, StoTryRelease, StoEnd
    <3>2. sto = t
      <4>1. PICK q \in noted[t] : TRUE BY <2>1
      <4>2. Covered(t, q) BY <4>1, <2>1, <1>0 DEF AllCovered, NotReleasing
      <4>3. QED BY <4>2, <3>1 DEF Covered
    <3>3. QED BY <3>1, <3>2, <2>1, <1>0 DEF Holds
  <2>4. QED BY <2>2, <2>3
<1>2. CASE ReleaseOne(t, r)
  <2>1. /\ pc[t] = "releasing" /\ tree' = tree \ RemoveOverlapping(t, r) /\ sto' = sto
        /\ stoBuffer' = stoBuffer /\ live' = live
    BY <1>2 DEF ReleaseOne, stoVars
  <2>2. \A a \in RemoveOverlapping(t, r) : a.txn = t
    BY DEF RemoveOverlapping
  <2>3. t \notin live BY <2>1, <1>0 DEF PhasesExact
  <2>4. Holds(t)' \subseteq Holds(t) BY <2>1 DEF Holds
  <2>5. ASSUME NEW u \in Txns \ {t} PROVE Holds(u)' = Holds(u)
    BY <2>1, <2>2 DEF Holds
  <2>6. QED BY <2>1, <2>3, <2>4, <2>5
<1>3. QED BY <1>1, <1>2

\* Escalation gives keys only to transactions that hold some, and takes none.
LEMMA EscalateHolds ==
  ASSUME LockTreeInv, EscalateBegin
  PROVE  /\ live' = live
         /\ \A u \in Txns : Holds(u) \subseteq Holds(u)' /\ (Holds(u) = {} => Holds(u)' = {})
<1> DEFINE E == EarlyTree(None)
           T == Escalated(E)
<1>1. /\ sto = None \/ EndsEarly(None)
      /\ tree' = T /\ EndEarlyIfNeeded(None) /\ live' = live
  BY DEF EscalateBegin, clientVars, EndsEarly
<1>2. Flat(E) /\ \A u \in Txns, k \in Keys : k \in Holds(u) <=>
                   \E a \in E : a.txn = u /\ a.l <= k /\ k <= a.r
  BY <1>1, EarlyTreeFacts
<1>3. sto' = None /\ None \notin Txns BY <1>1, EarlySto, LockTreeAssumption
<1> HIDE DEF E
<1>4. /\ \A e \in T : \E a \in E : a.txn = e.txn /\ e.l = a.l /\ a.r <= e.r
      /\ \A a \in E : \E e \in T : e.txn = a.txn /\ e.l <= a.l /\ a.r <= e.r
      /\ Flat(T)
  BY <1>2, EscalatedTraced, EscalatedCovers, EscalatedFlat
<1> HIDE DEF T
<1>5. \A u \in Txns, k \in Keys : k \in Holds(u)' <=> \E a \in T : a.txn = u /\ a.l <= k /\ k <= a.r
  BY <1>1, <1>3 DEF Holds
<1>6. \A u \in Txns : Holds(u) \subseteq Keys /\ Holds(u)' \subseteq Keys
  BY DEF Holds
<1>7. ASSUME NEW u \in Txns, NEW k \in Holds(u) PROVE k \in Holds(u)'
  <2>1. k \in Keys /\ k \in Int BY <1>6, LockTreeAssumption
  <2>2. PICK a \in E : a.txn = u /\ a.l <= k /\ k <= a.r BY <2>1, <1>2
  <2>3. PICK e \in T : e.txn = a.txn /\ e.l <= a.l /\ a.r <= e.r BY <1>4
  <2>4. e.l <= k /\ k <= e.r BY <2>1, <2>2, <2>3, <1>2, <1>4, FlatOrder
  <2>5. QED BY <2>1, <2>2, <2>3, <2>4, <1>5
<1>8. ASSUME NEW u \in Txns, NEW k \in Holds(u)' PROVE Holds(u) # {}
  <2>1. PICK e \in T : e.txn = u BY <1>5, <1>6
  <2>2. PICK a \in E : a.txn = u BY <2>1, <1>4
  <2>3. a.l \in Keys /\ a.l <= a.l /\ a.l <= a.r BY <1>2, RangeBounds DEF Flat
  <2>4. a.l \in Holds(u) BY <2>2, <2>3, <1>2
  <2>5. QED BY <2>4
<1>9. QED BY <1>1, <1>7, <1>8

LEMMA RowLocksStep ==
  ASSUME LockTreeInv, LockTreeInv', [Next]_vars
  PROVE  [RL!Next]_RL!vars
<1> DEFINE h == [t \in Txns |-> Holds(t)]
<1>1. /\ h' \in [Txns -> SUBSET Keys]
      /\ \A u \in Txns : h[u] = Holds(u) /\ h'[u] = Holds(u)'
  BY DEF Holds
<1>2. RL!Exclusive'
  BY ExclusiveAfter DEF RL!Exclusive
<1>3. ASSUME live' = live, \A u \in Txns : Holds(u)' = Holds(u) PROVE UNCHANGED RL!vars
  <2>1. h' = h BY <1>3
  <2>2. QED BY <2>1, <1>3 DEF RL!vars
<1>4. ASSUME NEW t \in Txns, NEW r \in Ranges, AcquireSto(t, r) \/ AcquireTree(t, r)
      PROVE  RL!Acquire(t)
  <2>1. /\ t \in live /\ live' = live /\ Holds(t) \subseteq Holds(t)'
        /\ \A u \in Txns \ {t} : Holds(u)' = Holds(u)
    BY <1>4, AcquireHolds
  <2>2. QED BY <2>1, <1>1, <1>2 DEF RL!Acquire
<1>5. ASSUME NEW t \in Txns, NEW r \in Ranges, AcquireConflict(t, r) PROVE UNCHANGED RL!vars
  BY <1>3, <1>5, ConflictHolds
<1>6. ASSUME NEW t \in Txns, End(t) PROVE RL!End(t)
  <2>1. t \in live /\ live' = live \ {t} /\ tree' = tree /\ sto' = sto /\ stoBuffer' = stoBuffer
    BY <1>6 DEF End, stoVars
  <2>2. \A u \in Txns : Holds(u)' = Holds(u) BY <2>1, HoldsKept
  <2>3. h' = h BY <2>2
  <2>4. QED BY <2>1, <2>3 DEF RL!End
<1>7. ASSUME NEW t \in Txns, NEW r \in Ranges, StoTryRelease(t) \/ ReleaseOne(t, r)
      PROVE  RL!Release(t)
  <2>1. /\ t \notin live /\ live' = live /\ Holds(t)' \subseteq Holds(t)
        /\ \A u \in Txns \ {t} : Holds(u)' = Holds(u)
    BY <1>7, ReleaseHolds
  <2>2. QED BY <2>1, <1>1 DEF RL!Release
<1>8. CASE EscalateBegin
  <2>1. /\ live' = live
        /\ \A u \in Txns : Holds(u) \subseteq Holds(u)' /\ (Holds(u) = {} => Holds(u)' = {})
    BY <1>8, EscalateHolds
  <2>2. RL!Escalate BY <2>1, <1>1, <1>2 DEF RL!Escalate
  <2>3. QED BY <2>2 DEF RL!Next
<1>9. ASSUME tree' = tree, sto' = sto, stoBuffer' = stoBuffer, live' = live PROVE UNCHANGED RL!vars
  BY <1>3, <1>9, HoldsKept
<1>10. ASSUME NEW t \in Txns, StoLook(t) \/ (\E r \in Ranges : NoteRowLock(t, r)) \/ EscalateCallback(t)
       PROVE  UNCHANGED RL!vars
  <2>1. tree' = tree /\ sto' = sto /\ stoBuffer' = stoBuffer /\ live' = live
    BY <1>10 DEF StoLook, NoteRowLock, EscalateCallback, stoVars
  <2>2. QED BY <2>1, <1>9
<1>11. CASE EscalateEnd
  <2>1. tree' = tree /\ sto' = sto /\ stoBuffer' = stoBuffer /\ live' = live
    BY <1>11 DEF EscalateEnd, stoVars, clientVars
  <2>2. QED BY <2>1, <1>9
<1>12. CASE UNCHANGED vars
  <2>1. tree' = tree /\ sto' = sto /\ stoBuffer' = stoBuffer /\ live' = live
    BY <1>12 DEF vars
  <2>2. QED BY <2>1, <1>9
<1>13. ASSUME NEW t \in Txns, Step(t) PROVE [RL!Next]_RL!vars
  <2>1. CASE StoTryRelease(t)
    <3>1. \A r \in Ranges : RL!Release(t) BY <2>1, <1>7
    <3>2. PICK r \in Ranges : TRUE
      <4>1. pc[t] = "stoRelease" BY <2>1 DEF StoTryRelease
      <4>2. noted[t] # {} /\ noted[t] \in SUBSET Ranges
        BY <4>1 DEF LockTreeInv, PhasesExact, TypeOK
      <4>3. QED BY <4>2
    <3>3. QED BY <3>1, <3>2 DEF RL!Next
  <2>2. CASE \E r \in Ranges : ReleaseOne(t, r) BY <2>2, <1>7 DEF RL!Next
  <2>3. CASE StoLook(t) \/ \E r \in Ranges : NoteRowLock(t, r) BY <2>3, <1>10
  <2>4. QED BY <1>13, <2>1, <2>2, <2>3 DEF Step
<1>14. CASE EscalateStep
  BY <1>10, <1>11, <1>14 DEF EscalateStep
<1>15. ASSUME NEW t \in Txns, NEW r \in Ranges, AcquireSto(t, r) \/ AcquireTree(t, r) \/ AcquireConflict(t, r)
       PROVE  [RL!Next]_RL!vars
  BY <1>4, <1>5, <1>15 DEF RL!Next
<1>16. ASSUME NEW t \in Txns, End(t) PROVE [RL!Next]_RL!vars
  BY <1>6, <1>16 DEF RL!Next
<1>17. QED BY <1>8, <1>12, <1>13, <1>14, <1>15, <1>16 DEF Next

\* The locktree implements the abstract row locks: only a live transaction takes keys,
\* and only keys that are free; only one that has ended gives keys up; and neither the
\* migration of the STO buffer nor the callbacks change what anybody holds.
THEOREM LockTreeImplementsRowLocks == Spec => RLSpec
<1>1. Init => RL!Init
  <2> SUFFICES ASSUME Init PROVE RL!Init
    OBVIOUS
  <2>1. tree = {} /\ stoBuffer = {} /\ live = Txns BY DEF Init
  <2>2. \A t \in Txns : Holds(t) = {} BY <2>1 DEF Holds
  <2>3. [t \in Txns |-> Holds(t)] = [t \in Txns |-> {}] BY <2>2
  <2>4. QED BY <2>1, <2>3 DEF RL!Init
<1>2. LockTreeInv /\ LockTreeInv' /\ [Next]_vars => [RL!Next]_RL!vars
  BY RowLocksStep
<1>3. QED BY <1>1, <1>2, LockTreeInvariantHolds, PTL DEF Spec, RLSpec, RL!Spec

=============================================================================
