--------------------------- MODULE LockTreeManager ---------------------------
(***************************************************************************)
(* The manager of the locktrees (locktree/manager.cc): a locktree for each *)
(* open dictionary, with a reference for each handle, for each transaction *)
(* that has a lock there and for a running escalation; the limit on the    *)
(* memory of locks, and the escalator that only one thread runs at a time. *)
(*                                                                         *)
(* A locktree is an object of the heap, and the place of a destroyed one   *)
(* may be used again.  The release of a reference and the look under the   *)
(* manager's mutex are two steps, and the destruction is a third one.      *)
(***************************************************************************)
EXTENDS Integers, FiniteSets, FiniteSetsExt

CONSTANTS Clients,     \* client threads, each with a handle and a transaction
          Dicts,       \* dictionary ids
          Objects,     \* places of the heap for a locktree
          Nil,         \* nullptr
          Limits,      \* values for set_max_lock_memory, in records
          MaxRecords,  \* bound: records of a transaction
          MaxSteps     \* bound: opens of a client

ASSUME ManagerAssumption ==
  /\ IsFiniteSet(Clients)
  /\ Nil \notin Objects
  /\ Limits \subseteq Nat
  /\ MaxRecords \in Nat /\ MaxSteps \in Nat

VARIABLES
  locktree_map,  \* the locktree of each dictionary, or Nil
  lt,            \* of each object: live, its dictionary and its reference count
  max_lock_memory, current_lock_memory,
  escalator_running,
  at,            \* where each client stands: step; back and ret, where it goes on after a
                 \* release and after an escalation; lt and dict, what it releases
  handle,        \* db->i->lt of each client's handle
  ref,           \* the locktree that each client's transaction refers to
  records,       \* how many records of locks that transaction has
  todo,          \* locktrees that the escalator has still to escalate
  opens

trees       == <<locktree_map, lt>>
memory      == <<max_lock_memory, current_lock_memory>>
managervars == <<locktree_map, lt, max_lock_memory, current_lock_memory, escalator_running, at,
                 handle, ref, records, todo, opens>>

Idle == [step |-> "idle", back |-> "idle", ret |-> "idle", lt |-> Nil, dict |-> Nil]
NoTree == [live |-> FALSE, dict |-> Nil, refs |-> 0]

ManagerInit ==
  /\ locktree_map = [d \in Dicts |-> Nil]
  /\ lt = [o \in Objects |-> NoTree]
  /\ max_lock_memory \in Limits /\ current_lock_memory = 0
  /\ escalator_running = FALSE
  /\ at = [c \in Clients |-> Idle]
  /\ handle = [c \in Clients |-> Nil] /\ ref = [c \in Clients |-> Nil]
  /\ records = [c \in Clients |-> 0]
  /\ todo = {}
  /\ opens = [c \in Clients |-> 0]

Goes(c, step) == at' = [at EXCEPT ![c].step = step]
Returns(c)    == at' = [at EXCEPT ![c] = [Idle EXCEPT !.step = at[c].back, !.ret = at[c].ret]]
-----------------------------------------------------------------------------
(* Faulty variants of the operations below, for the checks of the properties *)
\* The thread that saw the count fall to zero does not look at it again.
StillUnusedMut(o, d) == locktree_map[d] = o
\* The escalator takes its locktrees from the map without references.
CollectedMut(T) == lt
\* Who ends an escalation wakes nobody.
WokenMut(c) == [at EXCEPT ![c].step = at[c].ret]
-----------------------------------------------------------------------------
(* References *)

Add(o, n) == [lt EXCEPT ![o].refs = @ + n]

\* locktree::create in get_lt: calloc may give any free place
get_lt_create(c, d) ==
  /\ at[c].step = "idle" /\ handle[c] = Nil /\ opens[c] < MaxSteps
  /\ locktree_map[d] = Nil
  /\ \E o \in {p \in Objects : ~ lt[p].live} :
       /\ lt' = [lt EXCEPT ![o] = [live |-> TRUE, dict |-> d, refs |-> 1]]
       /\ locktree_map' = [locktree_map EXCEPT ![d] = o]
       /\ handle' = [handle EXCEPT ![c] = o]
  /\ opens' = [opens EXCEPT ![c] = @ + 1]
  /\ UNCHANGED <<memory, escalator_running, at, ref, records, todo>>

\* the create callback fails: the new locktree goes again before anybody sees it
get_lt_fails(c, d) ==
  /\ at[c].step = "idle" /\ handle[c] = Nil /\ opens[c] < MaxSteps
  /\ locktree_map[d] = Nil
  /\ opens' = [opens EXCEPT ![c] = @ + 1]
  /\ UNCHANGED <<trees, memory, escalator_running, at, handle, ref, records, todo>>

\* reference_lt in get_lt, with the mutex: the count may go from 0 to 1
get_lt_found(c, d) ==
  /\ at[c].step = "idle" /\ handle[c] = Nil /\ opens[c] < MaxSteps
  /\ locktree_map[d] # Nil
  /\ lt' = Add(locktree_map[d], 1)
  /\ handle' = [handle EXCEPT ![c] = locktree_map[d]]
  /\ opens' = [opens EXCEPT ![c] = @ + 1]
  /\ UNCHANGED <<locktree_map, memory, escalator_running, at, ref, records, todo>>

\* release_lt: who takes the last reference away has to look under the mutex, and does
\* not touch the locktree before
release_reference(c, o, back) ==
  /\ lt' = Add(o, -1)
  /\ at' = [at EXCEPT ![c] = IF lt[o].refs = 1
                             THEN [step |-> "zero", back |-> back, ret |-> at[c].ret, lt |-> o,
                                   dict |-> lt[o].dict]
                             ELSE [@ EXCEPT !.step = back]]

\* the close of a handle
close_handle(c) ==
  /\ at[c].step = "idle" /\ handle[c] # Nil
  /\ release_reference(c, handle[c], "idle")
  /\ handle' = [handle EXCEPT ![c] = Nil]
  /\ UNCHANGED <<locktree_map, memory, escalator_running, ref, records, todo, opens>>

\* toku_db_release_lt_key_ranges at the end of the transaction
release_locks(c) ==
  /\ at[c].step = "idle" /\ ref[c] # Nil
  /\ release_reference(c, ref[c], "idle")
  /\ ref' = [ref EXCEPT ![c] = Nil]
  /\ current_lock_memory' = current_lock_memory - records[c]
  /\ records' = [records EXCEPT ![c] = 0]
  /\ UNCHANGED <<locktree_map, max_lock_memory, escalator_running, handle, todo, opens>>

\* the locktree of the dictionary is the one released, and nobody has it now
StillUnused(o, d) == locktree_map[d] = o /\ lt[o].refs = 0

\* the locked part of release_lt; dict_id was read before the reference went
look_again(c) ==
  /\ at[c].step = "zero"
  /\ \/ /\ StillUnused(at[c].lt, at[c].dict)
        /\ locktree_map' = [locktree_map EXCEPT ![at[c].dict] = Nil]
        /\ Goes(c, "destroy")
     \/ /\ ~ StillUnused(at[c].lt, at[c].dict)
        /\ Returns(c)
        /\ UNCHANGED locktree_map
  /\ UNCHANGED <<lt, memory, escalator_running, handle, ref, records, todo, opens>>

\* the destroy callback, locktree::destroy and free
destroy_lt(c) ==
  /\ at[c].step = "destroy"
  /\ lt' = [lt EXCEPT ![at[c].lt] = NoTree]
  /\ Returns(c)
  /\ UNCHANGED <<locktree_map, memory, escalator_running, handle, ref, records, todo, opens>>
-----------------------------------------------------------------------------
(* The limit on the memory *)

out_of_locks       == current_lock_memory >= max_lock_memory
over_big_threshold == current_lock_memory >= max_lock_memory \div 2

\* acquire_write_lock for a transaction that has locks here or nowhere yet; the check is
\* begun
check_current_lock_constraints(c, big) ==
  /\ at[c].step = "idle" /\ handle[c] # Nil /\ ref[c] \in {Nil, handle[c]}
  /\ records[c] < MaxRecords
  /\ at' = [at EXCEPT ![c].step = IF big THEN "checkBig" ELSE "check"]
  /\ UNCHANGED <<trees, memory, escalator_running, handle, ref, records, todo, opens>>

ToEscalate(c, ret) == at' = [at EXCEPT ![c].step = "run", ![c].ret = ret]

\* each look at the memory is one unlocked read
check_memory(c) ==
  /\ \/ at[c].step = "checkBig" /\ IF over_big_threshold THEN ToEscalate(c, "recheckBig")
                                                         ELSE Goes(c, "check")
     \/ at[c].step = "recheckBig" /\ at' = [at EXCEPT ![c] = IF over_big_threshold THEN Idle
                                                      ELSE [Idle EXCEPT !.step = "check"]]
     \/ at[c].step = "check" /\ IF out_of_locks THEN ToEscalate(c, "recheck")
                                                ELSE Goes(c, "acquire")
     \/ at[c].step = "recheck" /\ at' = [at EXCEPT ![c] = IF out_of_locks THEN Idle
                                                   ELSE [Idle EXCEPT !.step = "acquire"]]
  /\ UNCHANGED <<trees, memory, escalator_running, handle, ref, records, todo, opens>>

\* the lock, and db_txn_note_row_lock, which takes a reference with the first one
acquire_lock(c) ==
  /\ at[c].step = "acquire"
  /\ current_lock_memory' = current_lock_memory + 1
  /\ records' = [records EXCEPT ![c] = @ + 1]
  /\ \/ ref[c] = Nil /\ lt' = Add(handle[c], 1) /\ ref' = [ref EXCEPT ![c] = handle[c]]
     \/ ref[c] # Nil /\ UNCHANGED <<lt, ref>>
  /\ at' = [at EXCEPT ![c] = Idle]
  /\ UNCHANGED <<locktree_map, max_lock_memory, escalator_running, handle, todo, opens>>

\* EDOM if there are more already
set_max_lock_memory(n) ==
  /\ n >= current_lock_memory
  /\ max_lock_memory' = n
  /\ UNCHANGED <<trees, current_lock_memory, escalator_running, at, handle, ref, records, todo, opens>>
-----------------------------------------------------------------------------
(* Escalation *)

\* locktree_escalator::run; a thread that finds it running waits for the end of it
run_escalation(c) ==
  /\ at[c].step = "run"
  /\ Goes(c, IF escalator_running THEN "wait" ELSE "collect")
  /\ escalator_running' = TRUE
  /\ UNCHANGED <<trees, memory, handle, ref, records, todo, opens>>

InMap == {locktree_map[d] : d \in Dicts} \ {Nil}
Collected(T) == [o \in Objects |-> IF o \in T THEN [lt[o] EXCEPT !.refs = @ + 1] ELSE lt[o]]

\* escalate_all_locktrees up to the end of the mutex
escalate_all_locktrees(c) ==
  /\ at[c].step = "collect"
  /\ todo' = InMap
  /\ lt' = Collected(InMap)
  /\ Goes(c, "escalate")
  /\ UNCHANGED <<locktree_map, memory, escalator_running, handle, ref, records, opens>>

\* locktree::escalate leaves a transaction fewer records, but at least one
escalate(c, u, n) ==
  /\ at[c].step = "escalate" /\ ref[u] \in todo
  /\ n \in 1 .. records[u] - 1
  /\ records' = [records EXCEPT ![u] = n]
  /\ current_lock_memory' = current_lock_memory - (records[u] - n)
  /\ UNCHANGED <<trees, max_lock_memory, escalator_running, at, handle, ref, todo, opens>>

\* escalate_locktrees is done with one of them
escalate_locktrees(c, o) ==
  /\ at[c].step = "escalate" /\ o \in todo
  /\ todo' = todo \ {o}
  /\ release_reference(c, o, "escalate")
  /\ UNCHANGED <<locktree_map, memory, escalator_running, handle, ref, records, opens>>

\* the broadcast wakes whoever waits
Woken(c) == [u \in Clients |-> IF u = c \/ at[u].step = "wait" THEN [at[u] EXCEPT !.step = at[u].ret]
                               ELSE at[u]]

escalation_done(c) ==
  /\ at[c].step = "escalate" /\ todo = {}
  /\ escalator_running' = FALSE
  /\ at' = Woken(c)
  /\ UNCHANGED <<trees, memory, handle, ref, records, todo, opens>>
-----------------------------------------------------------------------------
\* what a thread that has begun a call goes on with
ManagerStep(c) ==
  \/ look_again(c) \/ destroy_lt(c) \/ check_memory(c) \/ acquire_lock(c)
  \/ run_escalation(c) \/ escalate_all_locktrees(c) \/ escalation_done(c)
  \/ \E o \in Objects : escalate_locktrees(c, o)

ManagerNext ==
  \/ \E c \in Clients :
       \/ \E d \in Dicts : get_lt_create(c, d) \/ get_lt_fails(c, d) \/ get_lt_found(c, d)
       \/ close_handle(c) \/ release_locks(c) \/ ManagerStep(c)
       \/ \E big \in BOOLEAN : check_current_lock_constraints(c, big)
       \/ \E u \in Clients : \E n \in 1 .. MaxRecords : escalate(c, u, n)
  \/ \E n \in Limits : set_max_lock_memory(n)

ManagerSpec == ManagerInit /\ [][ManagerNext]_managervars
-----------------------------------------------------------------------------
Steps == {"idle", "zero", "destroy", "checkBig", "recheckBig", "check", "recheck", "acquire", "run",
          "wait", "collect", "escalate"}

\* Every variable has its type.
ManagerTypeOK ==
  /\ locktree_map \in [Dicts -> Objects \cup {Nil}]
  /\ lt \in [Objects -> [live : BOOLEAN, dict : Dicts \cup {Nil}, refs : Nat]]
  /\ max_lock_memory \in Nat /\ current_lock_memory \in Int
  /\ escalator_running \in BOOLEAN
  /\ at \in [Clients -> [step : Steps, back : {"idle", "escalate"},
                         ret : {"idle", "recheckBig", "recheck"}, lt : Objects \cup {Nil},
                         dict : Dicts \cup {Nil}]]
  /\ handle \in [Clients -> Objects \cup {Nil}] /\ ref \in [Clients -> Objects \cup {Nil}]
  /\ records \in [Clients -> Nat] /\ todo \in SUBSET Objects /\ opens \in [Clients -> Nat]

\* who will destroy locktree o, and who will look whether to do so
Destroyers(o) == {c \in Clients : at[c].step = "destroy" /\ at[c].lt = o}
Lookers(o)    == {c \in Clients : at[c].step = "zero" /\ at[c].lt = o /\ at[c].dict = lt[o].dict}

\* Nobody has a locktree that was destroyed: not a handle, not a transaction, not the
\* escalator, not the map.  A locktree that is being destroyed has no reference left and
\* cannot get one, as it has left the map, and one thread only destroys it ("only one of
\* us should destroy it").
NoDanglingTree ==
  /\ \A c \in Clients : {handle[c], ref[c]} \subseteq {Nil} \cup {o \in Objects : lt[o].live}
  /\ \A o \in todo \cup InMap : lt[o].live
  /\ \A c \in Clients : at[c].step = "destroy" =>
       /\ lt[at[c].lt].live /\ lt[at[c].lt].refs = 0 /\ at[c].lt \notin InMap
       /\ Destroyers(at[c].lt) = {c}

\* Nothing is leaked: a locktree without references is about to be destroyed, or a thread
\* that took a last reference away is about to look for it in the map.
NoLeakedTree ==
  \A o \in Objects : lt[o].live /\ lt[o].refs = 0 =>
    \/ Destroyers(o) # {}
    \/ locktree_map[lt[o].dict] = o /\ Lookers(o) # {}

\* The checks of the limit are reads without a lock: each client may have passed its check
\* and add a record, so the memory passes the limit, but by no more than that.
MemoryBound == current_lock_memory <= max_lock_memory + Cardinality(Clients)

\* the thread that runs the escalation
Escalates(c) ==
  \/ at[c].step \in {"collect", "escalate"}
  \/ at[c].step \in {"zero", "destroy"} /\ at[c].back = "escalate"

\* The wait for the end of an escalation is not in a loop: there is always one thread that
\* runs it and will wake who waits, and never two of them.
EscalatorExact ==
  /\ \A c \in Clients : at[c].step = "wait" => escalator_running
  /\ escalator_running <=> \E c \in Clients : Escalates(c)
  /\ \A c, e \in Clients : Escalates(c) /\ Escalates(e) => c = e

\* The locktrees live as long as somebody uses them and no longer, and the limit of the
\* memory holds but for the requests under way; nobody waits for an escalation in vain.
ManagerSound == NoDanglingTree /\ NoLeakedTree /\ MemoryBound /\ EscalatorExact

(***************************************************************************)
(* ManagerSound is not inductive by itself.  What holds it up: the count   *)
(* of a locktree is the number of its users, the map has the only way to a *)
(* live locktree that is not being destroyed, who asks for a lock has a    *)
(* handle open, and an acquisition that has passed its check counts as     *)
(* memory already.                                                         *)
(***************************************************************************)
Count(f, o) == Cardinality({c \in Clients : f[c] = o})

RefsExact ==
  \A o \in Objects :
    lt[o].refs = Count(handle, o) + Count(ref, o) + (IF o \in todo THEN 1 ELSE 0)

UsersLive ==
  /\ \A c \in Clients : /\ handle[c] # Nil => lt[handle[c]].live
                        /\ ref[c] # Nil => lt[ref[c]].live
  /\ \A o \in todo : lt[o].live

MapExact ==
  \A d \in Dicts : locktree_map[d] # Nil =>
    lt[locktree_map[d]].live /\ lt[locktree_map[d]].dict = d

DestroyedOnce ==
  /\ \A c \in Clients : at[c].step = "destroy" =>
       /\ at[c].lt \in Objects /\ lt[at[c].lt].live /\ lt[at[c].lt].refs = 0
       /\ \A d \in Dicts : locktree_map[d] # at[c].lt
  /\ \A c, e \in Clients :
       at[c].step = "destroy" /\ at[e].step = "destroy" /\ at[c].lt = at[e].lt => c = e

LookedFor ==
  /\ \A c \in Clients : at[c].step = "zero" => at[c].lt \in Objects /\ at[c].dict \in Dicts
  /\ \A o \in Objects : lt[o].live =>
       /\ lt[o].dict \in Dicts
       /\ \/ \E c \in Clients : at[c].step = "destroy" /\ at[c].lt = o
          \/ /\ locktree_map[lt[o].dict] = o
             /\ lt[o].refs = 0 =>
                  \E c \in Clients : at[c].step = "zero" /\ at[c].lt = o /\ at[c].dict = lt[o].dict

\* c is in the middle of a request for a lock
Asks(c) == at[c].step \notin {"idle", "zero", "destroy"} \/ Escalates(c)

AskersOpen == \A c \in Clients : Asks(c) => handle[c] # Nil /\ ref[c] \in {Nil, handle[c]}

TodoExact ==
  /\ ~ escalator_running => todo = {}
  /\ \A c \in Clients : at[c].step = "collect" => todo = {}

Acquirers == {c \in Clients : at[c].step = "acquire"}
MemoryReserved ==
  current_lock_memory + Cardinality(Acquirers) <= max_lock_memory + Cardinality(Clients)

TreesInv      == RefsExact /\ UsersLive /\ MapExact /\ DestroyedOnce /\ LookedFor
EscalationInv == AskersOpen /\ TodoExact /\ EscalatorExact
ManagerInv    == ManagerTypeOK /\ TreesInv /\ EscalationInv /\ MemoryReserved

=============================================================================
