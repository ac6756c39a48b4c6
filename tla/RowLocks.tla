------------------------------ MODULE RowLocks ------------------------------
(***************************************************************************)
(* What a locktree promises to the transactions of one dictionary: a key   *)
(* is held by at most one transaction, a transaction that has not ended    *)
(* keeps what it holds, and only one that has ended gives keys up.         *)
(***************************************************************************)
CONSTANTS Txns, Keys

VARIABLES held,   \* the keys each transaction holds
          live    \* the transactions that have not ended

vars == <<held, live>>

Exclusive == \A t, u \in Txns : t # u => held[t] \cap held[u] = {}

Init ==
  /\ held = [t \in Txns |-> {}]
  /\ live = Txns

\* a live transaction takes keys that nobody else holds
Acquire(t) ==
  /\ t \in live
  /\ held' \in [Txns -> SUBSET Keys]
  /\ held[t] \subseteq held'[t]
  /\ \A u \in Txns \ {t} : held'[u] = held[u]
  /\ Exclusive'
  /\ UNCHANGED live

\* escalation: transactions that hold something get free keys in addition
Escalate ==
  /\ held' \in [Txns -> SUBSET Keys]
  /\ \A t \in Txns : held[t] \subseteq held'[t] /\ (held[t] = {} => held'[t] = {})
  /\ Exclusive'
  /\ UNCHANGED live

End(t) ==
  /\ t \in live
  /\ live' = live \ {t}
  /\ UNCHANGED held

\* an ended transaction gives up some of its keys
Release(t) ==
  /\ t \notin live
  /\ held' \in [Txns -> SUBSET Keys]
  /\ held'[t] \subseteq held[t]
  /\ \A u \in Txns \ {t} : held'[u] = held[u]
  /\ UNCHANGED live

Next == Escalate \/ \E t \in Txns : Acquire(t) \/ End(t) \/ Release(t)

Spec == Init /\ [][Next]_vars
=============================================================================
