---------------------------- MODULE Dictionary ----------------------------
(***************************************************************************)
(* What a fractal tree promises: a map from keys to values that changes by *)
(* one whole operation at a time, in the order of the operations' message  *)
(* sequence numbers, and by nothing else.                                  *)
(***************************************************************************)
EXTENDS Naturals

CONSTANTS Keys,   \* the keys, naturals; 0 stands for every key
          Ops     \* the operations [type, key, val]

VARIABLES map,    \* the value of each key; 0: the key is absent
          n,      \* operations done so far
          last    \* the operation done last

\* The update function of the application: it counts, so that applying an update
\* twice, or not at all, is seen.
Upd(v) == IF v = 0 THEN 0 ELSE (v % 3) + 1

NewVal(v, o) ==
  CASE o.type = "insert" -> o.val
    [] o.type = "insert_no_overwrite" -> IF v = 0 THEN o.val ELSE v
    [] o.type = "delete" -> 0
    [] o.type \in {"update", "update_broadcast"} -> Upd(v)
    [] o.type = "optimize" -> v

\* A broadcast reaches the rows that are there.
Applied(rows, o) ==
  [k \in DOMAIN rows |->
     IF o.key = k \/ (o.key = 0 /\ rows[k] # 0) THEN NewVal(rows[k], o) ELSE rows[k]]

Init == map \in [Keys -> 0..3] /\ n = 0 /\ last \in Ops

Next == n' = n + 1 /\ last' \in Ops /\ map' = Applied(map, last')

Spec == Init /\ [][Next]_<<map, n, last>>
=============================================================================
