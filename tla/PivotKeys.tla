----------------------------- MODULE PivotKeys -----------------------------
(***************************************************************************)
(* The pivots of a node (ft/pivotkeys.cc): an array of keys of one length, *)
(* each padded to four bytes, or an array of keys of any length.  A stored *)
(* pivot is [key, len]: the key and how many of its bytes are kept.  pref  *)
(* is the sequence of keys the operations made.                            *)
(***************************************************************************)
EXTENDS Integers, Sequences, FiniteSets, SequencesExt

CONSTANTS PivotKeysOf, \* the keys, in order
          PivotLen     \* the bytes of each
VARIABLES pk, pref

align4(x) == ((x + 3) \div 4) * 4
num_pivots(p) == Len(p.keys)
PivotBytes(keys) == FoldFunction(LAMBDA a, b : a + b, 0, [i \in DOMAIN keys |-> keys[i].len])
\* What is stored of a key in an array of keys of length len.
Stored(k, len) == [key |-> k, len |-> len]

pivots_create_empty == [fixed |-> FALSE, len |-> 0, total |-> 0, keys |-> <<>>]
create_from_fixed_keys(keys, len) ==
  [fixed |-> TRUE, len |-> len, total |-> align4(len) * Len(keys), keys |-> keys]
create_from_dbts(keys) ==
  IF keys # <<>> /\ \A i \in 2 .. Len(keys) : keys[i].len = keys[i - 1].len
  THEN create_from_fixed_keys(keys, keys[1].len)
  ELSE [pivots_create_empty EXCEPT !.keys = keys, !.total = PivotBytes(keys)]
create_from_pivot_keys(p) ==
  IF p.fixed THEN create_from_fixed_keys(p.keys, p.len) ELSE create_from_dbts(p.keys)
convert_to_fixed_format(p) == create_from_fixed_keys(p.keys, p.keys[1].len)
\* Mutant: the padding of the fixed format stays in the size.
convert_to_dbt_formatMut(p) == [p EXCEPT !.fixed = FALSE, !.len = 0]
convert_to_dbt_format(p) ==
  [fixed |-> FALSE, len |-> 0, total |-> num_pivots(p) * p.len, keys |-> p.keys]

insert_at_fixed(p, k, i) ==
  [p EXCEPT !.keys = InsertAt(@, i + 1, Stored(k, p.len)), !.total = @ + align4(p.len)]
insert_at_dbt(p, k, i) ==
  [p EXCEPT !.keys = InsertAt(@, i + 1, Stored(k, PivotLen[k])), !.total = @ + PivotLen[k]]
insert_at(p, k, i) ==
  LET q == IF p.fixed /\ PivotLen[k] # p.len THEN convert_to_dbt_format(p) ELSE p
  IN  IF q.fixed THEN insert_at_fixed(q, k, i) ELSE insert_at_dbt(q, k, i)

append_dbt(p, other) ==
  [p EXCEPT !.keys = @ \o other.keys, !.total = @ + PivotBytes(other.keys)]
append_fixed(p, other) ==
  IF other.fixed /\ other.len = p.len
  THEN [p EXCEPT !.keys = @ \o other.keys, !.total = @ + other.total]
  ELSE append_dbt(convert_to_dbt_format(p), other)
append(p, other) == IF p.fixed THEN append_fixed(p, other) ELSE append_dbt(p, other)

replace_at_dbt(p, k, i) ==
  [p EXCEPT !.keys[i + 1] = Stored(k, PivotLen[k]),
            !.total = @ - p.keys[i + 1].len + PivotLen[k]]
replace_at_fixed(p, k, i) ==
  IF PivotLen[k] = p.len THEN [p EXCEPT !.keys[i + 1] = Stored(k, p.len)]
  ELSE replace_at_dbt(convert_to_dbt_format(p), k, i)
replace_at(p, k, i) ==
  CASE i = num_pivots(p) -> insert_at(p, k, i)
    [] i < num_pivots(p) /\ p.fixed -> replace_at_fixed(p, k, i)
    [] i < num_pivots(p) /\ ~p.fixed -> replace_at_dbt(p, k, i)

delete_at_fixed(p, i) == [p EXCEPT !.keys = RemoveAt(@, i + 1), !.total = @ - align4(p.len)]
delete_at_dbt(p, i) ==
  [p EXCEPT !.keys = RemoveAt(@, i + 1), !.total = @ - p.keys[i + 1].len]
delete_at(p, i) == IF p.fixed THEN delete_at_fixed(p, i) ELSE delete_at_dbt(p, i)

\* What may be left, and the other part.  A fixed array cut to nothing may be
\* given back, and the format with it: reallocation to no bytes may do either.
split_at_fixed(p, i) ==
  {<<[p EXCEPT !.keys = SubSeq(@, 1, i), !.total = i * align4(p.len), !.fixed = kept],
     create_from_fixed_keys(SubSeq(p.keys, i + 1, num_pivots(p)), p.len)>> :
     kept \in IF i = 0 THEN BOOLEAN ELSE {TRUE}}
split_at_dbt(p, i) ==
  LET rest == SubSeq(p.keys, i + 1, num_pivots(p))
  IN  {<<[p EXCEPT !.keys = SubSeq(@, 1, i), !.total = @ - PivotBytes(rest)],
         create_from_dbts(rest)>>}
split_at(p, i) ==
  IF i = num_pivots(p) THEN {<<p, pivots_create_empty>>}
  ELSE IF p.fixed THEN split_at_fixed(p, i) ELSE split_at_dbt(p, i)

serialized_size(p) == IF p.fixed THEN num_pivots(p) * p.len ELSE p.total
pivots_serialize_to_wbuf(p) ==
  [i \in DOMAIN p.keys |-> Stored(p.keys[i].key, IF p.fixed THEN p.len ELSE p.keys[i].len)]
pivots_deserialize_from_rbuf(keys) ==
  LET p == [pivots_create_empty EXCEPT !.keys = keys, !.total = PivotBytes(keys)]
  IN  IF keys # <<>> /\ \A i \in 2 .. Len(keys) : keys[i].len = keys[i - 1].len
      THEN convert_to_fixed_format(p) ELSE p
get_pivot(p, i) == IF p.fixed THEN Stored(p.keys[i + 1].key, p.len) ELSE p.keys[i + 1]

sanity_check(p) ==
  IF p.fixed THEN p.total = num_pivots(p) * align4(p.len) ELSE p.total = PivotBytes(p.keys)

-----------------------------------------------------------------------------
Between(k, i, j) ==
  /\ i >= 1 => pref[i] < k
  /\ j <= Len(pref) => k < pref[j]

PivotInit == pk = pivots_create_empty /\ pref = <<>>
PivotInsert ==
  \E k \in PivotKeysOf, i \in 0 .. num_pivots(pk) :
    /\ Between(k, i, i + 1)
    /\ pk' = insert_at(pk, k, i) /\ pref' = InsertAt(pref, i + 1, k)
PivotReplace ==
  \E k \in PivotKeysOf, i \in 0 .. num_pivots(pk) :
    /\ Between(k, i, i + 2)
    /\ pk' = replace_at(pk, k, i)
    /\ pref' = IF i = Len(pref) THEN Append(pref, k) ELSE [pref EXCEPT ![i + 1] = k]
PivotDelete ==
  \E i \in 0 .. num_pivots(pk) - 1 : pk' = delete_at(pk, i) /\ pref' = RemoveAt(pref, i + 1)
\* A node is split, and the left part, the right part or the two joined again
\* go on.
PivotSplit ==
  \E i \in 0 .. num_pivots(pk) : \E s \in split_at(pk, i) :
    \/ pk' = s[1] /\ pref' = SubSeq(pref, 1, i)
    \/ pk' = s[2] /\ pref' = SubSeq(pref, i + 1, Len(pref))
    \/ pk' = append(s[1], s[2]) /\ UNCHANGED pref
PivotClone == pk' = create_from_pivot_keys(pk) /\ UNCHANGED pref
PivotRead ==
  pk' = pivots_deserialize_from_rbuf(pivots_serialize_to_wbuf(pk)) /\ UNCHANGED pref
PivotNext == PivotInsert \/ PivotReplace \/ PivotDelete \/ PivotSplit \/ PivotClone
               \/ PivotRead

\* Through every change of format the pivots are the keys they were given, whole,
\* and the size the node is written with is theirs (pivotkeys.cc, sanity_check and
\* the invariant of serialize_to_wbuf).
PivotsHold ==
  /\ num_pivots(pk) = Len(pref)
  /\ \A i \in DOMAIN pref : get_pivot(pk, i - 1) = Stored(pref[i], PivotLen[pref[i]])
  /\ sanity_check(pk)
  /\ serialized_size(pk) = PivotBytes(pivots_serialize_to_wbuf(pk))
=============================================================================
