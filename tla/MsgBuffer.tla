----------------------------- MODULE MsgBuffer -----------------------------
(***************************************************************************)
(* The messages waiting for one child: the buffer of ft/msg_buffer.cc, an  *)
(* array of bytes the messages are appended to, and the three indexes the  *)
(* node keeps of it (ft/node.cc): the offsets of the fresh messages and of *)
(* the stale ones, both in the order of key and MSN, and of the broadcasts *)
(* as they came.  A message is [key, msn, bytes], key 0 for a broadcast;   *)
(* in memory it has a place of its own.  mref is the sequence of messages  *)
(* that came, and which are fresh.                                         *)
(***************************************************************************)
EXTENDS Integers, Sequences, FiniteSets, SequencesExt

CONSTANTS MsgKeys,     \* the keys, and 0: a message for every row
          MsgBytes,    \* the lengths of messages
          MaxMsgs,     \* bound: the messages in the buffer
          LeastBuffer, \* 4096: the least room a buffer is given
          RbufBytes    \* what a node read from disk is long
VARIABLES bnc, mref

memsize(m) == m.bytes
MinRoom(n) == CHOOSE r \in {LeastBuffer * 2 ^ i : i \in 0 .. n} :
                r >= n /\ \A i \in 0 .. n : LeastBuffer * 2 ^ i < r => LeastBuffer * 2 ^ i < n
next_power_of_two(n) == MinRoom(n)

buffer_create == [entries |-> <<>>, used |-> 0, room |-> 0]
enqueue(b, m, fresh) ==
  LET need == b.used + memsize(m)
  IN  [entries |-> Append(b.entries, [msg |-> m, fresh |-> fresh, off |-> b.used]),
       used |-> need,
       room |-> IF b.room = 0 \/ need > b.room THEN next_power_of_two(need) ELSE b.room]
EntryAt(b, off) == CHOOSE i \in DOMAIN b.entries : b.entries[i].off = off
set_freshness(b, off, fresh) == [b EXCEPT !.entries[EntryAt(b, off)].fresh = fresh]
get_message_key_msn(b, off) == b.entries[EntryAt(b, off)].msg
\* The messages are found one after the other by their sizes.
iterate(b) == [i \in DOMAIN b.entries |-> <<b.entries[i].msg, b.entries[i].fresh>>]

key_msn_less(b, x, y) ==
  LET p == get_message_key_msn(b, x)
      q == get_message_key_msn(b, y)
  IN  p.key < q.key \/ (p.key = q.key /\ p.msn < q.msn)
Inserted(b, tree, off) ==
  InsertAt(tree, 1 + Cardinality({i \in DOMAIN tree : key_msn_less(b, tree[i], off)}), off)
bnc_insert_msg(c, m, fresh) ==
  LET b   == enqueue(c.buffer, m, fresh)
      off == c.buffer.used
  IN  CASE m.key # 0 /\ fresh -> [c EXCEPT !.buffer = b, !.fresh = Inserted(b, @, off)]
        [] m.key # 0 /\ ~fresh -> [c EXCEPT !.buffer = b, !.stale = Inserted(b, @, off)]
        [] m.key = 0 -> [c EXCEPT !.buffer = b, !.broadcast = Append(@, off)]

\* A range of the fresh messages was applied to a leaf below: they are no longer
\* fresh, and the marked ones move to the other index.
\* Mutant: the messages keep the flag they came with.
move_messages_to_staleMut(c, offs) ==
  [c EXCEPT !.stale = FoldLeft(LAMBDA t, o : Inserted(c.buffer, t, o), @,
                               SelectSeq(c.fresh, LAMBDA o : o \in offs)),
            !.fresh = SelectSeq(@, LAMBDA o : o \notin offs)]
move_messages_to_stale(c, offs) ==
  LET moved == SelectSeq(c.fresh, LAMBDA o : o \in offs)
      b == FoldLeft(LAMBDA d, o : set_freshness(d, o, FALSE), c.buffer, moved)
  IN  [buffer |-> b,
       stale |-> FoldLeft(LAMBDA t, o : Inserted(b, t, o), c.stale, moved),
       fresh |-> SelectSeq(c.fresh, LAMBDA o : o \notin offs), broadcast |-> c.broadcast]

-----------------------------------------------------------------------------
serialize_child_buffer(c) ==
  [msgs |-> iterate(c.buffer), fresh |-> c.fresh, stale |-> c.stale,
   broadcast |-> c.broadcast]
EnqueueAll(b, msgs) == FoldLeft(LAMBDA c, x : enqueue(c, x[1], x[2]), b, msgs)
buffer_deserialize_from_rbuf(msgs) ==
  EnqueueAll([buffer_create EXCEPT !.room = RbufBytes], msgs)
deserialize_child_buffer(w) ==
  [buffer |-> buffer_deserialize_from_rbuf(w.msgs), fresh |-> w.fresh,
   stale |-> w.stale, broadcast |-> w.broadcast]
\* A node of version 26 or older says nothing of the indexes: its messages are
\* sorted into them.
OffsetsOf(b, P(_)) ==
  [i \in DOMAIN SelectSeq(b.entries, P) |-> SelectSeq(b.entries, P)[i].off]
sort_and_steal_offset_arrays(b) ==
  [buffer |-> b,
   fresh |-> SortSeq(OffsetsOf(b, LAMBDA e : e.msg.key # 0 /\ e.fresh),
                     LAMBDA x, y : key_msn_less(b, x, y)),
   stale |-> SortSeq(OffsetsOf(b, LAMBDA e : e.msg.key # 0 /\ ~e.fresh),
                     LAMBDA x, y : key_msn_less(b, x, y)),
   broadcast |-> OffsetsOf(b, LAMBDA e : e.msg.key = 0)]
deserialize_child_buffer_v26(w) ==
  sort_and_steal_offset_arrays(buffer_deserialize_from_rbuf(w.msgs))
\* In version 13 messages have no MSN and are all fresh: each is given one, in the
\* order they came, from those just below the lowest the header has given out.
v13_msgs(msgs, highest_unused) ==
  [i \in DOMAIN msgs |->
     <<[msgs[i] EXCEPT !.msn = highest_unused - Len(msgs) + i], TRUE>>]
deserialize_child_buffer_v13(msgs, highest_unused) ==
  sort_and_steal_offset_arrays(EnqueueAll(buffer_create, v13_msgs(msgs, highest_unused)))

-----------------------------------------------------------------------------
HighestUnused == 0 \* below every MSN given out since

BufferInit ==
  \E n \in 0 .. MaxMsgs - 2 : \E msgs \in [1 .. n -> [key : MsgKeys, msn : {0}, bytes : MsgBytes]] :
    \* a new buffer, or one of a node of version 13
    /\ bnc = deserialize_child_buffer_v13(msgs, HighestUnused)
    /\ mref = v13_msgs(msgs, HighestUnused)
BufferInsert ==
  /\ Len(mref) < MaxMsgs
  /\ \E k \in MsgKeys, n \in MsgBytes, fresh \in BOOLEAN :
       LET m == [key |-> k, msn |-> Len(mref) + 1, bytes |-> n]
       IN  /\ bnc' = bnc_insert_msg(bnc, m, fresh)
           /\ mref' = Append(mref, <<m, fresh>>)
\* The fresh messages for some keys are applied.
BufferApply ==
  \E lo, hi \in MsgKeys \ {0} :
    /\ lo <= hi
    /\ LET offs == {o \in Range(bnc.fresh) : get_message_key_msn(bnc.buffer, o).key \in lo .. hi}
       IN  bnc' = move_messages_to_stale(bnc, offs)
    /\ mref' = [i \in DOMAIN mref |->
                  IF mref[i][1].key \in lo .. hi THEN <<mref[i][1], FALSE>> ELSE mref[i]]
BufferRead ==
  bnc' = deserialize_child_buffer(serialize_child_buffer(bnc)) /\ UNCHANGED mref
BufferUpgrade ==
  bnc' = deserialize_child_buffer_v26(serialize_child_buffer(bnc)) /\ UNCHANGED mref
BufferNext == BufferInsert \/ BufferApply \/ BufferRead \/ BufferUpgrade

\* The buffer holds the messages in the order they came, within its room, and the
\* indexes divide them: each offset is that of a message which is fresh, stale or
\* a broadcast as the index says, and keys are in order of key and MSN, however
\* often the node was written and read (bnc_insert_msg, deserialize_child_buffer).
BufferIndexed ==
  LET b == bnc.buffer
      Say(off) == <<b.entries[EntryAt(b, off)].msg, b.entries[EntryAt(b, off)].fresh>>
      Sorted(t) == \A i \in 1 .. Len(t) - 1 : key_msn_less(b, t[i], t[i + 1])
      Holds(t, P(_)) == {Say(o) : o \in Range(t)} = {x \in Range(mref) : P(x)}
  IN  /\ iterate(b) = mref /\ b.used <= b.room
      /\ b.used = FoldLeft(LAMBDA n, x : n + memsize(x[1]), 0, mref)
      /\ \A i \in DOMAIN mref, j \in DOMAIN mref : i < j => mref[i][1].msn < mref[j][1].msn
      /\ \A t \in {bnc.fresh, bnc.stale, bnc.broadcast} :
           \A o \in Range(t) : \E i \in DOMAIN b.entries : b.entries[i].off = o
      /\ Sorted(bnc.fresh) /\ Sorted(bnc.stale)
      /\ Holds(bnc.fresh, LAMBDA x : x[1].key # 0 /\ x[2])
      /\ Holds(bnc.stale, LAMBDA x : x[1].key # 0 /\ ~x[2])
      /\ Holds(bnc.broadcast, LAMBDA x : x[1].key = 0)
      /\ Len(bnc.fresh) + Len(bnc.stale) + Len(bnc.broadcast) = Len(mref)
=============================================================================
