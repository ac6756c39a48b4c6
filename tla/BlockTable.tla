----------------------------- MODULE BlockTable -----------------------------
(***************************************************************************)
(* The block table of a fractal tree file (ft/serialize/block_table.cc),   *)
(* the headers that make it durable (ft/ft.cc, ft/serialize/               *)
(* ft-serialize.cc) and the crash and recovery of the file.                *)
(*                                                                         *)
(* A node has a block number; a translation says where its block lies.     *)
(* There are three translations: the current one, the one of the           *)
(* checkpoint in progress, and the one of the last checkpoint, which a     *)
(* crash goes back to and whose blocks must therefore stay as they are.    *)
(* The cachetable decides what is written when: a node that is in the      *)
(* cache when a checkpoint begins is pending, and is written for the       *)
(* checkpoint before anybody changes it.                                   *)
(*                                                                         *)
(* A write is two steps, the allocation of a place under the mutex of the  *)
(* table and the write to the file; the file keeps what was written for    *)
(* certain only after an fsync.  A place that is free may be given to      *)
(* anybody at any time, and counts as unreadable.  A header that is being  *)
(* written reads as the old one, as the new one or not at all.             *)
(*                                                                         *)
(* All blocks have one size, so a place is a number, and the reserved      *)
(* block numbers are left out, but for the entry of the translation itself.*)
(***************************************************************************)
EXTENDS Integers, FiniteSets, FiniteSetsExt

CONSTANTS NumBlocks,       \* bound: block numbers 0 .. NumBlocks-1
          Offsets,         \* places for a block in the file
          None,
          MaxStamp,        \* bound: changes to nodes
          MaxCheckpoints,  \* bound: checkpoints
          MaxCrashes       \* bound: crashes

ASSUME BlockTableAssumption ==
  /\ NumBlocks \in Nat /\ MaxStamp \in Nat /\ MaxCheckpoints \in Nat /\ MaxCrashes \in Nat
  /\ IsFiniteSet(Offsets) /\ Offsets \in SUBSET Nat /\ Offsets # {}
  /\ None \notin Int

Blocks == 0 .. NumBlocks - 1
Null   == -1     \* freelist_null
Unused == -2     \* diskoff_unused

VARIABLES
  current, inprogress, checkpointed,   \* the three translations
  allocated,   \* the offsets that the block allocator has given away
  disk,        \* what the file holds at each offset, None if it cannot be relied on
  unsynced,    \* the offsets written to since the last fsync
  node,        \* the content of each node, a stamp
  stamp,       \* the last stamp given to a node
  dirty,       \* nodes that changed since they were written
  pending,     \* nodes with a checkpoint_pending bit
  job,         \* the write that is under way for a node
  hDirty, chDirty,  \* dirty bits of the header and of the checkpoint header
  phase,       \* where the checkpoint of this file stands
  skipped,     \* _checkpoint_skipped
  closing,     \* is the checkpoint the one of ft_close?
  count,       \* checkpoint_count of the header
  lsn,         \* checkpoint_lsn, as the number of the last checkpoint begun
  logged,      \* the last checkpoint whose end is in the log
  slots,       \* the two headers in the file: what each may read as
  snap,        \* the contents that the checkpoint in progress stands for
  kind,        \* "dictionary" or "rollback"
  crashes

tables  == <<current, inprogress, checkpointed>>
nodes   == <<node, stamp, dirty, pending, job>>
headers == <<hDirty, chDirty, phase, skipped, closing, count, lsn, logged, slots, snap>>
vars    == <<current, inprogress, checkpointed, allocated, disk, unsynced, node, stamp, dirty,
             pending, job, hDirty, chDirty, phase, skipped, closing, count, lsn, logged, slots,
             snap, kind, crashes>>
-----------------------------------------------------------------------------
(* Faulty variants of the operations below, for the checks of the properties *)
\* The entry is overwritten before the link is read from it.
AllocateInMut(t) ==
  IF t.head = -1
  THEN [t EXCEPT !.u[t.smallest] = -2, !.smallest = @ + 1]
  ELSE [t EXCEPT !.u[t.head] = -2, !.head = -2, !.free = @ \ {t.head}]
\* The end of a checkpoint forgets the block of the old translation itself.
ObsoleteMut ==
  {checkpointed.u[b] : b \in {c \in 0 .. checkpointed.smallest - 1 :
     /\ c \notin checkpointed.free /\ checkpointed.u[c] # -2
     /\ ~ (c < inprogress.smallest /\ inprogress.u[c] = checkpointed.u[c])}}
\* The free list loses its tail.
FreeInMut(t, b) == [t EXCEPT !.u[b] = -1, !.head = b, !.free = @ \cup {b}]
\* The count of the header goes up with the copy and again with the write.
NewHeaderMut == [count |-> count + 2, lsn |-> lsn, table |-> inprogress, snap |-> snap]
\* The blocks of the old checkpoint are given away before the end of it is logged.
MayEndMut == phase = "written" \/ phase = "logged"
\* A write for the checkpoint leaves the current translation alone.
SetPlaceMut(b, o, forCheckpoint) ==
  IF forCheckpoint THEN inprogress' = [inprogress EXCEPT !.u[b] = o] /\ UNCHANGED current
                   ELSE current' = [current EXCEPT !.u[b] = o] /\ UNCHANGED inprogress
\* The node counts as clean when its write is done, not when it was taken.
FinishWriteMut(b) ==
  /\ job[b].o # None
  /\ disk' = [disk EXCEPT ![job[b].o] = <<b, job[b].v>>]
  /\ job' = [job EXCEPT ![b] = [o |-> None, v |-> None, clone |-> FALSE, ckpt |-> FALSE]]
  /\ dirty' = dirty \ {b}
  /\ UNCHANGED <<current, inprogress, checkpointed, allocated, unsynced, node, stamp, pending,
                 hDirty, chDirty, phase, skipped, closing, count, lsn, logged, slots, snap, kind,
                 crashes>>
-----------------------------------------------------------------------------
(* Translations *)

\* u is the union of the offset and the next free block number; btt is the entry of
\* the translation itself, RESERVED_BLOCKNUM_TRANSLATION
Translation(u, free, head, smallest, btt) ==
  [u |-> u, free |-> free, head |-> head, smallest |-> smallest, btt |-> btt]

\* also what memset leaves of a translation that is gone
NoTranslation == Translation([b \in Blocks |-> Null], {}, Null, 0, Unused)

IsAllocated(t, b) == b < t.smallest /\ b \notin t.free

\* the block has a place on disk: size > 0
HasPlace(t, b) == IsAllocated(t, b) /\ t.u[b] # Unused

OffsetsOf(t) == ({t.u[b] : b \in {c \in Blocks : HasPlace(t, c)}} \cup {t.btt}) \ {Unused}

\* _translation_prevents_freeing
PreventsFreeing(t, b, o) == b < t.smallest /\ t.u[b] = o

\* _allocate_blocknum_unlocked
NextBlocknum(t) == IF t.head = Null THEN t.smallest ELSE t.head
AllocateIn(t) ==
  IF t.head = Null
  THEN [t EXCEPT !.u[t.smallest] = Unused, !.smallest = @ + 1]
  ELSE [t EXCEPT !.u[t.head] = Unused, !.head = t.u[t.head], !.free = @ \ {t.head}]

\* _free_blocknum_in_translation
FreeIn(t, b) == [t EXCEPT !.u[b] = t.head, !.head = b, !.free = @ \cup {b}]

\* The free list when the block numbers of F are pushed on h in ascending order.
ListHead(F, h)    == IF F = {} THEN h ELSE Max(F)
ListNext(F, h, b) == ListHead({c \in F : c < b}, h)

\* _maybe_optimize_translation
Optimize(t) ==
  LET s == Min({n \in 0 .. t.smallest : \A b \in n .. t.smallest - 1 : b \in t.free})
      F == {b \in t.free : b < s}
  IN  IF s = t.smallest THEN t
      ELSE Translation([b \in Blocks |->
                          IF b \in F THEN ListNext(F, Null, b)
                          ELSE IF b < s THEN t.u[b] ELSE Null],
                       F, ListHead(F, Null), s, t.btt)

\* free_unused_blocknums
FreeUnused(t) ==
  LET F == {b \in 0 .. t.smallest - 1 : t.u[b] = Unused}
  IN  [t EXCEPT !.u = [b \in Blocks |-> IF b \in F THEN ListNext(F, t.head, b) ELSE t.u[b]],
                !.free = @ \cup F, !.head = ListHead(F, t.head)]

\* _copy_translation: the copy has no place on disk yet
CopyTranslation(t) == [t EXCEPT !.btt = Unused]
-----------------------------------------------------------------------------
NoJob    == [o |-> None, v |-> None, clone |-> FALSE, ckpt |-> FALSE]
Idle(b)  == job[b] = NoJob

\* BlockAllocator::AllocBlock, first fit
Place(taken) == Min(Offsets \ taken)

\* what can be relied on when only the places of taken are in use
Kept(contents, taken) == [o \in Offsets |-> IF o \in taken THEN contents[o] ELSE None]

\* the file after ft_create and the checkpoint that makes it readable
Init ==
  /\ checkpointed = [NoTranslation EXCEPT !.btt = Place({})]
  /\ allocated = {Place({})}
  /\ disk = Kept([o \in Offsets |-> <<None, 0>>], allocated)
  /\ current = NoTranslation /\ inprogress = NoTranslation
  /\ unsynced = {}
  /\ node = [b \in Blocks |-> None] /\ stamp = 0
  /\ dirty = {} /\ pending = {} /\ job = [b \in Blocks |-> NoJob]
  /\ hDirty = FALSE /\ chDirty = FALSE
  /\ phase = "none" /\ skipped = FALSE /\ closing = FALSE
  /\ count = 1 /\ lsn = 0 /\ logged = 0
  /\ snap = [b \in Blocks |-> None]
  /\ slots = [i \in {0, 1} |->
       IF i = 0 THEN {[count |-> 1, lsn |-> 0, table |-> checkpointed, snap |-> snap]} ELSE {None}]
  /\ kind \in {"dictionary", "rollback"}
  /\ crashes = 0

\* the file is open and not being closed
Open == phase # "closed" /\ ~ closing
-----------------------------------------------------------------------------
(* Nodes and their blocks *)

AllocateBlocknum ==
  /\ Open
  /\ NextBlocknum(current) \in Blocks
  /\ current' = AllocateIn(current)
  /\ hDirty' = TRUE
  /\ node' = [node EXCEPT ![NextBlocknum(current)] = None]
  /\ UNCHANGED <<inprogress, checkpointed, allocated, disk, unsynced, stamp, dirty, pending, job,
                 chDirty, phase, skipped, closing, count, lsn, logged, slots, snap, kind, crashes>>

\* A client puts or changes a node, and waits for a writer that has the node itself,
\* not for one that has a clone.  It saw to the pending bit when it pinned the node; one
\* that pinned it before the checkpoint began changes it for the checkpoint too.
Modify(b) ==
  /\ Open /\ IsAllocated(current, b) /\ b \notin dirty
  /\ Idle(b) \/ job[b].clone
  /\ stamp < MaxStamp
  /\ stamp' = stamp + 1
  /\ node' = [node EXCEPT ![b] = stamp']
  /\ snap' = IF b \in pending THEN [snap EXCEPT ![b] = stamp'] ELSE snap
  /\ dirty' = dirty \cup {b}
  /\ UNCHANGED <<tables, allocated, disk, unsynced, pending, job, hDirty, chDirty, phase, skipped,
                 closing, count, lsn, logged, slots, kind, crashes>>

\* a clean node only loses its pending bit
ClearPending(b) ==
  /\ b \in pending \ dirty
  /\ pending' = pending \ {b}
  /\ UNCHANGED <<tables, allocated, disk, unsynced, node, stamp, dirty, job, headers, kind, crashes>>

\* is a write of this node one for the checkpoint?
ForCheckpoint(b) == b \in pending

CannotFree(b, o, forCheckpoint) ==
  \/ ~ forCheckpoint /\ PreventsFreeing(inprogress, b, o)
  \/ PreventsFreeing(checkpointed, b, o)

\* ft_set_dirty
SetDirty(forCheckpoint) ==
  /\ hDirty' = (hDirty \/ ~ forCheckpoint)
  /\ chDirty' = (chDirty \/ forCheckpoint)

\* the new place of a block, in the checkpoint in progress too when it is written for that
SetPlace(b, o, forCheckpoint) ==
  /\ current' = [current EXCEPT !.u[b] = o]
  /\ inprogress' = IF forCheckpoint THEN [inprogress EXCEPT !.u[b] = o] ELSE inprogress

\* A dirty node is evicted, or written or cloned for the checkpoint, and gets a new place
\* (_realloc_on_disk_internal).  disk_nb_mutex and the pair lock keep a second write of
\* the node away, so that nobody sees a difference between the two.
StartWrite(b, clone) ==
  /\ Open /\ b \in dirty /\ Idle(b)
  /\ clone => ForCheckpoint(b)
  /\ LET old  == current.u[b]
         ckpt == ForCheckpoint(b)
         used == allocated \ (IF CannotFree(b, old, ckpt) THEN {} ELSE {old})
         o    == Place(used)
     IN  /\ Offsets \ used # {}
         /\ allocated' = used \cup {o}
         /\ SetPlace(b, o, ckpt)
         /\ job' = [job EXCEPT ![b] = [o |-> o, v |-> node[b], clone |-> clone, ckpt |-> ckpt]]
         /\ disk' = Kept(disk, used \ {o})
         /\ unsynced' = (unsynced \cap used) \cup {o}
         /\ SetDirty(ckpt)
  /\ dirty' = dirty \ {b}
  /\ pending' = pending \ {b}
  /\ UNCHANGED <<checkpointed, node, stamp, phase, skipped, closing, count, lsn, logged, slots, snap,
                 kind, crashes>>

FinishWrite(b) ==
  /\ job[b].o # None
  /\ disk' = [disk EXCEPT ![job[b].o] = <<b, job[b].v>>]
  /\ job' = [job EXCEPT ![b] = NoJob]
  /\ UNCHANGED <<tables, allocated, unsynced, node, stamp, dirty, pending, headers, kind, crashes>>

\* toku_cachetable_unpin_and_remove and free_blocknum; a node with its pending bit on
\* was pinned before the checkpoint began and is taken out of the checkpoint as well
FreeBlocknum(b) ==
  /\ Open /\ IsAllocated(current, b) /\ Idle(b)
  /\ current' = FreeIn(current, b)
  /\ inprogress' = IF ForCheckpoint(b) THEN FreeIn(inprogress, b) ELSE inprogress
  /\ LET old == current.u[b] IN
       allocated' = IF \/ old = Unused
                       \/ PreventsFreeing(inprogress', b, old)
                       \/ PreventsFreeing(checkpointed, b, old)
                    THEN allocated ELSE allocated \ {old}
  /\ disk' = Kept(disk, allocated')
  /\ unsynced' = unsynced \cap allocated'
  /\ SetDirty(ForCheckpoint(b))
  /\ snap' = IF ForCheckpoint(b) THEN [snap EXCEPT ![b] = None] ELSE snap
  /\ dirty' = dirty \ {b}
  /\ pending' = pending \ {b}
  /\ node' = [node EXCEPT ![b] = None]
  /\ UNCHANGED <<checkpointed, stamp, job, phase, skipped, closing, count, lsn,
                 logged, slots, kind, crashes>>
-----------------------------------------------------------------------------
(* The checkpoint of the file *)

\* note_start_checkpoint_unlocked and ft_begin_checkpoint; pending bits go to the nodes
\* in the cache, all the dirty ones among them
BeginCopy(cached) ==
  /\ phase = "none" /\ lsn < MaxCheckpoints
  /\ \A b \in Blocks : Idle(b)
  /\ current' = Optimize(current)
  /\ inprogress' = CopyTranslation(Optimize(current))
  /\ snap' = node
  /\ pending' = cached
  /\ chDirty' = hDirty /\ hDirty' = FALSE
  /\ lsn' = lsn + 1
  /\ phase' = "begun" /\ skipped' = FALSE
  /\ UNCHANGED <<checkpointed, allocated, disk, unsynced, node, stamp, dirty, job, count, logged,
                 slots, kind, crashes>>

BeginCheckpoint ==
  /\ \E cached \in SUBSET {b \in Blocks : node[b] # None} : dirty \subseteq cached /\ BeginCopy(cached)
  /\ UNCHANGED closing

\* ft_close of a dictionary whose nodes have all been flushed
BeginClose ==
  /\ kind = "dictionary" /\ dirty = {} /\ hDirty
  /\ BeginCopy({})
  /\ closing' = TRUE

\* a checkpoint goes on to the file when no node is pending and no clone is unwritten
NodesWritten == pending = {} /\ \A b \in Blocks : ~ job[b].ckpt

\* ft_checkpoint of a clean header
SkipCheckpoint ==
  /\ phase = "begun" /\ NodesWritten /\ ~ chDirty
  /\ skipped' = TRUE
  /\ phase' = "written"
  /\ UNCHANGED <<tables, allocated, disk, unsynced, nodes, hDirty, chDirty, closing, count, lsn,
                 logged, slots, snap, kind, crashes>>

\* serialize_translation_to_wbuf, and the write of the translation
WriteTranslation ==
  /\ phase = "begun" /\ NodesWritten /\ chDirty
  /\ Offsets \ allocated # {}
  /\ LET o == Place(allocated) IN
       /\ allocated' = allocated \cup {o}
       /\ inprogress' = [inprogress EXCEPT !.btt = o]
       /\ disk' = [disk EXCEPT ![o] = <<None, lsn>>]
       /\ unsynced' = unsynced \cup {o}
  /\ phase' = "translated"
  /\ UNCHANGED <<current, checkpointed, nodes, hDirty, chDirty, skipped, closing, count, lsn,
                 logged, slots, snap, kind, crashes>>

\* an fsync saves all writes that are complete
Fsync == unsynced' = unsynced \cap {job[b].o : b \in Blocks}

\* main_offset of toku_serialize_ft_to
Slot(c) == IF c % 2 = 1 THEN 0 ELSE 1

NewHeader == [count |-> count + 1, lsn |-> lsn, table |-> inprogress, snap |-> snap]

\* everything but the header is synced before its write starts
WriteHeader ==
  /\ phase = "translated"
  /\ Fsync
  /\ slots' = [slots EXCEPT ![Slot(count + 1)] = @ \cup {None, NewHeader}]
  /\ phase' = "header"
  /\ UNCHANGED <<tables, allocated, disk, nodes, hDirty, chDirty, skipped, closing, count, lsn,
                 logged, snap, kind, crashes>>

SyncHeader ==
  /\ phase = "header"
  /\ slots' = [slots EXCEPT ![Slot(count + 1)] = {NewHeader}]
  /\ Fsync
  /\ chDirty' = FALSE
  /\ count' = count + 1
  /\ phase' = "written"
  /\ UNCHANGED <<tables, allocated, disk, nodes, hDirty, skipped, closing, lsn, logged, snap,
                 kind, crashes>>

\* log_end_checkpoint, fsynced
LogEndCheckpoint ==
  /\ phase = "written" /\ ~ closing
  /\ logged' = lsn
  /\ phase' = "logged"
  /\ UNCHANGED <<tables, allocated, disk, unsynced, nodes, hDirty, chDirty, skipped, closing, count,
                 lsn, slots, snap, kind, crashes>>

MayEnd == phase = "logged" \/ (closing /\ phase = "written")

\* what the last checkpoint has and the new one has not
ObsoleteBlocks ==
  {b \in 0 .. checkpointed.smallest - 1 :
     HasPlace(checkpointed, b) /\ ~ PreventsFreeing(inprogress, b, checkpointed.u[b])}
Obsolete == {checkpointed.btt} \cup {checkpointed.u[b] : b \in ObsoleteBlocks}

\* note_end_checkpoint
EndCheckpoint ==
  /\ MayEnd
  /\ \/ /\ skipped
        /\ UNCHANGED <<allocated, checkpointed, disk, unsynced>>
     \/ /\ ~ skipped
        /\ allocated' = allocated \ Obsolete
        /\ checkpointed' = inprogress
        /\ disk' = Kept(disk, allocated')
        /\ unsynced' = unsynced \cap allocated'
  /\ inprogress' = NoTranslation
  /\ chDirty' = FALSE
  /\ snap' = [b \in Blocks |-> None]
  /\ phase' = IF closing THEN "closed" ELSE "none"
  /\ UNCHANGED <<current, nodes, hDirty, skipped, closing, count, lsn, logged, slots, kind,
                 crashes>>
-----------------------------------------------------------------------------
(* Crash and recovery *)

\* toku_deserialize_ft_from: the rollback file is opened as of the last checkpoint
\* that the log has the end of, a dictionary as of its latest header
Acceptable(h) == h # None /\ (kind = "rollback" => h.lsn <= logged)
Chosen(hs)    == {h \in hs : Acceptable(h) /\ \A g \in hs : Acceptable(g) => g.count <= h.count}

\* the pairs of headers that recovery may find
Readable == {{h0, h1} : h0 \in slots[0], h1 \in slots[1]}

\* The process stops, or a closed file is opened again: what was not synced is lost,
\* create_from_buffer rebuilds the table, and recovery replays the log from there.  The
\* replay makes the rollback file dirty again if it was before the crash.
Crash ==
  /\ crashes < MaxCrashes
  /\ crashes' = crashes + 1
  /\ \E h0 \in slots[0], h1 \in slots[1] : \E h \in Chosen({h0, h1}) :
       /\ slots' = [i \in {0, 1} |-> IF i = 0 THEN {h0} ELSE {h1}]
       /\ checkpointed' = h.table
       /\ current' = IF kind = "rollback" THEN FreeUnused(CopyTranslation(h.table))
                                          ELSE CopyTranslation(h.table)
       /\ allocated' = OffsetsOf(h.table)
       /\ count' = h.count
       /\ node' = h.snap
       /\ hDirty' = (\E g \in {h0, h1} : g # None /\ g.count > h.count)
  /\ inprogress' = NoTranslation
  /\ disk' = Kept(disk, allocated' \ unsynced)
  /\ unsynced' = {}
  /\ dirty' = {} /\ pending' = {} /\ job' = [b \in Blocks |-> NoJob]
  /\ chDirty' = FALSE /\ phase' = "none" /\ skipped' = FALSE /\ closing' = FALSE
  /\ snap' = [b \in Blocks |-> None]
  /\ UNCHANGED <<stamp, lsn, logged, kind>>
-----------------------------------------------------------------------------
Next ==
  \/ AllocateBlocknum
  \/ \E b \in Blocks :
       \/ Modify(b) \/ ClearPending(b)
       \/ \E clone \in BOOLEAN : StartWrite(b, clone)
       \/ FinishWrite(b) \/ FreeBlocknum(b)
  \/ BeginCheckpoint \/ BeginClose \/ SkipCheckpoint \/ WriteTranslation \/ WriteHeader
  \/ SyncHeader \/ LogEndCheckpoint \/ EndCheckpoint
  \/ Crash

Spec == Init /\ [][Next]_vars
-----------------------------------------------------------------------------
Values       == Offsets \cup Blocks \cup {Null, Unused}
Stamps       == 1 .. MaxStamp
Translations ==
  [u : [Blocks -> Values], free : SUBSET Blocks, head : Blocks \cup {Null},
   smallest : 0 .. NumBlocks, btt : Offsets \cup {Unused}]
Snapshots    == [Blocks -> Stamps \cup {None}]
Headers      == [count : Nat, lsn : Nat, table : Translations, snap : Snapshots]

ASSUME HeaderAssumption == None \notin Headers

\* Every variable has its type.
TypeOK ==
  /\ current \in Translations /\ inprogress \in Translations /\ checkpointed \in Translations
  /\ allocated \in SUBSET Offsets /\ unsynced \in SUBSET allocated
  /\ disk \in [Offsets -> {None} \cup (Blocks \cup {None}) \X Nat]
  /\ node \in Snapshots /\ snap \in Snapshots /\ stamp \in 0 .. MaxStamp
  /\ dirty \in SUBSET Blocks /\ pending \in SUBSET Blocks
  /\ job \in [Blocks -> [o : Offsets \cup {None}, v : Stamps \cup {None},
                         clone : BOOLEAN, ckpt : BOOLEAN]]
  /\ {hDirty, chDirty, skipped, closing} \subseteq BOOLEAN
  /\ phase \in {"none", "begun", "translated", "header", "written", "logged", "closed"}
  /\ count \in Nat /\ lsn \in Nat /\ logged \in 0 .. lsn /\ crashes \in Nat
  /\ slots \in [{0, 1} -> SUBSET (Headers \cup {None})]
  /\ kind \in {"dictionary", "rollback"}

\* The file holds all that header h stands for: its translation, and at the offset of
\* each node the content that the node had for that checkpoint, fsynced.
Intact(h) ==
  /\ disk[h.table.btt] = <<None, h.lsn>> /\ h.table.btt \notin unsynced
  /\ \A b \in Blocks :
       /\ HasPlace(h.table, b) <=> h.snap[b] # None
       /\ HasPlace(h.table, b) =>
            disk[h.table.u[b]] = <<b, h.snap[b]>> /\ h.table.u[b] \notin unsynced

\* Wherever the process stops, in the middle of writes of nodes, of the translation or
\* of a header, recovery finds a header that it may use, and everything that the header
\* stands for is in the file, untouched by the writes since.
Recoverable == \A hs \in Readable : Chosen(hs) # {} /\ \A h \in Chosen(hs) : Intact(h)

\* The space of the file is accounted for: the block allocator has given away exactly
\* the blocks that one of the translations uses, and no place is used for two things.
SpaceExact ==
  /\ allocated = OffsetsOf(current) \cup OffsetsOf(inprogress) \cup OffsetsOf(checkpointed)
  /\ \A s, t \in {current, inprogress, checkpointed} : \A b \in Blocks :
       HasPlace(s, b) =>
         /\ s.u[b] # t.btt
         /\ \A c \in Blocks : HasPlace(t, c) /\ t.u[c] = s.u[b] => b = c

\* follow the free list of t for n links
Follow(t, n) ==
  LET walk[k \in 0 .. n] ==
        IF k = 0 THEN t.head ELSE IF walk[k - 1] = Null THEN Null ELSE t.u[walk[k - 1]]
  IN  walk

\* The free list of every translation, through allocation, release, optimization and
\* recovery, has each free block number once and ends.
FreeListExact ==
  \A t \in {current, inprogress, checkpointed} :
    LET n == Cardinality(t.free) IN
    /\ {Follow(t, n)[k] : k \in 0 .. n} = t.free \cup {Null}
    /\ Follow(t, n)[n] = Null

\* The assertion of toku_deserialize_ft_from: of two headers that recovery may use, one
\* is the successor of the other.
HeadersAlternate ==
  \A hs \in Readable : \A g, h \in hs :
    Acceptable(g) /\ Acceptable(h) /\ g # h => g.count = h.count + 1 \/ h.count = g.count + 1

\* "assert offset does not match offset in current" (note_end_checkpoint): a block that
\* the end of the checkpoint gives back is not in use by the current translation.
EndFreesNothingInUse ==
  MayEnd /\ ~ skipped =>
    \A b \in ObsoleteBlocks : ~ PreventsFreeing(current, b, checkpointed.u[b])

\* A node that is neither dirty nor being written can be dropped from the cache: the
\* current translation leads to the content that it had.
ReadsBack ==
  \A b \in Blocks : IsAllocated(current, b) /\ node[b] # None /\ b \notin dirty /\ Idle(b)
    => HasPlace(current, b) /\ disk[current.u[b]] = <<b, node[b]>>

\* The assertions of the table and of the headers hold, and what it says can be read is
\* there.
TableSound == FreeListExact /\ HeadersAlternate /\ EndFreesNothingInUse /\ ReadsBack

(***************************************************************************)
(* Why they hold.  No place is used for two things, and what a translation *)
(* uses is allocated.  A pending node lies where it lay at the begin of    *)
(* the checkpoint; a node that leads to a place of the last checkpoint     *)
(* leads to it in the one in progress too.  The header of the last         *)
(* checkpoint is the only one in its slot, whole, and stays so until the   *)
(* next one is synced and, for a rollback file, until its end is logged.   *)
(***************************************************************************)
\* No block number is also an offset: a file of at most as many blocks as the headers
\* take bytes at its beginning.
SmallFile == Offsets \cap Blocks = {}

\* The links of the free block numbers stay among them, no two are equal and none is the head.
FreeListSound(t) ==
  /\ t.free \subseteq 0 .. t.smallest - 1
  /\ t.head \in t.free \cup {Null}
  /\ \A b \in t.free : t.u[b] = Null \/ (t.u[b] \in t.free /\ t.u[b] # t.head)
  /\ \A b, c \in t.free : t.u[b] = t.u[c] /\ t.u[b] # Null => b = c

\* A translation that can be used alone.
Usable(t) ==
  /\ FreeListSound(t)
  /\ \A b \in Blocks : IsAllocated(t, b) => t.u[b] \in Offsets \cup {Unused}
  /\ \A b \in Blocks : HasPlace(t, b) => t.u[b] # t.btt
  /\ \A b, c \in Blocks : HasPlace(t, b) /\ HasPlace(t, c) /\ t.u[b] = t.u[c] => b = c

\* Two translations use a place for the same block, if both use it, and the place of
\* neither is one of a block of the other.
Agree(s, t) ==
  \A b \in Blocks : HasPlace(s, b) =>
    s.u[b] # t.btt /\ \A c \in Blocks : HasPlace(t, c) /\ t.u[c] = s.u[b] => b = c

Within(s, t) == \A b \in Blocks : HasPlace(s, b) => HasPlace(t, b) /\ t.u[b] = s.u[b]

TablesSound ==
  /\ Usable(current) /\ Usable(inprogress) /\ Usable(checkpointed)
  /\ Agree(current, inprogress) /\ Agree(inprogress, current)
  /\ Agree(current, checkpointed) /\ Agree(checkpointed, current)
  /\ Agree(inprogress, checkpointed) /\ Agree(checkpointed, inprogress)
  /\ current.btt = Unused /\ checkpointed.btt \in Offsets /\ inprogress.btt # checkpointed.btt
  /\ inprogress.btt # Unused <=> phase \in {"translated", "header"} \/ (phase \in {"written", "logged"} /\ ~ skipped)
  /\ phase \in {"none", "closed"} => inprogress = NoTranslation

InUse == OffsetsOf(current) \cup OffsetsOf(inprogress) \cup OffsetsOf(checkpointed)

SpaceSound ==
  /\ InUse \subseteq allocated
  /\ SmallFile => allocated \subseteq InUse

\* What the dirty bits and the steps of the checkpoint say about the translations.
DirtyBits ==
  /\ phase \in {"none", "closed"} /\ ~ hDirty => Within(current, checkpointed)
  /\ phase \notin {"none", "closed"} /\ ~ hDirty => Within(current, inprogress)
  /\ (phase = "begun" /\ ~ chDirty) \/ skipped => Within(inprogress, checkpointed)
  /\ phase \notin {"none", "closed"} =>
       \A b \in Blocks : HasPlace(current, b) /\ HasPlace(checkpointed, b) /\ current.u[b] = checkpointed.u[b]
         => HasPlace(inprogress, b) /\ inprogress.u[b] = current.u[b]

Written(b) == disk[current.u[b]] = <<b, node[b]>>

NodesSound ==
  \A b \in Blocks :
    /\ ~ IsAllocated(current, b) => node[b] = None /\ b \notin dirty
    /\ HasPlace(current, b) \/ b \in dirty => node[b] # None
    /\ node[b] # None /\ b \notin dirty /\ Idle(b) => HasPlace(current, b) /\ Written(b)

JobsSound ==
  \A b \in Blocks :
    /\ job[b].o = None => Idle(b)
    /\ job[b].o # None =>
         /\ HasPlace(current, b) /\ current.u[b] = job[b].o /\ job[b].v # None
         /\ b \notin dirty => job[b].v = node[b]
         /\ HasPlace(checkpointed, b) => checkpointed.u[b] # job[b].o
         /\ ~ job[b].ckpt /\ HasPlace(inprogress, b) => inprogress.u[b] # job[b].o
         /\ job[b].ckpt => /\ phase = "begun" /\ b \notin pending
                           /\ HasPlace(inprogress, b) /\ inprogress.u[b] = job[b].o
                           /\ job[b].v = snap[b]

\* What the checkpoint in progress stands for is in the file, on its way there or pending.
SnapSound ==
  /\ pending # {} => phase = "begun"
  /\ \A b \in pending :
       /\ IsAllocated(current, b) /\ IsAllocated(inprogress, b) /\ inprogress.u[b] = current.u[b]
       /\ Idle(b) /\ snap[b] = node[b]
  /\ phase \notin {"none", "closed"} => \A b \in Blocks \ pending :
       /\ HasPlace(inprogress, b) <=> snap[b] # None
       /\ HasPlace(inprogress, b) /\ ~ job[b].ckpt => disk[inprogress.u[b]] = <<b, snap[b]>>

NewSlot == Slot(count + 1)
\* the header of the last checkpoint is the one that recovery uses
IsLast(h, n) == h # None /\ h.count = n /\ h.table = checkpointed /\ Acceptable(h) /\ Intact(h)
NewDone == phase \in {"written", "logged"} /\ ~ skipped

\* a header that a rollback file must not be opened with, and that is still to be overwritten
TooNew(g) ==
  /\ kind = "rollback" /\ g.lsn > logged /\ g.count = count + 1
  /\ phase = "none" => hDirty
  /\ phase = "begun" => chDirty
  /\ phase \in {"none", "begun", "translated", "header"}

HeadersSound ==
  /\ \A i \in {0, 1} : \A h \in slots[i] : h # None =>
       Usable(h.table) /\ h.table.btt \in Offsets /\ h.lsn <= lsn
  /\ phase \in {"begun", "translated", "header", "written"} => logged < lsn
  /\ phase = "logged" => logged = lsn
  /\ closing => kind = "dictionary"
  /\ phase = "closed" => closing
  /\ skipped /\ phase \notin {"none", "closed"} => phase \in {"written", "logged"}
  /\ ~ NewDone =>
       /\ \E h \in slots[Slot(count)] : slots[Slot(count)] = {h} /\ IsLast(h, count)
       /\ \A g \in slots[NewSlot] :
            g = None \/ g.count = count - 1 \/ TooNew(g) \/ (phase = "header" /\ g = NewHeader)
       /\ slots[NewSlot] # {}
       /\ phase \in {"translated", "header"} => disk[inprogress.btt] = <<None, lsn>>
       /\ phase = "header" => NewHeader \in slots[NewSlot] /\ Intact(NewHeader)
  /\ NewDone =>
       /\ slots[Slot(count)] = {[NewHeader EXCEPT !.count = count]}
       /\ Intact(NewHeader)
       /\ \E h \in slots[NewSlot] : slots[NewSlot] = {h} /\ IsLast(h, count - 1)

BlockTableInv ==
  /\ TypeOK /\ TablesSound /\ SpaceSound /\ DirtyBits /\ NodesSound /\ JobsSound /\ SnapSound
  /\ HeadersSound
=============================================================================
