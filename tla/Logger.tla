------------------------------- MODULE Logger -------------------------------
(***************************************************************************)
(* The recovery log (ft/logger/logger.cc, logfilemgr.cc, and the functions *)
(* that logformat.cc generates).                                           *)
(*                                                                         *)
(* Threads put entries into the inbuf under the input lock.  A thread that *)
(* needs its entry on disk, or finds the inbuf full, gets the permission   *)
(* to modify the output, swaps inbuf and outbuf and writes the outbuf to   *)
(* the log file; the fsync of one thread serves all whose entries were in  *)
(* the buffer.  When a file is full it is synced and closed and the next   *)
(* one begins.  A completed checkpoint lets old files go.                  *)
(*                                                                         *)
(* An entry is its LSN, and all entries have one size.  The sections under *)
(* output_condition_lock are single steps.                                 *)
(***************************************************************************)
EXTENDS Integers, Sequences, FiniteSets, FiniteSetsExt

CONSTANTS Threads, Checkpointer,   \* the Checkpointer is one of the Threads
          Flushers,     \* bound: the threads that call env->log_flush
          None,
          BufSize,      \* entries that fit in the inbuf, LOGGER_MIN_BUF_SIZE
          LgMax,        \* entries after which a log file is full, lg_max
          MaxLsn,       \* bound: entries
          MaxCrashes    \* bound: crashes

ASSUME LoggerAssumption ==
  /\ Checkpointer \in Threads /\ Flushers \subseteq Threads \ {Checkpointer}
  /\ None \notin Threads
  /\ BufSize \in Nat \ {0} /\ LgMax \in Nat /\ MaxLsn \in Nat /\ MaxCrashes \in Nat

VARIABLES
  lsn,                 \* the last LSN given out
  inbuf, outbuf,       \* the entries in the two buffers
  inMax, outMax,       \* max_lsn_in_buf of the two
  inputLock,           \* who holds input_lock over several steps
  available,           \* output_is_available
  asleep,              \* threads that wait for output_condition
  written, fsynced,    \* written_lsn and fsynced_lsn
  files,               \* the log files, with the maxlsn that logfilemgr keeps for each
  completed,           \* last_completed_checkpoint_lsn
  ckBegin,             \* LSN of the checkpoint in progress, 0 if there is none
  began,               \* for each LSN of an end_checkpoint the LSN of its begin, else 0
  pc, call,            \* a thread's place, and the arguments and locals of its call
  acked,               \* the highest LSN that somebody was told is synced
  trimmed,             \* the highest LSN in a file that was deleted
  crashes

buffers == <<inbuf, outbuf, inMax, outMax>>
ghosts  == <<acked, trimmed>>
vars    == <<lsn, inbuf, outbuf, inMax, outMax, inputLock, available, asleep, written, fsynced,
             files, completed, ckBegin, began, pc, call, acked, trimmed, crashes>>
-----------------------------------------------------------------------------
(* Faulty variants of the operations below, for the checks of the properties *)
\* The condition is not signalled when the output is released.
ReleaseOutputMut(l) ==
  /\ available' = TRUE
  /\ fsynced' = Max({fsynced, l})
  /\ UNCHANGED asleep
\* The last file is closed without an fsync.
SyncLastMut == files
\* A file that ends with the begin of the checkpoint goes, too.
TrimmableMut == Len(files) > 1 /\ files[1].maxlsn <= completed
\* Space is made without the permission to modify the output.
GrabOutputMut(t) ==
  /\ t \notin asleep
  /\ available' = FALSE
  /\ call' = [call EXCEPT ![t].seen = fsynced]
\* A new file counts all entries as synced, also the ones in the inbuf.
NewFsyncedMut == lsn
-----------------------------------------------------------------------------
Last == files[Len(files)]

\* fsync of the current log file
SyncLast == [files EXCEPT ![Len(files)].synced = Last.ents]

\* toku_logfilemgr_update_last_lsn, in files fs
UpdateLastLsn(fs, l) == [fs EXCEPT ![Len(fs)].maxlsn = l]

NewFile(l) == [ents |-> {}, synced |-> {}, maxlsn |-> l]

\* What a thread does, whether it is to be synced, the lsn and fsynced_lsn it works with,
\* and the last LSN at the time of its call
Call(k, s, w, o) == [kind |-> k, sync |-> s, want |-> w, seen |-> 0, owed |-> o]
NoCall == Call("none", FALSE, 0, 0)

\* toku_logger_open of an empty log
Init ==
  /\ lsn = 0 /\ written = 0 /\ fsynced = 0
  /\ inbuf = {} /\ outbuf = {} /\ inMax = 0 /\ outMax = 0
  /\ inputLock = None /\ available = TRUE /\ asleep = {}
  /\ files = <<NewFile(0)>>
  /\ completed = 0 /\ ckBegin = 0 /\ began = <<>>
  /\ pc = [t \in Threads |-> "idle"] /\ call = [t \in Threads |-> NoCall]
  /\ acked = 0 /\ trimmed = 0
  /\ crashes = 0

Move(t, p) == pc' = [pc EXCEPT ![t] = p]

\* the fast part of grab_output
GrabOutput(t) ==
  /\ t \notin asleep /\ available
  /\ available' = FALSE
  /\ call' = [call EXCEPT ![t].seen = fsynced]

\* release_output wakes everybody
ReleaseOutput(l) ==
  /\ available' = TRUE
  /\ fsynced' = Max({fsynced, l})
  /\ asleep' = {}

\* wait for output_condition; grab_output and
\* wait_till_output_already_written_or_output_buffer_available
Sleep(t) ==
  /\ t \notin asleep /\ ~ available
  /\ pc[t] \in {"space", "trim"} \/ (pc[t] = "fsync" /\ fsynced < call[t].want)
  /\ asleep' = asleep \cup {t}
  /\ UNCHANGED <<lsn, buffers, inputLock, available, written, fsynced, files, completed,
                 ckBegin, began, pc, call, ghosts, crashes>>
-----------------------------------------------------------------------------
(* Logging an entry: the generated toku_log_... functions *)

HasSpace == Cardinality(inbuf) < BufSize

\* The entry gets its LSN and its place in the inbuf, and the input lock is released.
PutEntry(t, o) ==
  /\ lsn' = lsn + 1
  /\ inbuf' = inbuf \cup {lsn + 1}
  /\ inMax' = lsn + 1
  /\ began' = Append(began, IF o.kind = "end" THEN ckBegin ELSE 0)
  /\ ckBegin' = IF o.kind = "begin" THEN lsn + 1 ELSE ckBegin
  /\ call' = [call EXCEPT ![t] = IF o.sync THEN Call(o.kind, TRUE, lsn + 1, 0) ELSE NoCall]
  /\ inputLock' = None
  /\ Move(t, IF o.sync THEN "fsync" ELSE "idle")

\* What a thread may log: the begin and the end of a checkpoint, an entry of a
\* transaction, its commit.
Ops(t) ==
  IF t = Checkpointer
  THEN {IF ckBegin = 0 THEN Call("begin", FALSE, 0, 0) ELSE Call("end", TRUE, 0, 0)}
  ELSE {Call("plain", s, 0, 0) : s \in BOOLEAN}

InSpace == {t \in Threads : pc[t] \in {"space", "spaceIn", "spaceWrite", "spaceRotate", "spaceDone"}}

LogEntry(t) ==
  /\ pc[t] = "idle" /\ inputLock = None
  /\ lsn + Cardinality(InSpace) < MaxLsn
  /\ \E o \in Ops(t) :
       \/ HasSpace /\ PutEntry(t, o)
       \/ /\ ~ HasSpace
          /\ call' = [call EXCEPT ![t] = o]
          /\ Move(t, "space")
          /\ UNCHANGED <<lsn, inbuf, inMax, began, ckBegin, inputLock>>
  /\ UNCHANGED <<outbuf, outMax, available, asleep, written, fsynced, files, completed, ghosts,
                 crashes>>

\* toku_logger_make_space_in_inbuf gets the output, then the input lock again
SpaceGrab(t) ==
  /\ pc[t] = "space"
  /\ GrabOutput(t)
  /\ Move(t, "spaceIn")
  /\ UNCHANGED <<lsn, buffers, inputLock, asleep, written, fsynced, files, completed, ckBegin,
                 began, ghosts, crashes>>

\* some other thread has written the log out
SpaceFound(t) ==
  /\ pc[t] = "spaceIn" /\ inputLock = None /\ HasSpace
  /\ ReleaseOutput(call[t].seen)
  /\ PutEntry(t, call[t])
  /\ UNCHANGED <<outbuf, outMax, written, files, completed, ghosts, crashes>>

SwapBuffers == inbuf' = outbuf /\ outbuf' = inbuf /\ inMax' = outMax /\ outMax' = inMax

SpaceSwap(t) ==
  /\ pc[t] = "spaceIn" /\ inputLock = None /\ ~ HasSpace
  /\ SwapBuffers
  /\ inputLock' = t
  /\ Move(t, "spaceWrite")
  /\ UNCHANGED <<lsn, available, asleep, written, fsynced, files, completed, ckBegin, began,
                 call, ghosts, crashes>>

SpaceDone(t) ==
  /\ pc[t] = "spaceDone"
  /\ ReleaseOutput(call[t].seen)
  /\ PutEntry(t, call[t])
  /\ UNCHANGED <<outbuf, outMax, written, files, completed, ghosts, crashes>>
-----------------------------------------------------------------------------
(* write_outbuf_to_logfile *)

WriteOutbuf(t) ==
  /\ pc[t] \in {"spaceWrite", "write"}
  /\ files' = [files EXCEPT ![Len(files)].ents = @ \cup outbuf]
  /\ written' = IF outbuf = {} THEN written ELSE outMax
  /\ outbuf' = {}
  /\ LET full == Cardinality(files'[Len(files)].ents) > LgMax IN
       Move(t, IF pc[t] = "write" THEN (IF full THEN "rotate" ELSE "sync")
                                  ELSE (IF full THEN "spaceRotate" ELSE "spaceDone"))
  /\ UNCHANGED <<lsn, inbuf, inMax, outMax, inputLock, available, asleep, fsynced, completed,
                 ckBegin, began, call, ghosts, crashes>>

\* fsynced_lsn of open_logfile
NewFsynced == written

\* close_and_open_logfile; open_logfile sets fsynced_lsn without the lock
Rotate(t) ==
  /\ pc[t] \in {"spaceRotate", "rotate"}
  /\ files' = Append(UpdateLastLsn(SyncLast, written), NewFile(written))
  /\ call' = [call EXCEPT ![t].seen = written]
  /\ fsynced' = NewFsynced
  /\ Move(t, IF pc[t] = "rotate" THEN "sync" ELSE "spaceDone")
  /\ UNCHANGED <<lsn, buffers, inputLock, available, asleep, written, completed, ckBegin,
                 began, ghosts, crashes>>
-----------------------------------------------------------------------------
(* toku_logger_maybe_fsync *)

\* toku_logger_fsync, the env->log_flush of the interface
LogFlush(t) ==
  /\ t \in Flushers
  /\ pc[t] = "idle" /\ inputLock = None
  /\ call' = [call EXCEPT ![t] = Call("flush", TRUE, inMax, lsn)]
  /\ Move(t, "fsync")
  /\ UNCHANGED <<lsn, buffers, inputLock, available, asleep, written, fsynced, files,
                 completed, ckBegin, began, ghosts, crashes>>

\* toku_logger_fsync_if_lsn_not_fsynced by ft_checkpoint: no header of a checkpoint is
\* written before the log has its begin
FsyncIfLsnNotFsynced ==
  /\ pc[Checkpointer] = "idle" /\ ckBegin # 0
  /\ call' = [call EXCEPT ![Checkpointer] = Call("header", TRUE, ckBegin, 0)]
  /\ Move(Checkpointer, "fsync")
  /\ UNCHANGED <<lsn, buffers, inputLock, available, asleep, written, fsynced, files,
                 completed, ckBegin, began, ghosts, crashes>>

\* maybe_fsync returns; log_end_checkpoint goes on to note the checkpoint and to trim
Return(t) ==
  /\ acked' = Max({acked, call[t].want})
  /\ completed' = IF call[t].kind = "end" THEN ckBegin ELSE completed
  /\ call' = [call EXCEPT ![t] = NoCall]
  /\ Move(t, IF call[t].kind = "end" THEN "trim" ELSE "idle")

AlreadyDone(t) ==
  /\ pc[t] = "fsync" /\ t \notin asleep
  /\ fsynced >= call[t].want
  /\ Return(t)
  /\ UNCHANGED <<lsn, buffers, inputLock, available, asleep, written, fsynced, files, ckBegin,
                 began, trimmed, crashes>>

FsyncGrab(t) ==
  /\ pc[t] = "fsync" /\ fsynced < call[t].want
  /\ GrabOutput(t)
  /\ Move(t, "swap")
  /\ UNCHANGED <<lsn, buffers, inputLock, asleep, written, fsynced, files, completed, ckBegin,
                 began, ghosts, crashes>>

FsyncSwap(t) ==
  /\ pc[t] = "swap" /\ inputLock = None
  /\ SwapBuffers
  /\ Move(t, "write")
  /\ UNCHANGED <<lsn, inputLock, available, asleep, written, fsynced, files, completed,
                 ckBegin, began, call, ghosts, crashes>>

\* Rotate may have synced the entry
FsyncDone(t) ==
  /\ pc[t] = "sync"
  /\ files' = UpdateLastLsn(IF call[t].seen < call[t].want THEN SyncLast ELSE files, written)
  /\ ReleaseOutput(IF call[t].seen < call[t].want THEN written ELSE call[t].seen)
  /\ Return(t)
  /\ UNCHANGED <<lsn, buffers, inputLock, written, ckBegin, began, trimmed, crashes>>
-----------------------------------------------------------------------------
(* toku_logger_maybe_trim_log *)

TrimGrab(t) ==
  /\ pc[t] = "trim"
  /\ GrabOutput(t)
  /\ Move(t, "trimming")
  /\ UNCHANGED <<lsn, buffers, inputLock, asleep, written, fsynced, files, completed, ckBegin,
                 began, ghosts, crashes>>

Trimmable == Len(files) > 1 /\ files[1].maxlsn < completed

TrimFile(t) ==
  /\ pc[t] = "trimming" /\ Trimmable
  /\ files' = Tail(files)
  /\ trimmed' = Max({trimmed} \cup files[1].ents)
  /\ UNCHANGED <<lsn, buffers, inputLock, available, asleep, written, fsynced, completed,
                 ckBegin, began, pc, call, acked, crashes>>

TrimDone(t) ==
  /\ pc[t] = "trimming" /\ ~ Trimmable
  /\ ReleaseOutput(call[t].seen)
  /\ ckBegin' = 0
  /\ call' = [call EXCEPT ![t] = NoCall]
  /\ Move(t, "idle")
  /\ UNCHANGED <<lsn, buffers, inputLock, written, files, completed, began, ghosts, crashes>>
-----------------------------------------------------------------------------
(* Crash and restart *)

InFiles == UNION {files[i].ents : i \in DOMAIN files}
Synced  == UNION {files[i].synced : i \in DOMAIN files}

\* What is left after a crash: all that was synced, and the writes after that up to some
\* point.  lc_fix_bad_logfile cuts off a torn entry.
Survivors == {{l \in InFiles : l \in Synced \/ l <= k} : k \in 0 .. lsn}

\* maxlsn of file i after toku_logfilemgr_init: its last entry, or the last one before it
MaxLsnRead(i, left) == Max({0} \cup UNION {files[j].ents \cap left : j \in 1 .. i})

\* The machine stops; toku_logger_open and toku_logger_restart open a new file.
Crash ==
  /\ crashes < MaxCrashes
  /\ crashes' = crashes + 1
  /\ \E left \in Survivors :
       LET top == MaxLsnRead(Len(files), left) IN
       /\ lsn' = top /\ written' = top /\ fsynced' = top /\ inMax' = top /\ outMax' = top
       /\ files' = Append([i \in DOMAIN files |->
                             [ents   |-> files[i].ents \cap left,
                              synced |-> files[i].ents \cap left,
                              maxlsn |-> MaxLsnRead(i, left)]], NewFile(top))
       /\ began' = SubSeq(began, 1, top)
  /\ inbuf' = {} /\ outbuf' = {}
  /\ inputLock' = None /\ available' = TRUE /\ asleep' = {}
  /\ completed' = 0 /\ ckBegin' = 0
  /\ pc' = [t \in Threads |-> "idle"] /\ call' = [t \in Threads |-> NoCall]
  /\ UNCHANGED ghosts
-----------------------------------------------------------------------------
\* the steps of a thread that is in one of the functions of the logger
Step(t) ==
  \/ Sleep(t)
  \/ SpaceGrab(t) \/ SpaceFound(t) \/ SpaceSwap(t) \/ SpaceDone(t)
  \/ WriteOutbuf(t) \/ Rotate(t)
  \/ AlreadyDone(t) \/ FsyncGrab(t) \/ FsyncSwap(t) \/ FsyncDone(t)
  \/ TrimGrab(t) \/ TrimFile(t) \/ TrimDone(t)

Next ==
  \/ \E t \in Threads : LogEntry(t) \/ LogFlush(t) \/ Step(t)
  \/ FsyncIfLsnNotFsynced
  \/ Crash

Spec == Init /\ [][Next]_vars

\* Whoever is inside the logger goes on.
FairSpec == Spec /\ \A t \in Threads : WF_vars(Step(t))
-----------------------------------------------------------------------------
Files == [ents : SUBSET Nat, synced : SUBSET Nat, maxlsn : Nat]

\* Every variable has its type, and the LSNs their order.
TypeOK ==
  /\ lsn \in Nat /\ written \in 0 .. lsn /\ fsynced \in 0 .. written
  /\ inbuf \in SUBSET (1 .. lsn) /\ outbuf \in SUBSET (1 .. lsn)
  /\ inMax \in 0 .. lsn /\ outMax \in 0 .. lsn
  /\ inputLock \in Threads \cup {None} /\ available \in BOOLEAN /\ asleep \in SUBSET Threads
  /\ files \in Seq(Files) /\ files # <<>>
  /\ completed \in 0 .. lsn /\ ckBegin \in 0 .. lsn /\ began \in Seq(Nat)
  /\ pc \in [Threads -> {"idle", "space", "spaceIn", "spaceWrite", "spaceRotate", "spaceDone",
                         "fsync", "swap", "write", "rotate", "sync", "trim", "trimming"}]
  /\ call \in [Threads -> [kind : {"none", "plain", "begin", "end", "header", "flush"},
                            sync : BOOLEAN, want : Nat, seen : Nat, owed : Nat]]
  /\ {acked, trimmed, crashes} \subseteq Nat

Before(A, B) == \A a \in A, b \in B : a < b

\* However the threads take turns at the buffers and the files, the log is one sequence:
\* file after file, then the outbuf, then the inbuf, with no LSN missing; what is in the
\* outbuf is newer than what was written (the assertion of write_outbuf_to_logfile).
InOrder ==
  /\ InFiles \cup outbuf \cup inbuf = trimmed + 1 .. lsn
  /\ \A i, j \in DOMAIN files : i < j => Before(files[i].ents, files[j].ents)
  /\ Before(InFiles, outbuf) /\ Before(InFiles \cup outbuf, inbuf)
  /\ \A l \in InFiles : l <= written
  /\ outbuf # {} => outMax = Max(outbuf)

\* A thread that was told that its entry is synced can rely on it: the entry and all
\* entries before it, but for the ones that a checkpoint made superfluous, are on disk.
CommitDurable == \A l \in 1 .. acked : l <= trimmed \/ l \in Synced

\* Recovery gets through after a crash at any point: from the begin of the last
\* checkpoint whose end is in the log, or from the very first entry, no entry is missing.
RecoveryHasItsLog ==
  \A left \in Survivors :
    LET ends == {l \in left : began[l] # 0}
        from == IF ends = {} THEN 1 ELSE began[Max(ends)]
    IN  from .. Max({0} \cup left) \subseteq left

\* env->log_flush returns at once when it finds fsynced_lsn high enough: then all that was
\* logged before the call is on disk.
FlushDurable ==
  \A t \in Threads :
    pc[t] = "fsync" /\ call[t].kind = "flush" /\ fsynced >= call[t].want =>
      \A l \in 1 .. call[t].owed : l <= trimmed \/ l \in Synced

\* Whoever logs, commits or trims comes back.
EveryCallReturns == \A t \in Threads : pc[t] # "idle" ~> pc[t] = "idle"

(***************************************************************************)
(* Why they hold.  The files, the outbuf and the inbuf are consecutive     *)
(* stretches of the LSNs; the outbuf has entries only while the one thread *)
(* that has the output is about to write them; what is synced is a prefix  *)
(* of what is in the files; fsynced_lsn and the copy that a thread keeps   *)
(* of it are never ahead of that; and a file goes only when the end of a   *)
(* checkpoint that began after it is synced.                               *)
(***************************************************************************)
\* the last LSN that has left the inbuf
Front == IF outbuf = {} THEN written ELSE outMax

Segments ==
  /\ InFiles = trimmed + 1 .. written /\ outbuf = written + 1 .. Front /\ inbuf = Front + 1 .. lsn
  /\ trimmed <= written /\ written <= Front /\ Front <= lsn
  /\ inbuf # {} => inMax = lsn

FilesExact ==
  /\ \A i, j \in DOMAIN files : i < j => Before(files[i].ents, files[j].ents)
  /\ \A i \in DOMAIN files :
       /\ files[i].synced \subseteq files[i].ents
       /\ \A l \in files[i].ents, s \in files[i].synced : l <= s => l \in files[i].synced
       /\ i < Len(files) => files[i].synced = files[i].ents /\ \A l \in files[i].ents : l <= files[i].maxlsn

HasInput  == {"spaceWrite", "spaceRotate", "spaceDone"}
HasOutput == HasInput \cup {"spaceIn", "swap", "write", "rotate", "sync", "trimming"}

OneWriter ==
  /\ \A t \in Threads : pc[t] \in HasOutput => ~ available /\ \A u \in Threads : pc[u] \in HasOutput => u = t
  /\ \A t \in Threads : inputLock = t <=> pc[t] \in HasInput
  /\ outbuf # {} => \E t \in Threads : pc[t] \in {"spaceWrite", "write"}

Durable(l) == \A k \in 1 .. l : k <= trimmed \/ k \in Synced

Promises ==
  /\ acked <= fsynced /\ Durable(fsynced)
  /\ \A t \in Threads :
       /\ pc[t] \in HasOutput => call[t].seen <= written /\ Durable(call[t].seen)
       /\ pc[t] \in {"fsync", "swap"} => call[t].want <= lsn
       /\ pc[t] = "write" => call[t].want <= Front
       /\ pc[t] \in {"rotate", "sync"} => call[t].want <= written

Checkpoints ==
  /\ Len(began) = lsn /\ \A l \in 1 .. lsn : began[l] < l /\ (ckBegin # 0 => began[l] <= ckBegin)
  /\ \A k, l \in 1 .. lsn : k < l /\ began[k] # 0 /\ began[l] # 0 => began[k] <= began[l]
  /\ \A t \in Threads :
       /\ call[t].kind \in {"begin", "end"} \/ pc[t] \in {"trim", "trimming"} => t = Checkpointer
       /\ call[t].kind = "end" => ckBegin # 0
       /\ call[t].kind = "end" /\ pc[t] \in {"fsync", "swap", "write", "rotate", "sync"} =>
            call[t].want \in 1 .. lsn /\ began[call[t].want] = ckBegin
  /\ completed # 0 => \E e \in Synced : began[e] >= completed
  /\ trimmed # 0 => \E e \in Synced : began[e] > trimmed

LoggerInv == TypeOK /\ Segments /\ FilesExact /\ OneWriter /\ Promises /\ Checkpoints
=============================================================================
