------------------------------- MODULE Evictor -------------------------------
(***************************************************************************)
(* The evictor of the cachetable (ft/cachetable/cachetable.cc), its thread,*)
(* the writer threads that evict for it, the clients that sleep while the  *)
(* cache is too full, and the list of cachefiles, whose stale files are    *)
(* what the evictor takes first.  CacheTable has the pairs with their locks*)
(* and the checkpoint; here a pair is a size, and its lock is exclusive.   *)
(*                                                                         *)
(* size_current is changed with atomic adds, without a lock.  What a thread*)
(* does under ev_thread_lock is one step, except for the eviction thread,  *)
(* which reads size_current twice under it before it waits: it holds the   *)
(* lock when its pc is "exit".                                             *)
(***************************************************************************)
EXTENDS Integers, Sequences, SequencesExt, FiniteSets

CONSTANTS
  Users,             \* client threads
  Keys, Files,       \* the pairs, and the cachefiles, in the order of their fileids
  FileOf, Leaf,      \* the cachefile of a pair; the pairs that are leaves
  SizeLimit,         \* what the cachetable was created with, above 0
  CLOCK_SATURATION, CLOCK_INITIAL_COUNT,
  Estimates,         \* what pe_est_callback may say of a clean node above the leaves
  Workloads          \* records: pair (the pairs at first), ops (what each client does)

VARIABLES
  evops,         \* what each client does
  size_current, size_evicting, size_reserved,
  evthread,      \* [pc, running, early, examined, cur, est]
  pair,          \* each pair: st, size, part, dirty, count, owner, waiters
  clock,         \* the pairs of the table, from clock_head
  file,          \* each cachefile: st, accepting and num_jobs of its background jobs
  jobs,          \* the kibbutz's work
  user           \* each client: pc, ret, slept, at, delta, sleeper
evvars == <<evops, size_current, size_evicting, size_reserved, evthread, pair, clock, file,
            jobs, user>>
sizes == <<size_current, size_evicting, size_reserved>>

m_low_size_watermark == SizeLimit
m_low_size_hysteresis == (11 * SizeLimit) \div 10
m_high_size_hysteresis == (5 * SizeLimit) \div 4
m_high_size_watermark == (3 * SizeLimit) \div 2
unreservable_memory == SizeLimit \div 4

should_client_thread_sleep == size_current > m_high_size_watermark
should_sleeping_clients_wakeup == size_current <= m_high_size_hysteresis
should_client_wake_eviction_thread ==
  ~evthread.running /\ size_current - size_evicting > m_low_size_hysteresis
eviction_needed == size_current - size_evicting > m_low_size_watermark

\* ev_thread_lock can be taken.
LockFree == evthread.pc # "exit"
num_sleepers == Cardinality({u \in Users : user[u].sleeper})
\* toku_cond_signal(&m_ev_thread_cond): the thread goes on if it waits.
signalled(t) == IF t.pc = "wait" THEN [t EXCEPT !.pc = "start"] ELSE t
\* toku_cond_broadcast(&m_flow_control_cond).
broadcast ==
  user' = [u \in Users |-> IF user[u].pc = "asleep" THEN [user[u] EXCEPT !.pc = "woken"]
                           ELSE user[u]]

\* The lock of a pair: value_rwlock.users(), taking it in turn, and letting it go.
in_use(p) == p.owner # "none" \/ p.waiters # <<>>
Lock(ps, k, u) ==
  IF in_use(ps[k]) THEN [ps EXCEPT ![k].waiters = Append(@, u)]
  ELSE [ps EXCEPT ![k].owner = u]
Unlock(ps, k) ==
  IF ps[k].waiters = <<>> THEN [ps EXCEPT ![k].owner = "none"]
  ELSE [ps EXCEPT ![k].owner = Head(ps[k].waiters), ![k].waiters = Tail(@)]
Absent == [st |-> "out", size |-> 0, part |-> FALSE, dirty |-> FALSE, count |-> 0,
           owner |-> "none", waiters |-> <<>>]

cf_pairs(f) == {k \in Keys : FileOf[k] = f /\ pair[k].st \in {"in", "stale"}}
\* m_stale_fileid, whose first file is the one with the least fileid.
stale_files == {f \in DOMAIN Files : file[Files[f]].st = "stale"}

init ==
  \E w \in Workloads :
    /\ evops = w.ops
    /\ pair = w.pair
    /\ clock = w.clock
    /\ size_current = MapThenSumSet(LAMBDA k : w.pair[k].size, Keys)
    /\ size_evicting = 0 /\ size_reserved = unreservable_memory
    /\ evthread = [pc |-> "start", running |-> FALSE, early |-> FALSE, examined |-> 0,
                   cur |-> "none", est |-> 0]
    /\ file = [f \in {Files[i] : i \in DOMAIN Files} |->
                 [st |-> "open", accepting |-> TRUE, num_jobs |-> 0]]
    /\ jobs = <<>>
    /\ user = [u \in Users |-> [pc |-> "idle", ret |-> "idle", slept |-> FALSE, at |-> 1,
                                delta |-> 0, sleeper |-> FALSE]]

-----------------------------------------------------------------------------
(* The eviction thread.                                                    *)

\* bjm_add_background_job has succeeded, bjm_remove_background_job.
add_job(f) == file' = [file EXCEPT ![f].num_jobs = @ + 1]
remove_job(f) == file' = [file EXCEPT ![f].num_jobs = @ - 1]

\* m_period_in_seconds have passed.
period_passes ==
  /\ evthread.pc = "wait"
  /\ evthread' = [evthread EXCEPT !.pc = "start"]
  /\ UNCHANGED <<evops, sizes, pair, clock, file, jobs, user>>

\* run_eviction_thread has the lock and runs, or run_eviction has it back: the test of the
\* loop.
run_eviction ==
  /\ evthread.pc \in {"start", "loop"}
  /\ evthread' = [evthread EXCEPT
       !.pc = IF eviction_needed THEN "stale" ELSE "exit", !.running = TRUE,
       !.examined = IF evthread.pc = "start" THEN 0 ELSE @]
  /\ IF eviction_needed /\ num_sleepers > 0 /\ should_sleeping_clients_wakeup
     THEN broadcast ELSE UNCHANGED user
  /\ UNCHANGED <<evops, sizes, pair, clock, file, jobs>>
\* The mutant wakes clients at the exit only when nothing can be evicted.
exit_evictionMut ==
  /\ evthread.pc = "exit"
  /\ IF num_sleepers > 0 /\ evthread.early THEN broadcast ELSE UNCHANGED user
  /\ evthread' = [evthread EXCEPT !.pc = "wait", !.running = FALSE, !.early = FALSE,
                                  !.examined = 0, !.cur = "none", !.est = 0]
  /\ UNCHANGED <<evops, sizes, pair, clock, file, jobs>>
exit_eviction ==
  /\ evthread.pc = "exit"
  /\ IF num_sleepers > 0 /\ (evthread.early \/ should_sleeping_clients_wakeup)
     THEN broadcast ELSE UNCHANGED user
  /\ evthread' = [evthread EXCEPT !.pc = "wait", !.running = FALSE, !.early = FALSE,
                                  !.examined = 0, !.cur = "none", !.est = 0]
  /\ UNCHANGED <<evops, sizes, pair, clock, file, jobs>>
\* cachefile_list::evict_some_stale_pair: a pair of the first stale cachefile goes, and the
\* cachefile with its last pair; the size is taken off after the list's lock is let go.
evict_some_stale_pair ==
  /\ evthread.pc = "stale" /\ stale_files # {}
  /\ \E f \in {Files[Min(stale_files)]} : \E k \in cf_pairs(f) :
       /\ pair' = [pair EXCEPT ![k].st = "freeing"]
       /\ file' = [file EXCEPT ![f].st = IF cf_pairs(f) = {k} THEN "gone" ELSE "stale"]
       /\ evthread' = [evthread EXCEPT !.pc = "free", !.cur = k]
  /\ UNCHANGED <<evops, sizes, clock, jobs, user>>
remove_pair_attr ==
  /\ evthread.pc = "free"
  /\ size_current' = size_current - pair[evthread.cur].size
  /\ pair' = [pair EXCEPT ![evthread.cur] = Absent]
  /\ evthread' = [evthread EXCEPT !.pc = "loop", !.cur = "none"]
  /\ UNCHANGED <<evops, size_evicting, size_reserved, clock, file, jobs, user>>

\* Without stale files the clock decides.  There may be nothing in it, or everything in
\* it was looked at in vain.
nothing_to_evict ==
  /\ evthread.pc = "stale" /\ stale_files = {}
  /\ clock = <<>> \/ evthread.examined > Len(clock)
  /\ evthread' = [evthread EXCEPT !.pc = "exit", !.early = TRUE]
  /\ UNCHANGED <<evops, sizes, pair, clock, file, jobs, user>>

\* The head of the clock moves on, if it still is the pair that was looked at.
advanced(cl, k) == IF cl # <<>> /\ Head(cl) = k THEN Append(Tail(cl), k) ELSE cl

\* run_eviction_on_pair for a pair that is in use, or whose cachefile is closing.
pair_in_use(k) == ~file[FileOf[k]].accepting \/ in_use(pair[k])
skip_pair ==
  /\ evthread.pc = "stale" /\ stale_files = {}
  /\ clock # <<>> /\ evthread.examined <= Len(clock)
  /\ pair_in_use(Head(clock))
  /\ evthread' = [evthread EXCEPT !.pc = "loop", !.examined = @ + 1]
  /\ clock' = advanced(clock, Head(clock))
  /\ UNCHANGED <<evops, sizes, pair, file, jobs, user>>

\* A pair nobody uses is locked, and its count falls, for a small one by chance; one whose
\* count is 0 goes as a whole.  A dirty node, or a leaf, is partially evicted at once; of
\* another node first the estimate is asked.
run_eviction_on_pair ==
  /\ evthread.pc = "stale" /\ stale_files = {}
  /\ clock # <<>> /\ evthread.examined <= Len(clock)
  /\ \E k \in {Head(clock)} :
       /\ ~pair_in_use(k)
       /\ add_job(FileOf[k])
       /\ \/ \* partial eviction
             /\ pair[k].count > 0
             /\ \E less \in IF pair[k].size * Len(clock) >= size_current THEN {1} ELSE {0, 1} :
                \E est \in IF pair[k].dirty \/ k \in Leaf THEN {0} ELSE Estimates :
                  /\ pair' = [pair EXCEPT ![k].count = @ - less, ![k].owner = "evictor"]
                  /\ evthread' = [evthread EXCEPT !.examined = 0, !.cur = k, !.est = est,
                                    !.pc = IF est > 0 THEN "enqueue_partial"
                                           ELSE IF pair[k].dirty \/ k \in Leaf THEN "partial"
                                           ELSE "unlock"]
          \/ \* try_evict_pair
             /\ pair[k].count = 0
             /\ pair' = [pair EXCEPT ![k].owner = "evictor"]
             /\ evthread' = [evthread EXCEPT !.examined = 0, !.cur = k, !.est = pair[k].size,
                               !.pc = IF pair[k].dirty THEN "enqueue" ELSE "evict"]
  /\ UNCHANGED <<evops, sizes, clock, jobs, user>>

\* The pair's data that pe_callback frees, from a clean node: its size falls by one, while
\* there is more to it.
Evictable(k) == ~pair[k].dirty /\ pair[k].size > 1
\* do_partial_eviction in the eviction thread, for a leaf: the new size counts, and the
\* pair is unlocked.
do_partial_eviction ==
  /\ evthread.pc = "partial"
  /\ \E k \in {evthread.cur} :
       /\ \E less \in (IF Evictable(k) THEN {0, 1} ELSE {0}) :
            /\ pair' = Unlock([pair EXCEPT ![k].size = @ - less,
                                           ![k].part = @ \/ less = 1], k)
            /\ size_current' = size_current - less
       /\ remove_job(FileOf[k])
       /\ clock' = advanced(clock, k)
  /\ evthread' = [evthread EXCEPT !.pc = "loop", !.cur = "none", !.est = 0]
  /\ UNCHANGED <<evops, size_evicting, size_reserved, jobs, user>>
\* An expensive partial eviction that would free nothing is left alone.
unlock_pair ==
  /\ evthread.pc = "unlock"
  /\ \E k \in {evthread.cur} :
       /\ pair' = Unlock(pair, k) /\ remove_job(FileOf[k]) /\ clock' = advanced(clock, k)
  /\ evthread' = [evthread EXCEPT !.pc = "loop", !.cur = "none", !.est = 0]
  /\ UNCHANGED <<evops, sizes, jobs, user>>
\* evict_pair for a clean pair: it is unlocked, and removed if nobody waits for it.
\* The mutant counts the pair as gone though somebody waits for it.
EvictedMut(k) ==
  /\ size_current' = size_current - pair[k].size
  /\ IF pair[k].waiters = <<>>
     THEN pair' = [pair EXCEPT ![k] = Absent] /\ clock' = SelectSeq(clock, LAMBDA j : j # k)
     ELSE pair' = Unlock(pair, k) /\ UNCHANGED clock
Evicted(k) ==
  IF pair[k].waiters = <<>>
  THEN /\ pair' = [pair EXCEPT ![k] = Absent]
       /\ size_current' = size_current - pair[k].size
       /\ clock' = SelectSeq(clock, LAMBDA j : j # k)
  ELSE /\ pair' = Unlock(pair, k)
       /\ UNCHANGED size_current
       /\ clock' = IF evthread.cur = k /\ evthread.pc = "evict" THEN advanced(clock, k)
                   ELSE clock
evict_pair ==
  /\ evthread.pc = "evict"
  /\ Evicted(evthread.cur) /\ remove_job(FileOf[evthread.cur])
  /\ evthread' = [evthread EXCEPT !.pc = "loop", !.cur = "none", !.est = 0]
  /\ UNCHANGED <<evops, size_evicting, size_reserved, jobs, user>>
\* Expensive evictions are put on the kibbutz, their estimate counted under the lock.
toku_kibbutz_enq ==
  /\ evthread.pc \in {"enqueue", "enqueue_partial"}
  /\ size_evicting' = size_evicting + evthread.est
  /\ jobs' = Append(jobs, [k |-> evthread.cur, est |-> evthread.est,
                           step |-> IF evthread.pc = "enqueue" THEN "write" ELSE "free"])
  /\ clock' = advanced(clock, evthread.cur)
  /\ evthread' = [evthread EXCEPT !.pc = "loop", !.cur = "none", !.est = 0]
  /\ UNCHANGED <<evops, size_current, size_reserved, pair, file, user>>

-----------------------------------------------------------------------------
(* The writer threads: cachetable_evicter and cachetable_partial_eviction. *)

without(s, i) == SubSeq(s, 1, i - 1) \o SubSeq(s, i + 1, Len(s))

decrease_size_evicting(est) ==
  LET buffer == m_high_size_hysteresis - m_low_size_watermark
  IN /\ LockFree
     /\ size_evicting' = size_evicting - est
     /\ evthread' = IF /\ num_sleepers > 0 /\ ~evthread.running
                       /\ size_evicting > buffer /\ size_evicting - est <= buffer
                    THEN signalled(evthread) ELSE evthread
\* evict_pair in a writer thread writes the pair and takes off the estimate, ...
cachetable_evicter(i) ==
  /\ jobs[i].step = "write"
  /\ decrease_size_evicting(jobs[i].est)
  /\ pair' = [pair EXCEPT ![jobs[i].k].dirty = FALSE]
  /\ jobs' = [jobs EXCEPT ![i].step = "remove"]
  /\ UNCHANGED <<evops, size_current, size_reserved, clock, file, user>>
\* ... and then removes it, if nobody waits for it.
remove_evicted(i) ==
  /\ jobs[i].step = "remove"
  /\ Evicted(jobs[i].k) /\ remove_job(FileOf[jobs[i].k])
  /\ jobs' = without(jobs, i)
  /\ UNCHANGED <<evops, size_evicting, size_reserved, evthread, user>>
\* do_partial_eviction in a writer thread frees first, ...
cachetable_partial_eviction(i) ==
  /\ jobs[i].step = "free"
  /\ \E k \in {jobs[i].k} : \E less \in (IF Evictable(k) THEN {0, 1} ELSE {0}) :
       /\ pair' = Unlock([pair EXCEPT ![k].size = @ - less, ![k].part = @ \/ less = 1], k)
       /\ size_current' = size_current - less
  /\ jobs' = [jobs EXCEPT ![i].step = "freed"]
  /\ UNCHANGED <<evops, size_evicting, size_reserved, evthread, clock, file, user>>
\* ... and takes off the estimate when the pair is unlocked.
partially_evicted(i) ==
  /\ jobs[i].step = "freed"
  /\ decrease_size_evicting(jobs[i].est)
  /\ remove_job(FileOf[jobs[i].k])
  /\ jobs' = without(jobs, i)
  /\ UNCHANGED <<evops, size_current, size_reserved, pair, clock, user>>

-----------------------------------------------------------------------------
(* The clients.  An op is [op, k, f, size]: "get" pins pair k and unpins   *)
(* it, dirty with a new size if size is not 0; "close" and "unlink" close  *)
(* cachefile f; "reserve" and "release" are the loader's.                  *)

Op(u) == evops[u][user[u].at]
Busy(u) == user[u].at <= Len(evops[u])
Goto(u, pc) == user' = [user EXCEPT ![u].pc = pc]
\* The op is over.
Done(u) == user' = [user EXCEPT ![u].pc = "idle", ![u].slept = FALSE, ![u].delta = 0,
                                ![u].ret = "idle",
                                ![u].at = @ + 1]
\* To wait_for_cache_pressure_to_subside, and from there to ret.
Sleep(u, ret) == user' = [user EXCEPT ![u].pc = "sleep", ![u].ret = ret]

\* A closed cachefile is opened first (toku_cachetable_openfd_with_filenum): the pairs of a
\* stale one go back into the table, at the end of the clock.
openfd_with_filenum(u) ==
  /\ user[u].pc = "idle" /\ Busy(u) /\ Op(u).op = "get"
  /\ \E f \in {FileOf[Op(u).k]} :
       /\ file[f].st \in {"stale", "gone"}
       /\ file' = [file EXCEPT ![f] = [st |-> "open", accepting |-> TRUE, num_jobs |-> 0]]
       /\ pair' = [k \in Keys |-> IF FileOf[k] = f /\ pair[k].st = "stale"
                                  THEN [pair[k] EXCEPT !.st = "in",
                                                          !.count = CLOCK_INITIAL_COUNT]
                                  ELSE pair[k]]
       /\ \E s \in SetToSeqs({k \in Keys : FileOf[k] = f /\ pair[k].st = "stale"}) :
            clock' = clock \o s
  /\ UNCHANGED <<evops, sizes, evthread, jobs, user>>

\* toku_cachetable_get_and_pin: a pair of the table is locked in turn, ...
touched(p) == [p EXCEPT !.count = IF @ < CLOCK_SATURATION THEN @ + 1 ELSE CLOCK_SATURATION]
get_and_pin_hit(u) ==
  /\ \/ user[u].pc = "idle" /\ Busy(u) /\ Op(u).op = "get"
     \/ user[u].pc \in {"find", "insert"}
  /\ \E k \in {Op(u).k} :
       /\ file[FileOf[k]].st = "open" /\ pair[k].st = "in"
       /\ pair' = Lock([pair EXCEPT ![k] = touched(@)], k, u)
  /\ Goto(u, "locking")
  /\ UNCHANGED <<evops, sizes, evthread, clock, file, jobs>>
\* ... for one that is not there the client may have to sleep, once, ...
get_and_pin_miss(u) ==
  /\ \/ user[u].pc = "idle" /\ Busy(u) /\ Op(u).op = "get"
     \/ user[u].pc = "find"
  /\ \E k \in {Op(u).k} : file[FileOf[k]].st = "open" /\ pair[k].st # "in"
  /\ IF should_client_thread_sleep /\ ~user[u].slept THEN Sleep(u, "find")
     ELSE user' = [user EXCEPT ![u].pc = "signal", ![u].ret = "insert"]
  /\ UNCHANGED <<evops, sizes, evthread, pair, clock, file, jobs>>
\* ... and wakes the eviction thread if it seems to be needed.
signal_eviction_thread(u) ==
  /\ user[u].pc = "signal"
  /\ IF should_client_wake_eviction_thread
     THEN LockFree /\ evthread' = signalled(evthread)
     ELSE UNCHANGED evthread
  /\ IF user[u].ret = "idle" THEN Done(u) ELSE user' = [user EXCEPT ![u].pc = user[u].ret, ![u].ret = "idle"]
  /\ UNCHANGED <<evops, sizes, pair, clock, file, jobs>>
\* cachetable_insert_at and cachetable_fetch_pair: it is read, as it was written, size 2.
FetchedSize == 2
cachetable_fetch_pair(u) ==
  /\ user[u].pc = "insert" /\ pair[Op(u).k].st = "out"
  /\ pair' = [pair EXCEPT ![Op(u).k] =
                [Absent EXCEPT !.st = "in", !.size = FetchedSize, !.owner = u,
                               !.count = CLOCK_INITIAL_COUNT]]
  /\ clock' = Append(clock, Op(u).k)
  /\ size_current' = size_current + FetchedSize
  /\ Goto(u, "pinned")
  /\ UNCHANGED <<evops, size_evicting, size_reserved, evthread, file, jobs>>

\* try_pin_pair with the lock: a pair with a part missing needs a partial fetch, before
\* which the client may have to sleep, without the lock.
HasLock(u) == pair[Op(u).k].owner = u
\* The mutant's client does without the partial fetch after it slept.
try_pin_pairMut(u) ==
  /\ user[u].pc = "locking" /\ HasLock(u)
  /\ \E k \in {Op(u).k} :
       IF ~pair[k].part \/ user[u].slept THEN Goto(u, "pinned") /\ UNCHANGED pair
       ELSE IF should_client_thread_sleep
       THEN Sleep(u, "find") /\ pair' = Unlock(pair, k)
       ELSE /\ user' = [user EXCEPT ![u].pc = "signal", ![u].ret = "expensive"]
            /\ UNCHANGED pair
  /\ UNCHANGED <<evops, sizes, evthread, clock, file, jobs>>
try_pin_pair(u) ==
  /\ user[u].pc = "locking" /\ HasLock(u)
  /\ \E k \in {Op(u).k} :
       IF ~pair[k].part THEN Goto(u, "pinned") /\ UNCHANGED pair
       ELSE IF should_client_thread_sleep /\ ~user[u].slept
       THEN Sleep(u, "find") /\ pair' = Unlock(pair, k)
       ELSE /\ user' = [user EXCEPT ![u].pc = "signal", ![u].ret = "expensive"]
            /\ UNCHANGED pair
  /\ UNCHANGED <<evops, sizes, evthread, clock, file, jobs>>
\* The cheap lock is given up for an expensive one, ...
relock(u, from, to) ==
  /\ user[u].pc = from /\ HasLock(u)
  /\ pair' = IF pair[Op(u).k].waiters = <<>> THEN pair
             ELSE Lock(Unlock(pair, Op(u).k), Op(u).k, u)
  /\ Goto(u, to)
  /\ UNCHANGED <<evops, sizes, evthread, clock, file, jobs>>
expensive_lock(u) == relock(u, "expensive", "fetch")
\* ... under which what is missing is read, ...
do_partial_fetch(u) ==
  /\ user[u].pc = "fetch" /\ HasLock(u)
  /\ IF pair[Op(u).k].part
     THEN /\ pair' = [pair EXCEPT ![Op(u).k].part = FALSE, ![Op(u).k].size = @ + 1]
          /\ size_current' = size_current + 1
     ELSE UNCHANGED <<pair, size_current>>
  /\ Goto(u, "fetched")
  /\ UNCHANGED <<evops, size_evicting, size_reserved, evthread, clock, file, jobs>>
\* ... and for the cheap one again.
cheap_lock(u) == relock(u, "fetched", "recheck")
\* assert(!pf_required)
pf_done(u) ==
  /\ user[u].pc = "recheck" /\ HasLock(u)
  /\ Goto(u, "pinned")
  /\ UNCHANGED <<evops, sizes, evthread, pair, clock, file, jobs>>

\* cachetable_unpin_internal: the new attributes are the pair's before size_current knows.
unpin_internal(u) ==
  /\ user[u].pc = "pinned" /\ HasLock(u)
  /\ \E k \in {Op(u).k} :
       /\ pair' = Unlock(IF Op(u).size = 0 THEN pair
                         ELSE [pair EXCEPT ![k].dirty = TRUE, ![k].size = Op(u).size], k)
       /\ IF Op(u).size = 0 THEN Done(u)
          ELSE user' = [user EXCEPT ![u].pc = "attr", ![u].delta = Op(u).size - pair[k].size]
  /\ UNCHANGED <<evops, sizes, evthread, clock, file, jobs>>
change_pair_attr(u) ==
  /\ user[u].pc = "attr"
  /\ size_current' = size_current + user[u].delta
  /\ IF user[u].delta <= 0 THEN Done(u)
     ELSE user' = [user EXCEPT ![u].delta = 0,
            ![u].pc = IF size_current' > m_high_size_watermark THEN "sleep" ELSE "signal",
            ![u].ret = IF size_current' > m_high_size_watermark THEN "signal" ELSE "idle"]
  /\ UNCHANGED <<evops, size_evicting, size_reserved, evthread, pair, clock, file, jobs>>

\* wait_for_cache_pressure_to_subside: one wait on the condition, not in a loop.
wait_for_cache_pressure_to_subside(u) ==
  /\ user[u].pc = "sleep" /\ LockFree
  /\ user' = [user EXCEPT ![u].pc = "asleep", ![u].sleeper = TRUE]
  /\ evthread' = signalled(evthread)
  /\ UNCHANGED <<evops, sizes, pair, clock, file, jobs>>
woken(u) ==
  /\ user[u].pc = "woken" /\ LockFree
  /\ user' = [user EXCEPT ![u].pc = user[u].ret, ![u].sleeper = FALSE, ![u].slept = TRUE,
                          ![u].ret = "idle"]
  /\ UNCHANGED <<evops, sizes, evthread, pair, clock, file, jobs>>

\* toku_cachetable_reserve_memory, of half of what may be reserved, and its release.
reserved_memory == (m_low_size_watermark - unreservable_memory) \div 2
reserve_memory(u) ==
  /\ user[u].pc = "idle" /\ Busy(u) /\ Op(u).op = "reserve" /\ LockFree
  /\ size_reserved' = size_reserved + reserved_memory
  /\ size_current' = size_current + reserved_memory
  /\ evthread' = signalled(evthread)
  /\ Goto(u, "reserved")
  /\ UNCHANGED <<evops, size_evicting, pair, clock, file, jobs>>
reserved(u) ==
  /\ user[u].pc = "reserved"
  /\ IF should_client_thread_sleep THEN Sleep(u, "done") ELSE Done(u)
  /\ UNCHANGED <<evops, sizes, evthread, pair, clock, file, jobs>>
done_waiting(u) ==
  /\ user[u].pc = "done" /\ Done(u)
  /\ UNCHANGED <<evops, sizes, evthread, pair, clock, file, jobs>>
release_reserved_memory(u) ==
  \/ /\ user[u].pc = "idle" /\ Busy(u) /\ Op(u).op = "release"
     /\ size_current' = size_current - reserved_memory
     /\ Goto(u, "release")
     /\ UNCHANGED <<evops, size_evicting, size_reserved, evthread, pair, clock, file, jobs>>
  \/ /\ user[u].pc = "release" /\ LockFree
     /\ size_reserved' = size_reserved - reserved_memory
     /\ evthread' = IF num_sleepers > 0 THEN signalled(evthread) ELSE evthread
     /\ Done(u)
     /\ UNCHANGED <<evops, size_current, size_evicting, pair, clock, file, jobs>>

\* toku_cachefile_close, which nobody calls while others work in the file.  No background
\* job is accepted any more, and those that run are waited for, ...
InFile(v, f) == user[v].pc # "idle" /\ Op(v).op = "get" /\ FileOf[Op(v).k] = f
bjm_wait_for_jobs_to_finish(u) ==
  /\ user[u].pc = "idle" /\ Busy(u) /\ Op(u).op \in {"close", "unlink"}
  /\ \E f \in {Op(u).f} :
       /\ file[f].st = "open" /\ \A v \in Users : ~InFile(v, f)
       /\ file' = [file EXCEPT ![f].st = "closing", ![f].accepting = FALSE]
  /\ Goto(u, "close")
  /\ UNCHANGED <<evops, sizes, evthread, pair, clock, jobs>>
\* The mutant closes a file without waiting for the jobs on its pairs.
cachetable_flush_cachefileMut(u) ==
  /\ user[u].pc = "close"
  /\ \E f \in {Op(u).f} :
       /\ clock' = SelectSeq(clock, LAMBDA k : FileOf[k] # f)
       /\ pair' = [k \in Keys |-> IF k \in cf_pairs(f)
                                  THEN [pair[k] EXCEPT !.dirty = FALSE, !.st = "stale"]
                                  ELSE pair[k]]
  /\ Goto(u, "closed")
  /\ UNCHANGED <<evops, sizes, evthread, file, jobs>>
\* ... the pairs are written and leave the table, for good if the file is unlinked, ...
cachetable_flush_cachefile(u) ==
  /\ user[u].pc = "close"
  /\ \E f \in {Op(u).f} :
       /\ file[f].num_jobs = 0
       /\ clock' = SelectSeq(clock, LAMBDA k : FileOf[k] # f)
       /\ IF Op(u).op = "unlink"
          THEN /\ size_current' = size_current -
                    MapThenSumSet(LAMBDA k : pair[k].size, cf_pairs(f))
               /\ pair' = [k \in Keys |-> IF k \in cf_pairs(f) THEN Absent ELSE pair[k]]
          ELSE /\ pair' = [k \in Keys |-> IF k \in cf_pairs(f)
                                          THEN [pair[k] EXCEPT !.dirty = FALSE, !.st = "stale"]
                                          ELSE pair[k]]
               /\ UNCHANGED size_current
  /\ Goto(u, "closed")
  /\ UNCHANGED <<evops, size_evicting, size_reserved, evthread, file, jobs>>
\* ... and the file is kept in the list of the stale ones if it has pairs left.
add_stale_cf(u) ==
  /\ user[u].pc = "closed"
  /\ file' = [file EXCEPT ![Op(u).f].st = IF cf_pairs(Op(u).f) = {} THEN "gone" ELSE "stale"]
  /\ Done(u)
  /\ UNCHANGED <<evops, sizes, evthread, pair, clock, jobs>>
-----------------------------------------------------------------------------
EvictionThread ==
  \/ run_eviction \/ exit_eviction \/ evict_some_stale_pair
  \/ remove_pair_attr \/ nothing_to_evict \/ skip_pair \/ run_eviction_on_pair
  \/ do_partial_eviction \/ unlock_pair \/ evict_pair \/ toku_kibbutz_enq
Writer(i) ==
  \/ cachetable_evicter(i) \/ remove_evicted(i)
  \/ cachetable_partial_eviction(i) \/ partially_evicted(i)
Client(u) ==
  \/ openfd_with_filenum(u) \/ get_and_pin_hit(u) \/ get_and_pin_miss(u)
  \/ signal_eviction_thread(u) \/ cachetable_fetch_pair(u) \/ try_pin_pair(u)
  \/ expensive_lock(u) \/ do_partial_fetch(u) \/ cheap_lock(u) \/ pf_done(u)
  \/ unpin_internal(u) \/ change_pair_attr(u)
  \/ wait_for_cache_pressure_to_subside(u) \/ woken(u)
  \/ reserve_memory(u) \/ reserved(u) \/ done_waiting(u) \/ release_reserved_memory(u)
  \/ bjm_wait_for_jobs_to_finish(u) \/ cachetable_flush_cachefile(u) \/ add_stale_cf(u)
EvictorNext ==
  \/ EvictionThread \/ period_passes
  \/ \E i \in DOMAIN jobs : Writer(i)
  \/ \E u \in Users : Client(u)

-----------------------------------------------------------------------------
\* size_current is the sizes of the pairs in memory, of the table and of the stale files,
\* and what is reserved, but for what threads have not yet added or taken off; and
\* size_evicting is what the writers still have to take off.
SizesExact ==
  /\ size_current =
       MapThenSumSet(LAMBDA k : pair[k].size, Keys) + size_reserved - unreservable_memory
       - MapThenSumSet(LAMBDA u : user[u].delta +
           (IF user[u].pc = "release" THEN reserved_memory ELSE 0), Users)
  /\ size_evicting =
       MapThenSumSet(LAMBDA i : IF jobs[i].step \in {"write", "free", "freed"}
                                THEN jobs[i].est ELSE 0, DOMAIN jobs)
\* A client has the whole pair when it is pinned, though its lock was let go and taken
\* again after the missing part was read: "somehow ensure that a partial eviction cannot
\* happen between these two calls", says a comment of try_pin_pair.
PinnedWhole == \A u \in Users : user[u].pc \in {"recheck", "pinned"} /\ HasLock(u) =>
                                  ~pair[Op(u).k].part
\* When a cachefile's pairs are flushed for a close, none is locked or waited for, and a
\* stale cachefile always has a pair that is not in the table.
CloseSafe ==
  /\ \A u \in Users : user[u].pc \in {"closed"} =>
       \A k \in Keys : FileOf[k] = Op(u).f => ~in_use(pair[k])
  /\ \A f \in DOMAIN file : file[f].st = "stale" => cf_pairs(f) # {}
  /\ \A k \in Keys : pair[k].st = "in" <=> \E i \in DOMAIN clock : clock[i] = k
\* A client that sleeps because the cache is too full is woken.
Woken == \A u \in Users : (user[u].pc = "asleep") ~> (user[u].pc # "asleep")
=============================================================================
