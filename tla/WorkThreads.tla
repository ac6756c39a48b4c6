---------------------------- MODULE WorkThreads -----------------------------
(***************************************************************************)
(* The threads that share work: the kibbutz and the thread pool.  A step   *)
(* is what a thread does while it holds the mutex, between taking it and   *)
(* releasing it or waiting, or a piece of work.                            *)
(*                                                                         *)
(* util/kibbutz.cc: a list of work that a fixed number of workers share.   *)
(* The cachetable has three of them, for clients' work (background         *)
(* flushes), for writing pairs that are evicted and for checkpoints.  One  *)
(* thread creates the kibbutz, enqueues Items pieces of work and destroys  *)
(* it.  toku_cond_signal wakes one waiter, any one; a woken worker must    *)
(* take the mutex again, and others may come before it.                    *)
(*                                                                         *)
(* util/threadpool.cc and ft/serialize/workset.h, as                       *)
(* compress_all_sub_blocks, decompress_all_sub_blocks and                  *)
(* serialize_and_compress_in_parallel use them: a client puts the parts of *)
(* a node into a workset on its own stack, asks the pool for more threads  *)
(* without waiting for a free one, hands the workset to those it got,      *)
(* works on it too, and joins.                                             *)
(***************************************************************************)
EXTENDS Integers, Sequences, FiniteSets

-----------------------------------------------------------------------------
(* The kibbutz.                                                            *)

CONSTANTS
  Workers,  \* n_workers threads
  Items     \* the pieces of work, in the order they are enqueued

VARIABLE kib
\* todo: the list, tail (next to do) first; worker: where each worker is ("check": about
\* to take the mutex, "wait": in kwait, "busy": in item->f, "quit": gone); item: what a busy
\* one works on; begun: the items in the order they were begun; finished: those whose f
\* returned; next: the items enqueued so far; destroy: how far toku_kibbutz_destroy is.

toku_kibbutz_create ==
  kib = [todo |-> <<>>, please_shutdown |-> FALSE, worker |-> [w \in Workers |-> "check"],
         item |-> [w \in Workers |-> 0], begun |-> <<>>, finished |-> {}, next |-> 0,
         destroy |-> "no"]

\* What ksignal makes of the workers: one of those in kwait goes on, if there is one.
ksignal(worker) ==
  LET waiting == {w \in Workers : worker[w] = "wait"}
  IN IF waiting = {} THEN {worker} ELSE {[worker EXCEPT ![w] = "check"] : w \in waiting}

\* The mutant enqueues at the wrong end.
toku_kibbutz_enqMut ==
  /\ kib.destroy = "no" /\ kib.next < Len(Items)
  /\ \E worker \in ksignal(kib.worker) :
       kib' = [kib EXCEPT !.todo = <<Items[kib.next + 1]>> \o @,
                          !.next = @ + 1, !.worker = worker]
toku_kibbutz_enq ==
  /\ kib.destroy = "no" /\ kib.next < Len(Items)
  /\ \E worker \in ksignal(kib.worker) :
       kib' = [kib EXCEPT !.todo = Append(@, Items[kib.next + 1]),
                          !.next = @ + 1, !.worker = worker]

\* work_on_kibbutz with the mutex held: take the oldest item, quit, or wait.
take_item(w) ==
  /\ kib.worker[w] = "check" /\ kib.todo # <<>>
  /\ LET rest == Tail(kib.todo)
         busy == [kib.worker EXCEPT ![w] = "busy"]
     IN \E worker \in (IF rest = <<>> THEN {busy} ELSE ksignal(busy)) :
          kib' = [kib EXCEPT !.todo = rest, !.worker = worker,
                             !.item[w] = Head(kib.todo),
                             !.begun = Append(@, Head(kib.todo))]
\* The mutant's worker quits without waking the next.
quitMut(w) ==
  /\ kib.worker[w] = "check" /\ kib.todo = <<>> /\ kib.please_shutdown
  /\ kib' = [kib EXCEPT !.worker[w] = "quit"]
quit(w) ==
  /\ kib.worker[w] = "check" /\ kib.todo = <<>> /\ kib.please_shutdown
  /\ \E worker \in ksignal([kib.worker EXCEPT ![w] = "quit"]) :
       kib' = [kib EXCEPT !.worker = worker]
kwait(w) ==
  /\ kib.worker[w] = "check" /\ kib.todo = <<>> /\ ~kib.please_shutdown
  /\ kib' = [kib EXCEPT !.worker[w] = "wait"]
finish_item(w) ==
  /\ kib.worker[w] = "busy"
  /\ kib' = [kib EXCEPT !.worker[w] = "check", !.finished = @ \union {kib.item[w]},
                        !.item[w] = 0]
work_on_kibbutz(w) == take_item(w) \/ quit(w) \/ kwait(w) \/ finish_item(w)

\* The shutdown is asked for under the mutex, then the workers are joined.
toku_kibbutz_destroy ==
  \/ /\ kib.destroy = "no"
     /\ \E worker \in ksignal(kib.worker) :
          kib' = [kib EXCEPT !.please_shutdown = TRUE, !.destroy = "join", !.worker = worker]
  \/ /\ kib.destroy = "join" /\ \A w \in Workers : kib.worker[w] = "quit"
     /\ kib' = [kib EXCEPT !.destroy = "returned"]

KibbutzNext ==
  toku_kibbutz_enq \/ toku_kibbutz_destroy \/ \E w \in Workers : work_on_kibbutz(w)

-----------------------------------------------------------------------------
\* The work is begun in the order it was enqueued, which the flusher threads need to
\* avoid deadlocks, and none of it is begun twice.
WorkInOrder == kib.begun = SubSeq(Items, 1, Len(kib.begun))
\* toku_kibbutz_destroy returns, when all the work that was enqueued is done.
DestroyDone ==
  <>(kib.destroy = "returned" /\ kib.finished = {Items[i] : i \in 1 .. kib.next})

-----------------------------------------------------------------------------
(* The thread pool.                                                        *)

CONSTANTS
  Clients,      \* the threads that serialize or read a node, each once
  PoolThreads,  \* 1 .. n, names for the threads the pool may create
  max_threads,  \* what the pool was created with: the number of cores
  Parts         \* the number of parts of the node of a client

VARIABLE pool
\* free: the free threads, head first; cur: cur_threads; thread: where each of the pool's
\* threads is ("none": not created, "start": at the top of its loop, "wait": on its own
\* condition, "check": about to look at f and doexit, "get": in workset_get, "exit", "joined");
\* f: the client whose workset the thread was given; doexit; busy: the part it works on.
\* pc: where each client is; got: the threads it got; worklist, refs: its workset;
\* done: the parts that were worked on; T: threads it was given.

toku_thread_pool_create ==
  pool = [free |-> <<>>, cur |-> 0, thread |-> [t \in PoolThreads |-> "none"],
          f |-> [t \in PoolThreads |-> {}], doexit |-> {},
          busy |-> [t \in PoolThreads \union Clients |-> 0],
          pc |-> [c \in Clients |-> "idle"], got |-> [c \in Clients |-> <<>>],
          worklist |-> [c \in Clients |-> <<>>], refs |-> [c \in Clients |-> 0],
          done |-> [c \in Clients |-> {}], T |-> [c \in Clients |-> 0],
          destroy |-> "no"]

\* workset_init and workset_put_locked; a node of one part is worked on without a workset.
WantedThreads(c) == IF max_threads > Parts[c] THEN Parts[c] - 1 ELSE max_threads - 1
workset_put(c) ==
  /\ pool.pc[c] = "idle"
  /\ IF Parts[c] = 1
     THEN pool' = [pool EXCEPT !.pc[c] = "returned", !.done[c] = {1}]
     ELSE pool' = [pool EXCEPT !.worklist[c] = [i \in 1 .. Parts[c] |-> Parts[c] + 1 - i],
                               !.refs[c] = 1,
                               !.pc[c] = IF WantedThreads(c) = 0 THEN "run" ELSE "get"]

\* toku_cond_signal(&pool->wait_free): one of the clients that wait is woken.
signal_wait_free(p) ==
  LET waiting == {c \in Clients : p.pc[c] = "wait"}
  IN IF waiting = {} THEN {p} ELSE {[p EXCEPT !.pc[c] = "get"] : c \in waiting}
\* toku_thread_pool_add: what becomes of p.
toku_thread_pool_add(p) ==
  LET t == CHOOSE t \in PoolThreads :
             /\ p.thread[t] = "none"
             /\ \A u \in PoolThreads : u < t => p.thread[u] # "none"
  IN signal_wait_free([p EXCEPT !.thread[t] = "start", !.cur = @ + 1, !.free = <<t>> \o @])

\* toku_thread_pool_get_one, for toku_thread_pool_get: a free thread is taken.
take_thread(c) ==
  /\ pool.pc[c] = "get" /\ pool.free # <<>>
  /\ LET got == Append(pool.got[c], Head(pool.free))
     IN pool' = [pool EXCEPT !.free = Tail(@), !.got[c] = got,
                             !.pc[c] = IF Len(got) = WantedThreads(c) THEN "run" ELSE "get"]
\* Without a free thread the pool grows, if it may; the call gives up when there is still
\* none, and else waits, for the new thread to begin.
grow_and_wait(c) ==
  /\ pool.pc[c] = "get" /\ pool.free = <<>>
  /\ \E p \in (IF pool.cur < max_threads THEN toku_thread_pool_add(pool) ELSE {pool}) :
       pool' = [p EXCEPT !.pc[c] = IF p.free = <<>> THEN "run" ELSE "wait"]

\* toku_thread_run on each thread that was got; then workset_add_ref for all of them.
toku_thread_run(c) ==
  /\ pool.pc[c] = "run" /\ pool.got[c] # <<>>
  /\ LET t == Head(pool.got[c])
     IN pool' = [pool EXCEPT !.got[c] = Tail(@), !.f[t] = {c}, !.T[c] = @ + 1,
                             !.thread[t] = IF @ = "wait" THEN "check" ELSE @]
\* The mutant does not count the pool's threads.
workset_add_refMut(c) ==
  /\ pool.pc[c] = "run" /\ pool.got[c] = <<>>
  /\ pool' = [pool EXCEPT !.pc[c] = "work"]
workset_add_ref(c) ==
  /\ pool.pc[c] = "run" /\ pool.got[c] = <<>>
  /\ pool' = [pool EXCEPT !.refs[c] = @ + pool.T[c], !.pc[c] = "work"]

\* compress_worker, decompress_worker, serialize_and_compress_worker by thread x for client
\* c: a part from the workset, the work on it, until none is left.
workset_get(x, c) ==
  /\ pool.busy[x] = 0 /\ pool.worklist[c] # <<>>
  /\ pool' = [pool EXCEPT !.busy[x] = Head(pool.worklist[c]), !.worklist[c] = Tail(@)]
work(x, c) ==
  /\ pool.busy[x] # 0
  /\ pool' = [pool EXCEPT !.busy[x] = 0, !.done[c] = @ \union {pool.busy[x]}]
\* workset_release_ref wakes the join when no reference is left.
release_ref(p, c) ==
  [p EXCEPT !.refs[c] = @ - 1,
            !.pc[c] = IF p.refs[c] = 1 /\ @ = "joinwait" THEN "join" ELSE @]
client_works(c) ==
  /\ pool.pc[c] = "work"
  /\ \/ workset_get(c, c) \/ work(c, c)
     \/ /\ pool.busy[c] = 0 /\ pool.worklist[c] = <<>>
        /\ pool' = [release_ref(pool, c) EXCEPT !.pc[c] = "join"]
workset_join(c) ==
  /\ pool.pc[c] = "join"
  /\ pool' = [pool EXCEPT !.pc[c] = IF pool.refs[c] # 0 THEN "joinwait" ELSE "returned"]

\* toku_thread_run_internal: the top of the outer loop signals wait_free.
top(t) ==
  /\ pool.thread[t] = "start"
  /\ \E p \in signal_wait_free(pool) : pool' = [p EXCEPT !.thread[t] = "check"]
check(t) ==
  /\ pool.thread[t] = "check"
  /\ pool' = [pool EXCEPT !.thread[t] = IF pool.f[t] # {} THEN "get"
                                        ELSE IF t \in pool.doexit THEN "exit" ELSE "wait"]
thread_works(t) ==
  /\ pool.thread[t] = "get"
  /\ \E c \in pool.f[t] : workset_get(t, c) \/ work(t, c)
\* The worker lets go of the workset, the thread is free again, and says so at the top.
worked(t) ==
  /\ pool.thread[t] = "get" /\ pool.busy[t] = 0
  /\ \E c \in pool.f[t] :
       /\ pool.worklist[c] = <<>>
       /\ pool' = [release_ref(pool, c) EXCEPT !.thread[t] = "release"]
freed(t) ==
  /\ pool.thread[t] = "release"
  /\ pool' = [pool EXCEPT !.thread[t] = "start", !.f[t] = {}, !.free = <<t>> \o @]
toku_thread_run_internal(t) == top(t) \/ check(t) \/ thread_works(t) \/ worked(t) \/ freed(t)

\* The mutant asks the threads to exit without a signal to their conditions.
ask_exitMut ==
  /\ pool.destroy = "no" /\ \A c \in Clients : pool.pc[c] = "returned"
  /\ pool' = [pool EXCEPT !.destroy = "join",
                          !.doexit = {t \in PoolThreads : pool.thread[t] # "none"}]
\* The pool is destroyed when its clients are done: threads are asked to exit, and joined.
ask_exit ==
  /\ pool.destroy = "no" /\ \A c \in Clients : pool.pc[c] = "returned"
  /\ pool' = [pool EXCEPT !.destroy = "join",
                          !.doexit = {t \in PoolThreads : pool.thread[t] # "none"},
                          !.thread = [t \in PoolThreads |->
                                        IF @[t] = "wait" THEN "check" ELSE @[t]]]
toku_thread_destroy ==
  /\ pool.destroy = "join"
  /\ \E t \in PoolThreads :
       /\ pool.thread[t] = "exit"
       /\ pool' = [pool EXCEPT !.thread[t] = "joined", !.cur = @ - 1,
                               !.free = SelectSeq(@, LAMBDA u : u # t)]
toku_thread_pool_destroy ==
  \/ ask_exit
  \/ toku_thread_destroy
  \/ /\ pool.destroy = "join" /\ pool.cur = 0
     /\ pool' = [pool EXCEPT !.destroy = "returned"]

UsePool(c) ==
  \/ workset_put(c) \/ take_thread(c) \/ grow_and_wait(c) \/ toku_thread_run(c)
  \/ workset_add_ref(c) \/ client_works(c) \/ workset_join(c)
PoolNext ==
  \/ \E c \in Clients : UsePool(c)
  \/ \E t \in PoolThreads : toku_thread_run_internal(t)
  \/ toku_thread_pool_destroy

-----------------------------------------------------------------------------
\* When a client returns, and its workset with it, every part was worked on, once, and no
\* thread of the pool has the workset any more, though the references are only counted
\* after the threads were started.
WorksetJoined ==
  \A c \in Clients : pool.pc[c] = "returned" =>
    /\ pool.done[c] = 1 .. Parts[c] /\ pool.worklist[c] = <<>>
    /\ \A t \in PoolThreads : c \in pool.f[t] => pool.thread[t] = "release"
\* Every client and the destroy return, and no thread of the pool is left.
PoolServes == <>(pool.destroy = "returned" /\ pool.cur = 0)
=============================================================================
