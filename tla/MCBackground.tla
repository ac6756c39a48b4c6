---------------------------- MODULE MCBackground ----------------------------
(***************************************************************************)
(* The background threads for TLC, one kind at a time: which picks the one *)
(* whose steps a behaviour consists of, the others stay as they begin.     *)
(***************************************************************************)
EXTENDS Integers, Sequences

CONSTANTS KibbutzWorkers, PoolClients, PoolIds, Cores, Limit

VARIABLES which, kib, pool, cron, evops, size_current, size_evicting, size_reserved, evthread,
          pair, clock, file, jobs, user
evictorvars == <<evops, size_current, size_evicting, size_reserved, evthread, pair, clock,
                 file, jobs, user>>
vars == <<which, kib, pool, cron, evictorvars>>

\* Nodes with three parts.
NodeParts == [c \in PoolClients |-> 3]

\* Two cachefiles of two pairs and one; k1 is a leaf.
PairKeys == {"k1", "k2", "k3"}
CacheFiles == <<"f", "g">>
KeyFile == [k \in PairKeys |-> IF k \in {"k1", "k2"} THEN "f" ELSE "g"]
In(size, dirty, count) ==
  [st |-> "in", size |-> size, part |-> FALSE, dirty |-> dirty, count |-> count,
   owner |-> "none", waiters |-> <<>>]
Out == [st |-> "out", size |-> 0, part |-> FALSE, dirty |-> FALSE, count |-> 0,
        owner |-> "none", waiters |-> <<>>]
Get(k, size) == [op |-> "get", k |-> k, size |-> size]
CloseFile(f) == [op |-> "close", f |-> f]
Unlink(f) == [op |-> "unlink", f |-> f]
Reserve == [op |-> "reserve"]
Release == [op |-> "release"]
\* Liveness is checked of the first of these workloads.
\* The cache at first: two dirty pairs, or two clean ones.
DirtyCache == [pair |-> [k \in PairKeys |-> IF k = "k3" THEN Out ELSE In(3, TRUE, 0)],
               clock |-> <<"k1", "k2">>]
CleanCache == [pair |-> [k \in PairKeys |-> IF k = "k3" THEN Out ELSE In(3, FALSE, 1)],
               clock |-> <<"k2", "k1">>]
With(c, a, b) == [pair |-> c.pair, clock |-> c.clock, ops |-> [a |-> a, b |-> b]]
EvictorWorkloads ==
  {With(DirtyCache, <<Get("k1", 4)>>, <<Get("k2", 4)>>),
   With(CleanCache, <<Get("k2", 0)>>, <<Get("k1", 5)>>),
   With(DirtyCache, <<CloseFile("f"), Get("k1", 4)>>, <<Get("k3", 0)>>),
   With(CleanCache, <<Reserve, Release>>, <<Get("k2", 4), Unlink("f")>>)}

W == INSTANCE WorkThreads WITH
       Workers <- KibbutzWorkers, Items <- <<1, 2, 3>>,
       Clients <- PoolClients, PoolThreads <- PoolIds, max_threads <- Cores, Parts <- NodeParts
M == INSTANCE Minicron
E == INSTANCE Evictor WITH
       Users <- {"a", "b"}, Keys <- PairKeys, Files <- CacheFiles, FileOf <- KeyFile,
       Leaf <- {"k1"}, SizeLimit <- Limit, CLOCK_SATURATION <- 1,
       CLOCK_INITIAL_COUNT <- 1, Estimates <- {0, 50}, Workloads <- EvictorWorkloads

Init ==
  /\ which \in {"kibbutz", "pool", "cron", "evictor", "fair evictor"}
  /\ W!toku_kibbutz_create /\ W!toku_thread_pool_create
  /\ M!toku_minicron_setup /\ (which # "cron" => cron.period = "zero")
  /\ E!init /\ (which # "evictor" <=> evops.a = <<Get("k1", 4)>>)
KibbutzStep == which = "kibbutz" /\ W!KibbutzNext /\ UNCHANGED <<which, pool, cron, evictorvars>>
PoolStep == which = "pool" /\ W!PoolNext /\ UNCHANGED <<which, kib, cron, evictorvars>>
CronStep == which = "cron" /\ M!CronNext /\ UNCHANGED <<which, kib, pool, evictorvars>>
EvictorStep ==
  which \in {"evictor", "fair evictor"} /\ E!EvictorNext /\ UNCHANGED <<which, kib, pool, cron>>
Next == KibbutzStep \/ PoolStep \/ CronStep \/ EvictorStep

\* Threads run; an owner of a kibbutz, a pool or a cron that shuts it down goes on to join
\* its threads; who waits for the evictor's mutex gets it in the end (the eviction thread
\* takes it again and again, once in a period); time passes; and the count of a small pair, which run_eviction_on_pair
\* lowers with a probability above 0, does not stay where it is for ever.
Fairness ==
  /\ \A w \in KibbutzWorkers : WF_kib(which = "kibbutz" /\ W!work_on_kibbutz(w))
  /\ WF_kib(which = "kibbutz" /\ W!toku_kibbutz_destroy)
  /\ \A c \in PoolClients : WF_pool(which = "pool" /\ W!UsePool(c))
  /\ \A t \in PoolIds : WF_pool(which = "pool" /\ W!toku_thread_run_internal(t))
  /\ WF_pool(which = "pool" /\ W!toku_thread_pool_destroy)
  /\ WF_cron(which = "cron" /\ M!minicron_do)
  /\ WF_cron(which = "cron" /\ M!time_passes)
  /\ WF_cron(which = "cron" /\ cron.owner = "join" /\ M!toku_minicron_shutdown)
  /\ WF_evictorvars(which = "fair evictor" /\ E!EvictionThread)
  /\ WF_evictorvars(which = "fair evictor" /\ E!period_passes)
  /\ SF_evictorvars(which = "fair evictor" /\ \E i \in DOMAIN jobs : E!Writer(i))
  /\ \A u \in {"a", "b"} : SF_evictorvars(which = "fair evictor" /\ E!Client(u))
  /\ \A k \in PairKeys :
       SF_evictorvars(/\ which = "fair evictor" /\ E!run_eviction_on_pair
                      /\ pair'[k].count < pair[k].count)
Spec == Init /\ [][Next]_vars
FairSpec == Spec /\ Fairness

\* The kibbutz's work is begun in the order it was enqueued; a workset is joined only when
\* nobody works on it or will; the evictor's sizes are what there is, a pinned pair has no
\* part missing, and the pairs of a file that is closed are not in use.
BackgroundSafe ==
  W!WorkInOrder /\ W!WorksetJoined /\ E!SizesExact /\ E!PinnedWhole /\ E!CloseSafe
\* A destroyed kibbutz has done all of its work; a pool serves its clients, and can be
\* destroyed; a cron calls its function, and can be shut down; a client that sleeps for
\* the cache's sake is woken.
BackgroundServes ==
  /\ (which = "kibbutz" => W!DestroyDone)
  /\ (which = "pool" => W!PoolServes)
  /\ (which = "cron" => M!CronRuns)
  /\ (which = "fair evictor" => E!Woken)
=============================================================================
