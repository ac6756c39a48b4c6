----------------------------- MODULE MCWaiting -----------------------------
(***************************************************************************)
(* Where threads wait for each other, for TLC: the two reader-writer       *)
(* locks, the lock requests, the bulk loader's threads and the input of    *)
(* its merges.  A behaviour consists of the steps of one of them, which    *)
(* picks it; the others stay as they begin.                                *)
(***************************************************************************)
EXTENDS FRWLock, RWLock, TLC

CONSTANTS Txns, Keys, None

VARIABLES
  which,
  \* the lock requests
  txnpc, owner, noted, req, status, found, aborted, used, pending, pendingIsEmpty, retryWant,
  retryDone, runningRetry, myWant, visit, infoHolder,
  \* the loader, and the input of a merge
  load, client, bl, loadqueue, extractor, merge, loadwriter,
  files, bfs, io, mergereader, seen
requestvars == <<txnpc, owner, noted, req, status, found, aborted, used, pending, pendingIsEmpty,
                 retryWant, retryDone, runningRetry, myWant, visit, infoHolder>>
loadvars == <<load, client, bl, loadqueue, extractor, merge, loadwriter>>
inputvars == <<files, bfs, io, mergereader, seen>>
mcvars == <<which, vars, rwvars, requestvars, loadvars, inputvars>>

\* Locks on single keys, one request each: the smallest instance where a wait can be missed.
R == INSTANCE LockRequest WITH pc <- txnpc, Ranges <- {{k} : k \in Keys}, MaxRequests <- 1,
                               OutOfLocks <- FALSE

Load(p, g, e, t) == [puts |-> p, gen |-> g, ends |-> e, target |-> t]
Same == [k \in 1 .. 9 |-> <<k>>]
\* A secondary dictionary that has no row for some keys and two for the others.
Odd == [k \in 1 .. 9 |-> IF k % 2 = 0 THEN <<>> ELSE <<k + 1, k>>]
Loads ==
  {Load(<<6, 5, 4, 3, 2, 1>>, <<Same>>, "close", 2),     \* six files, three passes, three levels
   Load(<<1, 2, 3, 4>>, <<Same>>, "close", 2),           \* in order: one file, a last level of two halves
   Load(<<3, 1, 2>>, <<Same, Odd>>, "close", 3),         \* two dictionaries
   Load(<<2, 1, 2>>, <<Same>>, "close", 2), Load(<<1, 3, 2, 1>>, <<Same>>, "close", 2),
   Load(<<2, 2>>, <<Same>>, "close", 2),                 \* duplicates, met at several places
   Load(<<2, 1, 3>>, <<Same>>, "abort", 2), Load(<<>>, <<Same>>, "close", 2)}


B == INSTANCE Loader WITH
       queue <- loadqueue, writer <- loadwriter, Faults <- 2, RowBudget <- 1, Fanin <- 2,
       PerBlock <- 3, MergeBase <- 3
\* Three files, one of them empty, and buffers of two units.
D == INSTANCE Dbufio WITH reader <- mergereader, Size <- <<3, 2, 0>>, bufsize <- 2,
                          Counts <- {1, 2}, Faults <- 1

MCInit ==
  /\ which \in {"frwlock", "rwlock", "requests", "loader", "input"}
  /\ Init /\ rwlock_init /\ R!Init /\ D!Init
  /\ B!Init /\ (which # "loader" => load.puts = <<>>)
FrwlockStep ==
  which = "frwlock" /\ Next /\ UNCHANGED <<which, rwvars, requestvars, loadvars, inputvars>>
RwlockStep ==
  which = "rwlock" /\ rwlock_next /\ UNCHANGED <<which, vars, requestvars, loadvars, inputvars>>
RequestStep ==
  which = "requests" /\ R!Next /\ UNCHANGED <<which, vars, rwvars, loadvars, inputvars>>
LoaderStep ==
  which = "loader" /\ B!Next /\ UNCHANGED <<which, vars, rwvars, requestvars, inputvars>>
InputStep ==
  which = "input" /\ D!Next /\ UNCHANGED <<which, vars, rwvars, requestvars, loadvars>>
MCNext == FrwlockStep \/ RwlockStep \/ RequestStep \/ LoaderStep \/ InputStep

\* Threads run.  The loader is one process whose steps the model orders.
MCFairness ==
  /\ Fairness /\ RwFairness
  /\ \A t \in Txns : WF_requestvars(which = "requests" /\ R!Step(t))
  /\ WF_loadvars(which = "loader" /\ B!Next)
  /\ WF_inputvars(which = "input" /\ D!io_thread)
  /\ WF_inputvars(which = "input" /\ D!client)
MCSpec == MCInit /\ [][MCNext]_mcvars /\ MCFairness

\* A load that says it succeeded has built the tree of its rows, in order; whatever fails
\* leaves no temporary file behind; the error callback is called once; and the
\* double-buffered input gives a merge each file, in order and to its end.
LoadSound ==
  /\ which = "loader" => B!Loaded /\ B!TempFilesGone /\ B!ErrorOnce
  /\ D!ReadsTheFile
\* Who waits is served: in the fair lock whatever the others do; in the other lock the
\* thread that waits for the last user; among the lock requests who waits without a
\* conflict, and who waits for its turn to retry the others.  A load ends, and the
\* input's thread too, after the last file and after an error.
WaitersServed ==
  /\ EveryWaiterServed /\ DrainEnds
  /\ (which = "requests" => R!GrantArrives /\ R!ReleaseEnds)
  /\ (which = "loader" => B!Finishes)
  /\ (which = "input" => D!JoinReturns)
=============================================================================
