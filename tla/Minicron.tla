------------------------------ MODULE Minicron ------------------------------
(***************************************************************************)
(* util/minicron.cc: the thread that calls a function every so often, used *)
(* for checkpoints and for the cleaner.  Its owner changes the period,     *)
(* which may be 0 (never), short (at most a second: the thread sleeps      *)
(* without its mutex and cannot be woken) or long (a timed wait on the     *)
(* condition), and shuts it down.  Time is the flag due: a long period has *)
(* passed since the last call.                                             *)
(***************************************************************************)
VARIABLE cron

toku_minicron_setup ==
  cron \in [thread : {"loop"}, period : {"zero", "short", "long"}, due : {FALSE},
            do_shutdown : {FALSE}, owner : {"running"}]

\* minicron_do at the top of its loop, with the mutex: exit, or wait in one of three ways,
\* or go on at once.
loop ==
  /\ cron.thread = "loop"
  /\ cron' = [cron EXCEPT !.thread =
       CASE cron.do_shutdown -> "exit"
         [] ~cron.do_shutdown /\ cron.period = "zero" -> "wait"
         [] ~cron.do_shutdown /\ cron.period = "short" -> "usleep"
         [] OTHER -> IF cron.due THEN "act" ELSE "timedwait"]
\* The sleep, or the timed wait, is over; a timed wait ends when the call is due.
wakeup ==
  /\ \/ cron.thread = "usleep"
     \/ cron.thread = "timedwait" /\ cron.due
  /\ cron' = [cron EXCEPT !.thread = "act"]
\* "Now we woke up, and we should figure out what to do", with the mutex.
act ==
  /\ cron.thread = "act"
  /\ cron' = IF cron.do_shutdown THEN [cron EXCEPT !.thread = "exit"]
             ELSE IF cron.period = "long" /\ cron.due
             THEN [cron EXCEPT !.due = FALSE, !.thread = "f"]
             ELSE IF cron.period = "short" THEN [cron EXCEPT !.thread = "f"]
             ELSE [cron EXCEPT !.thread = "loop"]
\* The function returns.
f_returns == cron.thread = "f" /\ cron' = [cron EXCEPT !.thread = "loop"]
minicron_do == loop \/ wakeup \/ act \/ f_returns

time_passes == ~cron.due /\ cron.period = "long" /\ cron' = [cron EXCEPT !.due = TRUE]

\* toku_cond_signal: the thread goes on if it waits on the condition.
signalled(c) == IF c.thread \in {"wait", "timedwait"} THEN [c EXCEPT !.thread = "act"] ELSE c
\* The mutant changes the period without a signal.
toku_minicron_change_periodMut ==
  /\ cron.owner = "running"
  /\ \E p \in {"zero", "short", "long"} : cron' = [cron EXCEPT !.period = p]
toku_minicron_change_period ==
  /\ cron.owner = "running"
  /\ \E p \in {"zero", "short", "long"} : cron' = signalled([cron EXCEPT !.period = p])
toku_minicron_shutdown ==
  \/ /\ cron.owner = "running"
     /\ cron' = signalled([cron EXCEPT !.do_shutdown = TRUE, !.owner = "join"])
  \/ /\ cron.owner = "join" /\ cron.thread = "exit"
     /\ cron' = [cron EXCEPT !.owner = "returned"]

CronNext ==
  minicron_do \/ time_passes \/ toku_minicron_change_period \/ toku_minicron_shutdown

-----------------------------------------------------------------------------
\* Once the owner leaves the period alone and it is not 0, the function is called again
\* and again, whatever the thread was waiting for; and a shutdown returns, with the
\* thread gone, also out of a wait without a time limit.
CronRuns ==
  /\ <>[](cron.owner = "running" /\ cron.period = "short") => []<>(cron.thread = "f")
  /\ <>[](cron.owner = "running" /\ cron.period = "long") => []<>(cron.thread = "f")
  /\ (cron.owner = "join") ~> (cron.owner = "returned" /\ cron.thread = "exit")
=============================================================================
