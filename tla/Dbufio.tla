------------------------------- MODULE Dbufio -------------------------------
(***************************************************************************)
(* The double-buffered input of a merge (ft/loader/dbufio.cc).  A file has *)
(* two buffers: the reader owns the first, the I/O thread fills the        *)
(* second, and the reader swaps them when the second is ready.  The        *)
(* content of a file is the numbers 1 .. Size[f]; a read may give less     *)
(* than a buffer (the compressed blocks), nothing at the end, or fail.     *)
(* The reader is a merge: it takes from the files in any order until each  *)
(* is at its end, or until an error, its own or a file's; then it panics   *)
(* the files, and it joins the thread.                                     *)
(***************************************************************************)
EXTENDS Integers, Sequences, FiniteSets

CONSTANTS Size,    \* Size[f] is the length of file f
          bufsize,
          Counts,  \* how much a read asks for
          Faults   \* how many operations may fail

VARIABLES files,   \* [left, buf, off, error_code, second, second_error, second_buf_ready, io_done]
          bfs,     \* [n_not_done, queue, panic, waiting, faults]
          io,      \* the I/O thread: [pc, file]
          reader,  \* [pc, file, want, got, result]
          seen     \* what the reader has got of each file, with 0 at the end
vars == <<files, bfs, io, reader, seen>>

File == DOMAIN Size
NoFile == 0
Next_(f) == Size[f] - files[f].left  \* what is read of the file
\* What a read of the file can give: units, none of them at the end, or failure.
read_results(f) ==
  {[n |-> n, error |-> "", faults |-> bfs.faults] :
   n \in IF files[f].left = 0 THEN {0} ELSE 1 .. (IF bufsize < files[f].left THEN bufsize ELSE files[f].left)}
  \union IF bfs.faults = 0 THEN {} ELSE {[n |-> 0, error |-> "io", faults |-> bfs.faults - 1]}
chunk(f, n) == [k \in 1 .. n |-> Next_(f) + k]

-----------------------------------------------------------------------------
\* The first buffer of the next file is read by the creator; the thread comes last.
create_dbufio_fileset ==
  /\ reader.pc = "create" /\ UNCHANGED seen
  /\ IF reader.file > Cardinality(File)
     THEN io' = [io EXCEPT !.pc = "top"] /\ reader' = [reader EXCEPT !.pc = "run", !.file = NoFile] /\ UNCHANGED <<files, bfs>>
     ELSE \E x \in read_results(reader.file) :
            LET f == reader.file
            IN /\ UNCHANGED io
               /\ files' = [files EXCEPT ![f].buf = chunk(f, x.n), ![f].left = @ - x.n, ![f].io_done = x.n = 0,
                              ![f].error_code = IF x.n = 0 THEN "EOF" ELSE ""]
               /\ bfs' = [bfs EXCEPT !.faults = x.faults, !.n_not_done = IF x.n = 0 THEN @ - 1 ELSE @,
                            !.queue = IF x.n = 0 THEN @ ELSE Append(@, f)]
               /\ reader' = IF x.error = "" THEN [reader EXCEPT !.file = @ + 1]
                            ELSE [reader EXCEPT !.pc = "closed", !.result = x.error]

\* The second buffer counts as ready before it is read.
io_topMut ==
  /\ io.pc = "top" /\ bfs.queue # <<>> /\ UNCHANGED <<reader, seen>>
  /\ io' = [pc |-> "reading", file |-> Head(bfs.queue)]
  /\ files' = [files EXCEPT ![Head(bfs.queue)].second_buf_ready = TRUE]
  /\ bfs' = [bfs EXCEPT !.queue = Tail(@)]
\* The I/O thread takes the mutex at the top of its loop.
io_top ==
  /\ io.pc = "top" /\ "io" \notin bfs.waiting /\ UNCHANGED <<files, reader, seen>>
  /\ IF bfs.panic \/ bfs.n_not_done = 0 THEN io' = [io EXCEPT !.pc = "ended"] /\ UNCHANGED bfs
     ELSE IF bfs.queue = <<>> THEN bfs' = [bfs EXCEPT !.waiting = @ \union {"io"}] /\ UNCHANGED io
     ELSE /\ io' = [pc |-> "reading", file |-> Head(bfs.queue)]
          /\ bfs' = [bfs EXCEPT !.queue = Tail(@)]
\* The read, without the mutex, into the second buffer.
io_reads ==
  /\ io.pc = "reading" /\ UNCHANGED <<reader, seen>>
  /\ \E x \in read_results(io.file) :
       /\ files' = [files EXCEPT ![io.file].second = chunk(io.file, x.n), ![io.file].left = @ - x.n,
                      ![io.file].second_error = IF x.error # "" THEN x.error ELSE IF x.n = 0 THEN "EOF" ELSE "",
                      ![io.file].io_done = @ \/ (x.n = 0 /\ x.error = "")]
       /\ bfs' = [bfs EXCEPT !.faults = x.faults]
  /\ io' = [io EXCEPT !.pc = "read"]
io_publishes ==
  /\ io.pc = "read" /\ UNCHANGED <<reader, seen>>
  /\ IF bfs.panic THEN io' = [io EXCEPT !.pc = "ended"] /\ UNCHANGED <<files, bfs>>
     ELSE /\ files' = [files EXCEPT ![io.file].second_buf_ready = TRUE]
          /\ bfs' = [bfs EXCEPT !.waiting = {}, !.n_not_done = IF files[io.file].second = <<>> THEN @ - 1 ELSE @]
          /\ io' = [pc |-> "top", file |-> NoFile]
io_thread == io_top \/ io_reads \/ io_publishes

-----------------------------------------------------------------------------
\* What a read copies from the first buffer, and whether that is all it wants.
copied(f) == LET here == Len(files[f].buf) - files[f].off
             IN IF reader.want < here THEN reader.want ELSE here
at_end(f) == seen[f] # <<>> /\ seen[f][Len(seen[f])] = 0

read_starts ==
  /\ reader.pc = "run" /\ UNCHANGED <<files, bfs, io>>
  /\ \E f \in File, n \in Counts :
       /\ ~at_end(f)
       /\ IF files[f].error_code = ""
          THEN reader' = [reader EXCEPT !.pc = "copy", !.file = f, !.want = n, !.got = 0] /\ UNCHANGED seen
          ELSE UNCHANGED reader /\ seen' = [seen EXCEPT ![f] = Append(@, 0)]  \* EOF since the creation
copy ==
  /\ reader.pc = "copy" /\ UNCHANGED <<bfs, io>>
  /\ LET f == reader.file
         n == copied(f)
     IN /\ files' = [files EXCEPT ![f].off = @ + n]
        /\ seen' = [seen EXCEPT ![f] = @ \o SubSeq(files[f].buf, files[f].off + 1, files[f].off + n)]
        /\ reader' = IF n = reader.want THEN [reader EXCEPT !.pc = "run", !.file = NoFile, !.want = 0, !.got = 0]
                     ELSE [reader EXCEPT !.pc = "swap", !.want = @ - n, !.got = @ + n]
\* Nothing is left in the first buffer: the second takes its place, or the reader waits for it.
swap_enq(f, queue) == IF files[f].io_done THEN queue ELSE Append(queue, f)
swap ==
  /\ reader.pc = "swap" /\ "reader" \notin bfs.waiting /\ UNCHANGED io
  /\ LET f == reader.file
         error == files[f].second_error
     IN IF ~files[f].second_buf_ready
        THEN bfs' = [bfs EXCEPT !.waiting = @ \union {"reader"}] /\ UNCHANGED <<files, reader, seen>>
        ELSE /\ files' = [files EXCEPT ![f].buf = files[f].second, ![f].second = files[f].buf, ![f].error_code = error,
                            ![f].second_buf_ready = FALSE, ![f].off = 0]
             /\ bfs' = [bfs EXCEPT !.queue = swap_enq(f, @), !.waiting = {}]
             /\ seen' = IF error = "EOF" THEN [seen EXCEPT ![f] = Append(@, 0)] ELSE seen
             /\ reader' = IF error = "" THEN [reader EXCEPT !.pc = "copy"]
                          ELSE IF error = "EOF" THEN [reader EXCEPT !.pc = "run", !.file = NoFile, !.want = 0, !.got = 0]
                          ELSE [reader EXCEPT !.pc = "panic", !.result = error]
dbufio_fileset_read == read_starts \/ copy \/ swap

\* The merge is over, or it has an error of its own.
done ==
  /\ reader.pc = "run" /\ UNCHANGED <<files, io, seen>>
  /\ \/ (\A f \in File : at_end(f)) /\ reader' = [reader EXCEPT !.pc = "join"] /\ UNCHANGED bfs
     \/ bfs.faults > 0 /\ bfs' = [bfs EXCEPT !.faults = @ - 1] /\ reader' = [reader EXCEPT !.pc = "panic", !.result = "write"]
\* The thread is not woken.
panic_dbufio_filesetMut ==
  /\ reader.pc = "panic" /\ bfs' = [bfs EXCEPT !.panic = TRUE] /\ reader' = [reader EXCEPT !.pc = "join"]
  /\ UNCHANGED <<files, io, seen>>
panic_dbufio_fileset ==
  /\ reader.pc = "panic"
  /\ bfs' = [bfs EXCEPT !.panic = TRUE, !.waiting = {}] /\ reader' = [reader EXCEPT !.pc = "join"]
  /\ UNCHANGED <<files, io, seen>>
destroy_dbufio_fileset ==
  /\ reader.pc = "join" /\ io.pc = "ended" /\ reader' = [reader EXCEPT !.pc = "closed"]
  /\ UNCHANGED <<files, bfs, io, seen>>

-----------------------------------------------------------------------------
Init ==
  /\ files = [f \in File |-> [left |-> Size[f], buf |-> <<>>, off |-> 0, error_code |-> "", second |-> <<>>,
                              second_error |-> "", second_buf_ready |-> FALSE, io_done |-> FALSE]]
  /\ bfs = [n_not_done |-> Cardinality(File), queue |-> <<>>, panic |-> FALSE, waiting |-> {}, faults |-> Faults]
  /\ io = [pc |-> "none", file |-> NoFile]
  /\ reader = [pc |-> "create", file |-> 1, want |-> 0, got |-> 0, result |-> ""]
  /\ seen = [f \in File |-> <<>>]
client == dbufio_fileset_read \/ done \/ panic_dbufio_fileset \/ destroy_dbufio_fileset \/ create_dbufio_fileset
Next == io_thread \/ client
\* The two threads run; the merge goes on with its files.
Fairness == WF_vars(io_thread) /\ WF_vars(client)
Spec == Init /\ [][Next]_vars /\ Fairness

\* The reader gets what the file holds, in order, and learns of the end after the last of it.
ReadsTheFile ==
  \A f \in File :
    LET units == IF at_end(f) THEN Len(seen[f]) - 1 ELSE Len(seen[f])
    IN (\A k \in 1 .. units : seen[f][k] = k) /\ (at_end(f) => units = Size[f])
\* The thread ends, so that destroy_dbufio_fileset returns, after the last file and after an error.
JoinReturns == <>(reader.pc = "closed")
=============================================================================
