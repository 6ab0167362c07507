----------------------------- MODULE NotifyPipe -----------------------------
(***************************************************************************)
(* Async requests with pipe notification: send_request_async_callback of   *)
(* cycletls/_ffi.py (the event loop thread and the default executor that   *)
(* runs os.read) with submitRequestAsyncWithNotify and getAsyncResult of   *)
(* golang/ffi.go (one goroutine per request).  Descriptors are numbers in  *)
(* a table the whole process shares; the goroutine keeps only the number.  *)
(***************************************************************************)
EXTENDS Integers, FiniteSets

CONSTANTS
  Reqs,      \* the calls of send_request_async_callback
  Abandons,  \* those whose wait may time out or be cancelled
  MaxFd,     \* descriptors 1..MaxFd (RLIMIT_NOFILE)
  Workers    \* threads of the default executor

ASSUME PipeAssumption ==
  /\ Abandons \subseteq Reqs
  /\ MaxFd \in Nat
  /\ Workers \in Nat \ {0}

VARIABLES
  py,      \* where the coroutine is
  ended,   \* how it ended: "no", "ok", "null", "abandoned", "refused", "emfile"
  rfd,     \* read_fd (0 before os.pipe)
  wfd,     \* write_fd, also the goroutine's notifyFD
  table,   \* descriptor -> the pipe end it denotes
  bytes,   \* unread bytes in each request's pipe
  job,     \* the executor job running os.read(read_fd, 1)
  source,  \* the pipe a blocked os.read waits on
  go,      \* the goroutine of the request
  entry    \* the entry of asyncNotifyResults, with its cgo handle

vars == <<py, ended, rfd, wfd, table, bytes, job, source, go, entry>>

Fds == 1..MaxFd
Free == [end |-> "free", pipe |-> 0]
ReadEnd(r) == [end |-> "r", pipe |-> r]
WriteEnd(r) == [end |-> "w", pipe |-> r]
FreeFds == {f \in Fds : table[f] = Free}
Nobody == 0

Init ==
  /\ py = [r \in Reqs |-> "idle"]
  /\ ended = [r \in Reqs |-> "no"]
  /\ rfd = [r \in Reqs |-> 0]
  /\ wfd = [r \in Reqs |-> 0]
  /\ table = [f \in Fds |-> Free]
  /\ bytes = [r \in Reqs |-> 0]
  /\ job = [r \in Reqs |-> "none"]
  /\ source = [r \in Reqs |-> Nobody]
  /\ go = [r \in Reqs |-> "none"]
  /\ entry = [r \in Reqs |-> "none"]

-----------------------------------------------------------------------------
(* The coroutine.                                                          *)

\* os.pipe() takes the two lowest free descriptors, or raises EMFILE before
\* the try statement is entered.
OpenPipe(r) ==
  /\ py[r] = "idle"
  /\ \/ \E f, g \in FreeFds :
          /\ f < g
          /\ \A h \in FreeFds : h = f \/ h >= g
          /\ rfd' = [rfd EXCEPT ![r] = f]
          /\ wfd' = [wfd EXCEPT ![r] = g]
          /\ table' = [table EXCEPT ![f] = ReadEnd(r), ![g] = WriteEnd(r)]
          /\ py' = [py EXCEPT ![r] = "submit"]
          /\ UNCHANGED ended
     \/ /\ \A f, g \in FreeFds : f = g
        /\ py' = [py EXCEPT ![r] = "finished"]
        /\ ended' = [ended EXCEPT ![r] = "emfile"]
        /\ UNCHANGED <<rfd, wfd, table>>
  /\ UNCHANGED <<bytes, job, source, go, entry>>

\* The FFI call stores the entry and starts the goroutine, the os.read job is
\* queued; a payload Go cannot decode gives handle 0 and an error.
Submit(r) ==
  /\ py[r] = "submit"
  /\ \/ /\ py' = [py EXCEPT ![r] = "await"]
        /\ entry' = [entry EXCEPT ![r] = "stored"]
        /\ go' = [go EXCEPT ![r] = "working"]
        /\ job' = [job EXCEPT ![r] = "queued"]
        /\ UNCHANGED ended
     \/ /\ py' = [py EXCEPT ![r] = "close"]
        /\ ended' = [ended EXCEPT ![r] = "refused"]
        /\ UNCHANGED <<entry, go, job>>
  /\ UNCHANGED <<rfd, wfd, table, bytes, source>>

\* wait_for times out, or the task is cancelled: a job not started yet is
\* cancelled with it, a started one cannot be.
Abandon(r) ==
  /\ py[r] = "await"
  /\ py' = [py EXCEPT ![r] = "close"]
  /\ ended' = [ended EXCEPT ![r] = "abandoned"]
  /\ job' = [job EXCEPT ![r] = IF @ = "queued" THEN "cancelled" ELSE @]
  /\ UNCHANGED <<rfd, wfd, table, bytes, source, go, entry>>

\* os.read has returned; what it returned is not looked at.
Notified(r) ==
  /\ py[r] = "await"
  /\ job[r] = "done"
  /\ py' = [py EXCEPT ![r] = "fetch"]
  /\ UNCHANGED <<ended, rfd, wfd, table, bytes, job, source, go, entry>>

\* getAsyncResult: NULL unless the entry is ready; else entry and handle go.
Fetch(r) ==
  /\ py[r] = "fetch"
  /\ \/ /\ entry[r] = "ready"
        /\ entry' = [entry EXCEPT ![r] = "deleted"]
        /\ ended' = [ended EXCEPT ![r] = "ok"]
     \/ /\ entry[r] # "ready"
        /\ ended' = [ended EXCEPT ![r] = "null"]
        /\ UNCHANGED entry
  /\ py' = [py EXCEPT ![r] = "close"]
  /\ UNCHANGED <<rfd, wfd, table, bytes, job, source, go>>

\* Mutation: an abandoned request closes its descriptors at once, and the
\* finally clause closes the same numbers again.
CloseBothAgain(r) ==
  /\ \/ py[r] = "close"
     \/ py[r] = "finished" /\ ended[r] = "abandoned"
  /\ table' = [table EXCEPT ![rfd[r]] = Free, ![wfd[r]] = Free]
  /\ py' = [py EXCEPT ![r] = "finished"]
  /\ UNCHANGED <<ended, rfd, wfd, bytes, job, source, go, entry>>

\* Mutation: the finally clause forgets the write end.
CloseReadEnd(r) ==
  /\ py[r] = "close"
  /\ table' = [table EXCEPT ![rfd[r]] = Free]
  /\ py' = [py EXCEPT ![r] = "finished"]
  /\ UNCHANGED <<ended, rfd, wfd, bytes, job, source, go, entry>>

\* The finally clause.
CloseBoth(r) ==
  /\ py[r] = "close"
  /\ table' = [table EXCEPT ![rfd[r]] = Free, ![wfd[r]] = Free]
  /\ py' = [py EXCEPT ![r] = "finished"]
  /\ UNCHANGED <<ended, rfd, wfd, bytes, job, source, go, entry>>

-----------------------------------------------------------------------------
(* The executor.  A worker that has taken the job enters the system call   *)
(* later, and only then is the number looked up.                           *)

Busy == {r \in Reqs : job[r] \in {"running", "reading"}}

JobStart(r) ==
  /\ job[r] = "queued"
  /\ Cardinality(Busy) < Workers
  /\ job' = [job EXCEPT ![r] = "running"]
  /\ UNCHANGED <<py, ended, rfd, wfd, table, bytes, source, go, entry>>

JobRead(r) ==
  /\ job[r] = "running"
  /\ LET e == table[rfd[r]]
     IN \/ /\ e.end = "r"
           /\ job' = [job EXCEPT ![r] = "reading"]
           /\ source' = [source EXCEPT ![r] = e.pipe]
        \/ /\ e.end # "r"
           /\ job' = [job EXCEPT ![r] = "ebadf"]
           /\ UNCHANGED source
  /\ UNCHANGED <<py, ended, rfd, wfd, table, bytes, go, entry>>

HasWriter(p) == \E f \in Fds : table[f] = WriteEnd(p)
HasReader(p) == \E f \in Fds : table[f] = ReadEnd(p)

\* The read returns a byte, or end-of-file once no write end is open.
JobReturn(r) ==
  /\ job[r] = "reading"
  /\ LET p == source[r]
     IN \/ /\ bytes[p] > 0
           /\ bytes' = [bytes EXCEPT ![p] = @ - 1]
        \/ /\ bytes[p] = 0
           /\ ~HasWriter(p)
           /\ UNCHANGED bytes
  /\ job' = [job EXCEPT ![r] = "done"]
  /\ UNCHANGED <<py, ended, rfd, wfd, table, source, go, entry>>

-----------------------------------------------------------------------------
(* The goroutine: store the result, then write one byte to the number.     *)

GoStore(r) ==
  /\ go[r] = "working"
  /\ go' = [go EXCEPT ![r] = "stored"]
  /\ entry' = [entry EXCEPT ![r] = "ready"]
  /\ UNCHANGED <<py, ended, rfd, wfd, table, bytes, job, source>>

\* Mutation: the byte is written before the result is stored.
GoNotifyFirst(r) ==
  /\ go[r] \in {"working", "stored"}
  /\ LET e == table[wfd[r]]
     IN \/ /\ e.end = "w"
           /\ HasReader(e.pipe)
           /\ bytes' = [bytes EXCEPT ![e.pipe] = @ + 1]
        \/ /\ ~(e.end = "w" /\ HasReader(e.pipe))
           /\ UNCHANGED bytes
  /\ go' = [go EXCEPT ![r] = "done"]
  /\ UNCHANGED <<py, ended, rfd, wfd, table, job, source, entry>>

\* Mutation: the goroutine stores the result and never writes the byte.
GoNotifySilent(r) ==
  /\ go[r] = "stored"
  /\ go' = [go EXCEPT ![r] = "done"]
  /\ UNCHANGED <<py, ended, rfd, wfd, table, bytes, job, source, entry>>

\* Whatever write end the number denotes by now gets the byte; a free number,
\* a read end or a pipe nobody reads is an error the goroutine ignores.
GoNotify(r) ==
  /\ go[r] = "stored"
  /\ LET e == table[wfd[r]]
     IN \/ /\ e.end = "w"
           /\ HasReader(e.pipe)
           /\ bytes' = [bytes EXCEPT ![e.pipe] = @ + 1]
        \/ /\ ~(e.end = "w" /\ HasReader(e.pipe))
           /\ UNCHANGED bytes
  /\ go' = [go EXCEPT ![r] = "done"]
  /\ UNCHANGED <<py, ended, rfd, wfd, table, job, source, entry>>

-----------------------------------------------------------------------------
Loop(r) == Submit(r) \/ Notified(r) \/ Fetch(r) \/ CloseBoth(r)
Executor(r) == JobStart(r) \/ JobRead(r) \/ JobReturn(r)
Goroutine(r) == GoStore(r) \/ GoNotify(r)

Next ==
  \/ \E r \in Reqs : OpenPipe(r) \/ Loop(r) \/ Executor(r) \/ Goroutine(r)
  \/ \E r \in Abandons : Abandon(r)

Spec == Init /\ [][Next]_vars

\* The event loop, the executor's threads and the goroutines are scheduled
\* (every Go request ends); making a call and giving up owe nothing.
Fairness ==
  \A r \in Reqs :
    WF_vars(Loop(r)) /\ WF_vars(Executor(r)) /\ WF_vars(Goroutine(r))

FairSpec == Spec /\ Fairness

\* Every wait is a wait_for with a timeout (30 s by default), which fires.
TimedSpec == FairSpec /\ \A r \in Abandons : WF_vars(Abandon(r))

-----------------------------------------------------------------------------
Open(r) == py[r] \in {"submit", "await", "fetch", "close"}

TypeOK ==
  /\ py \in [Reqs -> {"idle", "submit", "await", "fetch", "close", "finished"}]
  /\ ended \in [Reqs -> {"no", "ok", "null", "abandoned", "refused", "emfile"}]
  /\ rfd \in [Reqs -> 0..MaxFd]
  /\ wfd \in [Reqs -> 0..MaxFd]
  /\ table \in [Fds -> {Free} \cup [end : {"r", "w"}, pipe : Reqs]]
  /\ bytes \in [Reqs -> Nat]
  /\ job \in [Reqs -> {"none", "queued", "cancelled", "running", "reading", "ebadf", "done"}]
  /\ source \in [Reqs -> Reqs \cup {Nobody}]
  /\ go \in [Reqs -> {"none", "working", "stored", "done"}]
  /\ entry \in [Reqs -> {"none", "stored", "ready", "deleted"}]

(* While a request is under way its two numbers denote its own pipe, and   *)
(* nothing else stays open: abandoned waits, late writes of goroutines and *)
(* reused numbers never make one request close another one's descriptors.  *)
DescriptorsOwned ==
  /\ TypeOK
  /\ \A r \in Reqs : Open(r) => /\ table[rfd[r]] = ReadEnd(r)
                                /\ table[wfd[r]] = WriteEnd(r)
  /\ \A f \in Fds : table[f] # Free => /\ Open(table[f].pipe)
                                       /\ f \in {rfd[table[f].pipe], wfd[table[f].pipe]}

\* Request s was abandoned and had been given a descriptor number of r.
Disturbs(s, r) ==
  ended[s] = "abandoned" /\ {rfd[s], wfd[s]} \cap {rfd[r], wfd[r]} # {}

(* A request wakes up before its result is ready only if an abandoned      *)
(* request had been given one of its descriptor numbers: no other order of *)
(* steps of executor and goroutines does it.                               *)
EarlyWakeUpNeedsAbandon ==
  \A r \in Reqs :
    py[r] = "fetch" /\ entry[r] # "ready" =>
      \E s \in Reqs \ {r} : Disturbs(s, r)

(* A call that never gives up gets its result, however few executor        *)
(* threads there are and in whatever order goroutines, threads and event   *)
(* loop run, unless an abandoned request shared a descriptor number.       *)
UndisturbedIsAnswered ==
  \A r \in Reqs \ Abandons :
    (py[r] = "await") ~>
      (ended[r] = "ok" \/ \E s \in Reqs \ {r} : Disturbs(s, r))

(* Every executor thread comes back: no os.read stays blocked, also when   *)
(* its request timed out and its descriptor number serves another pipe.    *)
ReadersComeBack ==
  \A r \in Abandons : (job[r] \in {"running", "reading"}) ~> (job[r] \in {"done", "ebadf"})

(* Every call with a timeout ends and gives its descriptors back, also     *)
(* when a stray read of another call has swallowed its notification.       *)
EveryCallEnds ==
  \A r \in Abandons : Open(r) ~> (py[r] = "finished" /\ \A f \in Fds : table[f].pipe # r)

(* Giving up gives everything back: the executor's thread and the          *)
(* descriptors of a call that may time out.                                *)
GivingUpIsClean == ReadersComeBack /\ EveryCallEnds
=============================================================================
