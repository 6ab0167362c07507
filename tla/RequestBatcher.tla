--------------------------- MODULE RequestBatcher ---------------------------
(***************************************************************************)
(* One RequestBatcher of cycletls/_batcher.py: callers put requests on an  *)
(* unbounded queue and wait on a Future each; one daemon thread collects   *)
(* batches, sends them through batch_fn and completes the Futures;         *)
(* shutdown() may be called by several threads (close(), atexit).          *)
(*                                                                         *)
(* A request stands for its _PendingRequest, its Future, its payload and   *)
(* the response to that payload: "answer[r] = r" says that r's Future      *)
(* holds the response to r's own payload.                                  *)
(***************************************************************************)
EXTENDS Integers, Sequences

CONSTANTS
  Requests,    \* every submission that may be made (sync or async)
  AsyncReqs,   \* those made with submit_async, whose task may be cancelled
  Closers,     \* the threads that may call shutdown()
  BatchSize,   \* self._batch_size
  None         \* the sentinel of the queue, and "no answer"

ASSUME BatcherAssumption ==
  /\ AsyncReqs \subseteq Requests
  /\ None \notin Requests
  /\ BatchSize \in Nat \ {0}

VARIABLES
  queue,    \* self._queue, head first
  event,    \* self._shutdown_event
  pc,       \* where the background thread is
  batch,    \* the local list `batch` (`items` while draining)
  results,  \* the list batch_fn returned
  verdict,  \* what _flush distributes: "results" or "exception"
  pos,      \* the entry of batch that _flush looks at
  final,    \* the loop of _run has ended: this is the drain after it
  future,   \* the state of each request's Future
  answer,   \* the response a finished Future holds
  closer,   \* where each caller of shutdown() is
  ticket,   \* history: when the request was put on the queue (0: not yet)
  clock     \* history: the number of requests put so far

threadVars == <<pc, batch, results, verdict, pos, final>>
futureVars == <<future, answer>>
history    == <<ticket, clock>>
vars == <<queue, event, threadVars, futureVars, closer, history>>

ThreadPC == {"loop", "get", "collect", "drain", "send", "deliver", "set",
             "exit", "dead"}
CloserPC == {"idle", "set", "put", "join", "done"}
FutureState == {"absent", "pending", "cancelled", "result", "exception"}

\* An item taken off the queue joins the list unless it is the sentinel.
Keep(list, item) == IF item = None THEN list ELSE Append(list, item)

Done(r) == future[r] \in {"cancelled", "result", "exception"}

Init ==
  /\ queue = <<>>
  /\ event = FALSE
  /\ pc = "loop"
  /\ batch = <<>>
  /\ results = <<>>
  /\ verdict = "results"
  /\ pos = 1
  /\ final = FALSE
  /\ future = [r \in Requests |-> "absent"]
  /\ answer = [r \in Requests |-> None]
  /\ closer = [c \in Closers |-> "idle"]
  /\ ticket = [r \in Requests |-> 0]
  /\ clock = 0

-----------------------------------------------------------------------------
(* Callers.  The Future is local until queue.put publishes it, so creating *)
(* and queueing it is one step; the caller then waits for the Future.      *)
(* Nothing asks whether the batcher was shut down.                         *)

Submit(r) ==
  /\ future[r] = "absent"
  /\ future' = [future EXCEPT ![r] = "pending"]
  /\ queue' = Append(queue, r)
  /\ ticket' = [ticket EXCEPT ![r] = clock + 1]
  /\ clock' = clock + 1
  /\ UNCHANGED <<event, threadVars, answer, closer>>

\* Cancelling the awaiting task cancels the wrapped Future, which the batcher
\* never marks as running: the cancellation succeeds until it is finished.
Cancel(r) ==
  /\ future[r] = "pending"
  /\ future' = [future EXCEPT ![r] = "cancelled"]
  /\ UNCHANGED <<queue, event, threadVars, answer, closer, history>>

-----------------------------------------------------------------------------
(* shutdown(), step by step: several callers may be inside it.             *)

ShutdownCheck(c) ==
  /\ closer[c] = "idle"
  /\ closer' = [closer EXCEPT ![c] = IF event THEN "done" ELSE "set"]
  /\ UNCHANGED <<queue, event, threadVars, futureVars, history>>

ShutdownSet(c) ==
  /\ closer[c] = "set"
  /\ event' = TRUE
  /\ closer' = [closer EXCEPT ![c] = "put"]
  /\ UNCHANGED <<queue, threadVars, futureVars, history>>

ShutdownPut(c) ==
  /\ closer[c] = "put"
  /\ queue' = Append(queue, None)
  /\ closer' = [closer EXCEPT ![c] = "join"]
  /\ UNCHANGED <<event, threadVars, futureVars, history>>

\* join(timeout=2.0) ends with the thread, or without it after two seconds.
ShutdownJoin(c) ==
  /\ closer[c] = "join"
  /\ closer' = [closer EXCEPT ![c] = "done"]
  /\ UNCHANGED <<queue, event, threadVars, futureVars, history>>

-----------------------------------------------------------------------------
(* The background thread: _run, _collect_batch, _drain_remaining, _flush.  *)

RunLoop ==
  /\ pc = "loop"
  /\ pc' = IF event THEN "drain" ELSE "get"
  /\ final' = event
  /\ UNCHANGED <<queue, event, batch, results, verdict, pos, futureVars, closer, history>>

\* queue.get(timeout=1.0): an empty batch is not flushed.
CollectFirst ==
  /\ pc = "get"
  /\ \/ /\ queue = <<>>
        /\ pc' = "loop"
        /\ UNCHANGED <<queue, batch>>
     \/ /\ queue # <<>>
        /\ queue' = Tail(queue)
        /\ pc' = IF Head(queue) = None THEN "loop" ELSE "collect"
        /\ batch' = Keep(batch, Head(queue))
  /\ UNCHANGED <<event, results, verdict, pos, final, futureVars, closer, history>>

\* Mutation: the sentinel discards what was collected (`return []`).
CollectMoreDropping ==
  /\ pc = "collect"
  /\ Len(batch) < BatchSize
  /\ queue # <<>>
  /\ queue' = Tail(queue)
  /\ pc' = IF Head(queue) = None THEN "loop" ELSE pc
  /\ batch' = IF Head(queue) = None THEN <<>> ELSE Append(batch, Head(queue))
  /\ UNCHANGED <<event, results, verdict, pos, final, futureVars, closer, history>>

\* Mutation: the newest request is taken first (queue.LifoQueue).
CollectMoreLifo ==
  /\ pc = "collect"
  /\ Len(batch) < BatchSize
  /\ queue # <<>>
  /\ queue' = SubSeq(queue, 1, Len(queue) - 1)
  /\ pc' = IF queue[Len(queue)] = None THEN "send" ELSE pc
  /\ batch' = Keep(batch, queue[Len(queue)])
  /\ UNCHANGED <<event, results, verdict, pos, final, futureVars, closer, history>>

\* Mutation: `<=` instead of `<` in the loop of _collect_batch.
CollectMoreOneTooMany ==
  /\ pc = "collect"
  /\ Len(batch) <= BatchSize
  /\ queue # <<>>
  /\ queue' = Tail(queue)
  /\ pc' = IF Head(queue) = None THEN "send" ELSE pc
  /\ batch' = Keep(batch, Head(queue))
  /\ UNCHANGED <<event, results, verdict, pos, final, futureVars, closer, history>>

CollectMore ==
  /\ pc = "collect"
  /\ Len(batch) < BatchSize
  /\ queue # <<>>
  /\ queue' = Tail(queue)
  /\ pc' = IF Head(queue) = None THEN "send" ELSE pc
  /\ batch' = Keep(batch, Head(queue))
  /\ UNCHANGED <<event, results, verdict, pos, final, futureVars, closer, history>>

\* The batch is full, the queue stayed empty, or flush_interval has passed
\* (which may be before anything else was looked at).
CollectEnd ==
  /\ pc = "collect"
  /\ pc' = "send"
  /\ UNCHANGED <<queue, event, batch, results, verdict, pos, final, futureVars, closer, history>>

\* Mutation: the drain keeps the sentinel.
DrainKeepingSentinel ==
  /\ pc = "drain"
  /\ \/ /\ queue # <<>>
        /\ queue' = Tail(queue)
        /\ batch' = Append(batch, Head(queue))
        /\ UNCHANGED pc
     \/ /\ queue = <<>>
        /\ pc' = IF batch = <<>> THEN "exit" ELSE "send"
        /\ UNCHANGED <<queue, batch>>
  /\ UNCHANGED <<event, results, verdict, pos, final, futureVars, closer, history>>

\* Mutation: the drain stops at the sentinel instead of at the empty queue.
DrainToSentinel ==
  /\ pc = "drain"
  /\ \/ /\ queue # <<>>
        /\ Head(queue) # None
        /\ queue' = Tail(queue)
        /\ batch' = Append(batch, Head(queue))
        /\ UNCHANGED pc
     \/ /\ queue # <<>> => Head(queue) = None
        /\ pc' = IF batch = <<>> THEN "exit" ELSE "send"
        /\ UNCHANGED <<queue, batch>>
  /\ UNCHANGED <<event, results, verdict, pos, final, futureVars, closer, history>>

Drain ==
  /\ pc = "drain"
  /\ \/ /\ queue # <<>>
        /\ queue' = Tail(queue)
        /\ batch' = Keep(batch, Head(queue))
        /\ UNCHANGED pc
     \/ /\ queue = <<>>
        /\ pc' = IF batch = <<>> THEN "exit" ELSE "send"
        /\ UNCHANGED <<queue, batch>>
  /\ UNCHANGED <<event, results, verdict, pos, final, futureVars, closer, history>>

\* Mutation: the length of the list is not checked; zip pairs what there is.
SendUnchecked ==
  /\ pc = "send"
  /\ \/ /\ results' = <<>>
        /\ verdict' = "exception"
     \/ \E m \in 1..Len(batch) :
          /\ results' = SubSeq(batch, m, Len(batch))
          /\ verdict' = "results"
  /\ pos' = 1
  /\ pc' = "deliver"
  /\ UNCHANGED <<queue, event, batch, final, futureVars, closer, history>>

\* batch_fn(payloads) comes back: it raises, or it returns a list, which is
\* handed out only if it is as long as the batch.  A list of the right length
\* holds the responses in the order of the payloads; one that lacks some (the
\* first m - 1 of them here, all of them in the FFI's error path) is refused.
Send ==
  /\ pc = "send"
  /\ \/ /\ results' = <<>>
        /\ verdict' = "exception"
     \/ \E m \in 1..(Len(batch) + 1) :
          /\ results' = SubSeq(batch, m, Len(batch))
          /\ verdict' = IF Len(results') = Len(batch) THEN "results" ELSE "exception"
  /\ pos' = 1
  /\ pc' = "deliver"
  /\ UNCHANGED <<queue, event, batch, final, futureVars, closer, history>>

\* `if not pending.future.done()`: the test and the set are two steps.
DeliverCheck ==
  /\ pc = "deliver"
  /\ pos <= Len(batch)
  /\ IF Done(batch[pos])
       THEN pos' = pos + 1 /\ UNCHANGED pc
       ELSE pc' = "set" /\ UNCHANGED pos
  /\ UNCHANGED <<queue, event, batch, results, verdict, final, futureVars, closer, history>>

\* set_result / set_exception on a Future cancelled since the test raises
\* InvalidStateError, which nothing catches: the thread is gone.
DeliverSet ==
  /\ pc = "set"
  /\ LET r == batch[pos]
     IN \/ /\ ~Done(r)
           /\ future' = [future EXCEPT ![r] = IF verdict = "results" THEN "result"
                                                                     ELSE "exception"]
           /\ answer' = [answer EXCEPT ![r] = IF verdict = "results" THEN results[pos]
                                                                     ELSE None]
           /\ pos' = pos + 1
           /\ pc' = "deliver"
        \/ /\ Done(r)
           /\ pc' = "dead"
           /\ UNCHANGED <<futureVars, pos>>
  /\ UNCHANGED <<queue, event, batch, results, verdict, final, closer, history>>

DeliverEnd ==
  /\ pc = "deliver"
  /\ pos > Len(batch)
  /\ batch' = <<>>
  /\ results' = <<>>
  /\ pc' = IF final THEN "exit" ELSE "loop"
  /\ UNCHANGED <<queue, event, verdict, pos, final, futureVars, closer, history>>

-----------------------------------------------------------------------------
Thread ==
  \/ RunLoop \/ CollectFirst \/ CollectMore \/ CollectEnd \/ Drain
  \/ Send \/ DeliverCheck \/ DeliverSet \/ DeliverEnd

Shutdown(c) ==
  ShutdownCheck(c) \/ ShutdownSet(c) \/ ShutdownPut(c) \/ ShutdownJoin(c)

Next ==
  \/ \E r \in Requests : Submit(r)
  \/ \E r \in AsyncReqs : Cancel(r)
  \/ \E c \in Closers : Shutdown(c)
  \/ Thread

Spec == Init /\ [][Next]_vars

\* The thread is scheduled and batch_fn returns (every Go request has a
\* timeout); a thread inside shutdown() carries on.  Callers and cancellations
\* owe nothing.
Fairness ==
  /\ WF_vars(Thread)
  /\ \A c \in Closers :
       WF_vars(ShutdownSet(c) \/ ShutdownPut(c) \/ ShutdownJoin(c))

FairSpec == Spec /\ Fairness

-----------------------------------------------------------------------------
(* Where a request is.                                                     *)

Holds(list, r) == \E i \in 1..Len(list) : list[i] = r
InQueue(r) == Holds(queue, r)
Unsent == pc \in {"collect", "drain", "send"}
Delivering == pc \in {"deliver", "set", "dead"}
Collected(r) == Unsent /\ Holds(batch, r)
Undelivered(r) == Delivering /\ \E i \in pos..Len(batch) : batch[i] = r

TypeOK ==
  /\ queue \in Seq(Requests \cup {None})
  /\ event \in BOOLEAN
  /\ pc \in ThreadPC
  /\ batch \in Seq(Requests)
  /\ results \in Seq(Requests)
  /\ verdict \in {"results", "exception"}
  /\ pos \in Nat \ {0}
  /\ final \in BOOLEAN
  /\ future \in [Requests -> FutureState]
  /\ answer \in [Requests -> Requests \cup {None}]
  /\ closer \in [Closers -> CloserPC]
  /\ ticket \in [Requests -> Nat]
  /\ clock \in Nat

(* Whoever still waits is still known to the batcher: a request whose      *)
(* Future is pending is on the queue, in the batch being collected, or in  *)
(* the part of the sent batch that _flush has not reached, whatever        *)
(* shutdowns, sentinels, failures of batch_fn and cancellations happened.  *)
NoneForgotten ==
  \A r \in Requests :
    future[r] = "pending" => InQueue(r) \/ Collected(r) \/ Undelivered(r)

(* No caller gets the response to somebody else's payload, not even when   *)
(* batch_fn returns a list that lacks some responses.                      *)
OwnAnswer ==
  \A r \in Requests : future[r] = "result" => answer[r] = r

(* A batch never exceeds batch_size, except the one flushed by the drain   *)
(* after the shutdown event, which takes whatever is left.                 *)
BatchBound == Len(batch) <= BatchSize \/ final

(* Every request accepted before the drain saw an empty queue is answered  *)
(* or failed, also when shutdown() interrupts the collection of its batch, *)
(* unless the thread is killed by a cancellation.                          *)
AcceptedIsResolved ==
  \A r \in Requests :
    (future[r] = "pending" /\ (~final \/ pc = "drain")) ~> (Done(r) \/ pc = "dead")

(* Once the shutdown event is set the thread comes to an end.              *)
ShutdownEnds == event ~> (pc \in {"exit", "dead"})

(* A batcher with a living thread leaves nobody behind: what was accepted  *)
(* is resolved, and a shutdown comes to its end.                           *)
ServesToTheEnd == AcceptedIsResolved /\ ShutdownEnds

(* submit_sync "block[s] until the result is ready": every caller's Future *)
(* is completed some day.                                                  *)
EveryCallerReturns ==
  \A r \in Requests : (future[r] = "pending") ~> Done(r)

(* The batcher implements BatchService: dispatching is the call of         *)
(* batch_fn, and every finished Future is a resolved request.              *)
Stage(r) == IF future[r] = "absent" THEN "new"
            ELSE IF InQueue(r) \/ Collected(r) THEN "waiting"
            ELSE "dispatched"

Outcome(r) == CASE future[r] = "cancelled" -> "given_up"
                [] future[r] = "result"    -> "answered"
                [] future[r] = "exception" -> "failed"
                [] OTHER                   -> "open"

Service == INSTANCE BatchService WITH
  stage    <- [r \in Requests |-> Stage(r)],
  outcome  <- [r \in Requests |-> Outcome(r)],
  reply    <- answer,
  turn     <- ticket,
  accepted <- clock

ImplementsService == Service!Spec
=============================================================================
