--------------------------- MODULE BatchingProofs ---------------------------
(***************************************************************************)
(* Safety of RequestBatcher for any number of requests, of shutdown()      *)
(* callers and any batch size.  None of NoneForgotten, OwnAnswer and       *)
(* BatchBound is inductive alone: they need the shape of the thread's      *)
(* local state (which batch belongs to which program point, what results   *)
(* holds while it is handed out), collected in ThreadShape.  With OrderInv *)
(* beside that, every step of the batcher is one of BatchService or is not *)
(* seen there (Implements).                                                *)
(* Behind them, the safety of BatchedClients, the clients that share the   *)
(* one batcher of their process.                                           *)
(***************************************************************************)
EXTENDS RequestBatcher, BatchedClients, TLAPS

(* What the thread's locals look like at each program point.               *)
ThreadShape ==
  /\ pc \in {"loop", "get", "exit"} => batch = <<>>
  /\ pc = "set" => pos <= Len(batch)
  /\ pc \in {"deliver", "set"} /\ verdict = "results" => results = batch

(* The drain runs after the loop only.                                     *)
FinalDrain == pc = "drain" => final

(* The inductive invariant.                                                *)
BatcherInv ==
  TypeOK /\ ThreadShape /\ FinalDrain /\ NoneForgotten /\ OwnAnswer /\ BatchBound

(* What the step simulation of BatchService needs beside it.  Requests are *)
(* put on the queue once, and stand there in the order of their tickets,   *)
(* behind all of the batch.                                                *)
PutOnce ==
  \A r \in Requests :
    /\ ticket[r] <= clock
    /\ InQueue(r) \/ Holds(batch, r) => future[r] # "absent"

InLine ==
  /\ \A i, j \in 1..Len(queue) :
       i < j /\ queue[i] # None /\ queue[j] # None => ticket[queue[i]] < ticket[queue[j]]
  /\ \A i \in 1..Len(batch), j \in 1..Len(queue) :
       queue[j] # None => ticket[batch[i]] < ticket[queue[j]]

(* A batch that is sent has somebody in it, and only a result is a reply.  *)
SentBatch == pc \in {"collect", "send"} => batch # <<>>
Unanswered == \A r \in Requests : future[r] # "result" => answer[r] = None

OrderInv == PutOnce /\ InLine /\ SentBatch /\ Unanswered

-----------------------------------------------------------------------------
(* What the queue operations of the model do to a sequence.                *)

(* Append adds one entry at the end and moves none (queue.put).            *)
LEMMA AppendFacts ==
  ASSUME NEW S, NEW s \in Seq(S), NEW e \in S
  PROVE  /\ Append(s, e) \in Seq(S)
         /\ Len(Append(s, e)) = Len(s) + 1
         /\ Append(s, e)[Len(s) + 1] = e
         /\ \A i \in 1..Len(s) : Append(s, e)[i] = s[i]
  OBVIOUS

(* Head and Tail split a sequence that is not empty (queue.get).           *)
LEMMA TakeFacts ==
  ASSUME NEW S, NEW s \in Seq(S), s # <<>>
  PROVE  /\ Head(s) \in S
         /\ Head(s) = s[1]
         /\ Tail(s) \in Seq(S)
         /\ Len(s) \in Nat \ {0}
         /\ Len(Tail(s)) = Len(s) - 1
         /\ \A i \in 1..(Len(s) - 1) : Tail(s)[i] = s[i + 1]
  OBVIOUS

(* Taking the head off the queue and keeping it unless it is the sentinel  *)
(* loses nobody, and the list grows by at most one.                        *)
LEMMA TakenIsKept ==
  ASSUME NEW q \in Seq(Requests \cup {None}), q # <<>>,
         NEW b \in Seq(Requests), NEW r \in Requests,
         Holds(q, r) \/ Holds(b, r)
  PROVE  Holds(Tail(q), r) \/ Holds(Keep(b, Head(q)), r)
<1>1. None \notin Requests /\ Len(b) \in Nat
  BY BatcherAssumption
<1>2. /\ Head(q) = q[1] /\ Len(q) \in Nat \ {0} /\ Len(Tail(q)) = Len(q) - 1
      /\ \A i \in 1..(Len(q) - 1) : Tail(q)[i] = q[i + 1]
      /\ Head(q) \in Requests \cup {None}
  BY TakeFacts
<1>3. CASE Head(q) = None
  <2>1. Keep(b, Head(q)) = b
    BY <1>3 DEF Keep
  <2>2. CASE Holds(q, r)
    <3>1. PICK i \in 1..Len(q) : q[i] = r
      BY <2>2 DEF Holds
    <3>2. i - 1 \in 1..Len(Tail(q)) /\ Tail(q)[i - 1] = r
      BY <1>1, <1>2, <1>3, <3>1
    <3> QED BY <3>2 DEF Holds
  <2> QED BY <2>1, <2>2
<1>4. CASE Head(q) # None
  <2>0. Head(q) \in Requests
    BY <1>2, <1>4
  <2>1. Keep(b, Head(q)) = Append(b, Head(q))
    BY <1>4 DEF Keep
  <2>2. /\ Len(Append(b, Head(q))) = Len(b) + 1
        /\ Append(b, Head(q))[Len(b) + 1] = Head(q)
        /\ \A i \in 1..Len(b) : Append(b, Head(q))[i] = b[i]
    BY <2>0, AppendFacts
  <2>3. CASE Holds(b, r)
    <3>1. PICK i \in 1..Len(b) : b[i] = r
      BY <2>3 DEF Holds
    <3>2. i \in 1..Len(Append(b, Head(q))) /\ Append(b, Head(q))[i] = r
      BY <1>1, <2>2, <3>1
    <3> QED BY <2>1, <3>2 DEF Holds
  <2>4. CASE Holds(q, r)
    <3>1. PICK i \in 1..Len(q) : q[i] = r
      BY <2>4 DEF Holds
    <3>2. CASE i = 1
      <4>1. Len(b) + 1 \in 1..Len(Append(b, Head(q))) /\ Append(b, Head(q))[Len(b) + 1] = r
        BY <1>1, <1>2, <2>2, <3>1, <3>2
      <4> QED BY <2>1, <4>1 DEF Holds
    <3>3. CASE i # 1
      <4>1. i - 1 \in 1..Len(Tail(q)) /\ Tail(q)[i - 1] = r
        BY <1>2, <3>1, <3>3
      <4> QED BY <4>1 DEF Holds
    <3> QED BY <3>2, <3>3
  <2> QED BY <2>3, <2>4
<1> QED BY <1>3, <1>4

(* An item taken off the queue keeps the list one of requests.             *)
LEMMA KeepFacts ==
  ASSUME NEW b \in Seq(Requests), NEW e \in Requests \cup {None}
  PROVE  Keep(b, e) \in Seq(Requests) /\ Len(Keep(b, e)) <= Len(b) + 1
<1>1. CASE e = None
  BY <1>1 DEF Keep
<1>2. CASE e # None
  BY <1>2, AppendFacts DEF Keep
<1> QED BY <1>1, <1>2

-----------------------------------------------------------------------------
(* The steps.                                                              *)

(* A new batcher, before anybody submits, satisfies the invariant.         *)
LEMMA InitInv == Init => BatcherInv
<1> SUFFICES ASSUME Init PROVE BatcherInv
  OBVIOUS
<1>1. TypeOK
  <2>1. /\ queue \in Seq(Requests \cup {None}) /\ batch \in Seq(Requests)
        /\ results \in Seq(Requests) /\ pos \in Nat \ {0} /\ clock \in Nat
        /\ ticket \in [Requests -> Nat]
    BY DEF Init
  <2>2. event \in BOOLEAN /\ final \in BOOLEAN
    BY DEF Init
  <2>3. /\ pc \in ThreadPC /\ verdict \in {"results", "exception"}
        /\ future \in [Requests -> FutureState]
        /\ answer \in [Requests -> Requests \cup {None}]
        /\ closer \in [Closers -> CloserPC]
    BY DEF Init, ThreadPC, CloserPC, FutureState
  <2> QED BY <2>1, <2>2, <2>3 DEF TypeOK
<1>2. ThreadShape /\ FinalDrain /\ NoneForgotten /\ OwnAnswer
  BY DEF Init, ThreadShape, FinalDrain, NoneForgotten, OwnAnswer
<1>3. BatchBound
  BY BatcherAssumption DEF Init, BatchBound
<1> QED BY <1>1, <1>2, <1>3 DEF BatcherInv

(* A submission makes one Future pending and puts it on the queue.         *)
LEMMA SubmitInv ==
  ASSUME BatcherInv, NEW r \in Requests, Submit(r)
  PROVE  BatcherInv'
<1> USE DEF BatcherInv, Submit, threadVars, TypeOK
<1>0. queue' = Append(queue, r) /\ r \in Requests \cup {None} /\ Len(queue) \in Nat
  OBVIOUS
<1>q. /\ queue' \in Seq(Requests \cup {None})
      /\ Len(queue') = Len(queue) + 1
      /\ queue'[Len(queue) + 1] = r
      /\ \A i \in 1..Len(queue) : queue'[i] = queue[i]
  BY <1>0, AppendFacts
<1>1. TypeOK'
  BY <1>q DEF FutureState
<1>2. ThreadShape' /\ FinalDrain'
  BY DEF ThreadShape, FinalDrain
<1>3. NoneForgotten'
  <2> SUFFICES ASSUME NEW s \in Requests, future'[s] = "pending"
               PROVE  (InQueue(s) \/ Collected(s) \/ Undelivered(s))'
    BY DEF NoneForgotten
  <2>1. CASE s = r
    <3>1. Len(queue) + 1 \in 1..Len(queue') /\ queue'[Len(queue) + 1] = s
      BY <1>0, <1>q, <2>1
    <3> QED BY <3>1 DEF InQueue, Holds
  <2>2. CASE s # r
    <3>1. InQueue(s) \/ Collected(s) \/ Undelivered(s)
      BY <2>2 DEF NoneForgotten
    <3>2. InQueue(s) => InQueue(s)'
      BY <1>0, <1>q DEF InQueue, Holds
    <3>3. (Collected(s) => Collected(s)') /\ (Undelivered(s) => Undelivered(s)')
      BY DEF Collected, Undelivered, Unsent, Delivering
    <3> QED BY <3>1, <3>2, <3>3
  <2> QED BY <2>1, <2>2
<1>4. OwnAnswer'
  BY DEF OwnAnswer
<1>5. BatchBound'
  BY DEF BatchBound
<1> QED BY <1>1, <1>2, <1>3, <1>4, <1>5

(* Steps that leave queue and thread alone and make no Future pending.     *)
LEMMA CancelInv ==
  ASSUME BatcherInv, NEW r \in Requests, Cancel(r)
  PROVE  BatcherInv'
<1> USE DEF BatcherInv, Cancel, threadVars
<1>1. TypeOK'
  BY DEF TypeOK, history, FutureState
<1>2. ThreadShape' /\ FinalDrain' /\ BatchBound'
  BY DEF ThreadShape, FinalDrain, BatchBound
<1>3. \A s \in Requests : /\ future'[s] = "pending" => future[s] = "pending"
                          /\ future'[s] = "result" => future[s] = "result"
  BY DEF TypeOK
<1>4. NoneForgotten'
  BY <1>3 DEF NoneForgotten, InQueue, Holds, Collected, Undelivered, Unsent, Delivering
<1>5. OwnAnswer'
  BY <1>3 DEF OwnAnswer
<1> QED BY <1>1, <1>2, <1>4, <1>5

(* shutdown() never disturbs the requests: it only appends a sentinel.     *)
LEMMA ShutdownInv ==
  ASSUME BatcherInv, NEW c \in Closers, Shutdown(c)
  PROVE  BatcherInv'
<1> USE DEF BatcherInv
<1>0. UNCHANGED <<threadVars, futureVars, history>>
  BY DEF Shutdown, ShutdownCheck, ShutdownSet, ShutdownPut, ShutdownJoin
<1>1. queue' = queue \/ queue' = Append(queue, None)
  BY DEF Shutdown, ShutdownCheck, ShutdownSet, ShutdownPut, ShutdownJoin
<1>2. /\ queue' \in Seq(Requests \cup {None})
      /\ Len(queue) \in Nat
      /\ Len(queue') >= Len(queue)
      /\ \A i \in 1..Len(queue) : queue'[i] = queue[i]
  <2>1. queue \in Seq(Requests \cup {None}) /\ None \in Requests \cup {None} /\ Len(queue) \in Nat
    BY DEF TypeOK
  <2>2. CASE queue' = queue
    BY <2>1, <2>2
  <2>3. CASE queue' = Append(queue, None)
    BY <2>1, <2>3, AppendFacts
  <2> QED BY <1>1, <2>2, <2>3
<1>3. event' \in BOOLEAN /\ closer' \in [Closers -> CloserPC]
  BY DEF TypeOK, CloserPC, Shutdown, ShutdownCheck, ShutdownSet, ShutdownPut, ShutdownJoin
<1>4. TypeOK'
  BY <1>0, <1>2, <1>3 DEF TypeOK, threadVars, futureVars, history
<1>5. ThreadShape' /\ FinalDrain' /\ OwnAnswer' /\ BatchBound'
  BY <1>0 DEF ThreadShape, FinalDrain, OwnAnswer, BatchBound, threadVars, futureVars
<1>6. NoneForgotten'
  <2> SUFFICES ASSUME NEW s \in Requests, future'[s] = "pending"
               PROVE  (InQueue(s) \/ Collected(s) \/ Undelivered(s))'
    BY DEF NoneForgotten
  <2>1. InQueue(s) \/ Collected(s) \/ Undelivered(s)
    BY <1>0 DEF NoneForgotten, futureVars
  <2>2. InQueue(s) => InQueue(s)'
    <3> SUFFICES ASSUME NEW i \in 1..Len(queue), queue[i] = s PROVE InQueue(s)'
      BY DEF InQueue, Holds
    <3>1. Len(queue') \in Nat
      BY <1>2
    <3>2. i \in 1..Len(queue') /\ queue'[i] = s
      BY <1>2, <3>1
    <3> QED BY <3>2 DEF InQueue, Holds
  <2>3. (Collected(s) => Collected(s)') /\ (Undelivered(s) => Undelivered(s)')
    BY <1>0 DEF Collected, Undelivered, Unsent, Delivering, threadVars
  <2> QED BY <2>1, <2>2, <2>3
<1> QED BY <1>4, <1>5, <1>6

(* The part that the three ways of taking from the queue share.            *)
LEMMA TakeKeeps ==
  ASSUME BatcherInv, queue # <<>>, pc \in {"get", "collect", "drain"},
         queue' = Tail(queue), future' = future,
         batch' = Keep(batch, Head(queue)),
         pc' \in {"collect", "drain", "send"} \/ batch' = <<>>
  PROVE  /\ queue' \in Seq(Requests \cup {None})
         /\ batch' \in Seq(Requests)
         /\ Len(batch') <= Len(batch) + 1
         /\ NoneForgotten'
<1>0. queue \in Seq(Requests \cup {None}) /\ batch \in Seq(Requests)
  BY DEF BatcherInv, TypeOK
<1>1. queue' \in Seq(Requests \cup {None}) /\ Head(queue) \in Requests \cup {None}
  BY <1>0, TakeFacts
<1>2. batch' \in Seq(Requests) /\ Len(batch') <= Len(batch) + 1
  BY <1>0, <1>1, KeepFacts
<1>3. NoneForgotten'
  <2> SUFFICES ASSUME NEW r \in Requests, future[r] = "pending"
               PROVE  (InQueue(r) \/ Collected(r) \/ Undelivered(r))'
    BY DEF NoneForgotten
  <2>1. Holds(queue, r) \/ Holds(batch, r)
    BY DEF BatcherInv, NoneForgotten, InQueue, Collected, Undelivered, Delivering
  <2>2. Holds(queue', r) \/ Holds(batch', r)
    BY <1>0, <2>1, TakenIsKept
  <2>3. CASE Holds(batch', r)
    <3>1. batch' # <<>>
      BY <2>3 DEF Holds
    <3>2. Unsent'
      BY <3>1 DEF Unsent
    <3> QED BY <2>3, <3>2 DEF Collected
  <2> QED BY <2>2, <2>3 DEF InQueue
<1> QED BY <1>1, <1>2, <1>3

(* _collect_batch moves requests from the queue to the batch, at most      *)
(* batch_size of them, whatever ends it.                                   *)
LEMMA CollectInv ==
  ASSUME BatcherInv, CollectFirst \/ CollectMore
  PROVE  BatcherInv'
<1> USE DEF BatcherInv
<1>0. UNCHANGED <<event, results, verdict, pos, final, futureVars, closer, history>>
  BY DEF CollectFirst, CollectMore
<1>1. CASE queue = <<>> /\ CollectFirst
  <2>1. pc' = "loop" /\ queue' = queue /\ batch' = batch /\ batch = <<>>
    BY <1>1 DEF CollectFirst, ThreadShape
  <2>2. TypeOK'
    BY <1>0, <2>1 DEF TypeOK, ThreadPC, futureVars, history
  <2>3. ThreadShape' /\ FinalDrain' /\ OwnAnswer' /\ BatchBound'
    BY <1>0, <2>1 DEF ThreadShape, FinalDrain, OwnAnswer, BatchBound, futureVars
  <2>4. NoneForgotten'
    BY <1>0, <1>1, <2>1
    DEF NoneForgotten, InQueue, Holds, Collected, Undelivered, Unsent, Delivering, CollectFirst, futureVars
  <2> QED BY <2>2, <2>3, <2>4
<1>2. CASE queue # <<>> \/ CollectMore
  <2>1. /\ queue # <<>>
        /\ pc \in {"get", "collect"}
        /\ queue' = Tail(queue)
        /\ batch' = Keep(batch, Head(queue))
        /\ pc' \in {"collect", "send"} \/ (pc' = "loop" /\ batch' = batch /\ pc = "get")
        /\ pc = "collect" => Len(batch) < BatchSize
    BY <1>2 DEF CollectFirst, CollectMore, Keep
  <2>2. pc = "get" => batch = <<>>
    BY DEF ThreadShape
  <2>3. /\ queue' \in Seq(Requests \cup {None})
        /\ batch' \in Seq(Requests)
        /\ Len(batch') <= Len(batch) + 1
        /\ NoneForgotten'
    BY <1>0, <2>1, <2>2, TakeKeeps DEF futureVars
  <2>4. TypeOK'
    BY <1>0, <2>1, <2>3 DEF TypeOK, ThreadPC, futureVars, history
  <2>5. ThreadShape' /\ FinalDrain' /\ OwnAnswer'
    BY <1>0, <2>1, <2>2 DEF ThreadShape, FinalDrain, OwnAnswer, futureVars
  <2>6. BatchBound'
    <3>1. Len(batch) \in Nat /\ Len(batch') \in Nat /\ BatchSize \in Nat \ {0}
      BY <2>3, BatcherAssumption DEF TypeOK
    <3>2. pc = "get" => Len(batch) = 0
      BY <2>2
    <3> QED BY <2>1, <2>3, <3>1, <3>2 DEF BatchBound
  <2> QED BY <2>3, <2>4, <2>5, <2>6
<1> QED BY <1>1, <1>2

(* _drain_remaining moves everything that is left.                         *)
LEMMA DrainInv ==
  ASSUME BatcherInv, Drain
  PROVE  BatcherInv'
<1> USE DEF BatcherInv
<1>0. UNCHANGED <<event, results, verdict, pos, final, futureVars, closer, history>> /\ pc = "drain"
  BY DEF Drain
<1>1. CASE queue # <<>>
  <2>1. queue' = Tail(queue) /\ batch' = Keep(batch, Head(queue)) /\ pc' = "drain"
    BY <1>1 DEF Drain
  <2>2. /\ queue' \in Seq(Requests \cup {None})
        /\ batch' \in Seq(Requests)
        /\ NoneForgotten'
    BY <1>0, <1>1, <2>1, TakeKeeps DEF futureVars
  <2>3. TypeOK'
    BY <1>0, <2>1, <2>2 DEF TypeOK, ThreadPC, futureVars, history
  <2>4. ThreadShape' /\ OwnAnswer'
    BY <1>0, <2>1 DEF ThreadShape, OwnAnswer, futureVars
  <2>5. BatchBound'
    BY <1>0 DEF BatchBound, FinalDrain
  <2>6. FinalDrain'
    BY <1>0 DEF FinalDrain
  <2> QED BY <2>2, <2>3, <2>4, <2>5, <2>6
<1>2. CASE queue = <<>>
  <2>1. /\ queue' = queue /\ batch' = batch
        /\ pc' = IF batch = <<>> THEN "exit" ELSE "send"
    BY <1>2 DEF Drain
  <2>2. TypeOK'
    BY <1>0, <2>1 DEF TypeOK, ThreadPC, futureVars, history
  <2>3. ThreadShape' /\ OwnAnswer' /\ BatchBound' /\ FinalDrain'
    BY <1>0, <2>1 DEF ThreadShape, OwnAnswer, BatchBound, FinalDrain, futureVars
  <2>4. NoneForgotten'
    <3> SUFFICES ASSUME NEW r \in Requests, future[r] = "pending"
                 PROVE  (InQueue(r) \/ Collected(r) \/ Undelivered(r))'
      BY <1>0 DEF NoneForgotten, futureVars
    <3>1. Holds(queue, r) \/ Holds(batch, r)
      BY <1>0 DEF NoneForgotten, InQueue, Collected, Undelivered, Delivering
    <3>2. CASE Holds(batch, r)
      <4>1. batch # <<>>
        BY <3>2 DEF Holds
      <4> QED BY <2>1, <3>2, <4>1 DEF Collected, Unsent
    <3> QED BY <2>1, <3>1, <3>2 DEF InQueue
  <2> QED BY <2>2, <2>3, <2>4
<1> QED BY <1>1, <1>2

(* The loop test of _run and the end of a collection move nobody.          *)
LEMMA LoopInv ==
  ASSUME BatcherInv, RunLoop \/ CollectEnd
  PROVE  BatcherInv'
<1> USE DEF BatcherInv
<1>0. UNCHANGED <<queue, event, batch, results, verdict, pos, futureVars, closer, history>>
  BY DEF RunLoop, CollectEnd
<1>1. /\ pc \in {"loop", "collect"} /\ pc' \in {"drain", "get", "send"}
      /\ pc = "collect" => pc' = "send" /\ final' = final
      /\ pc = "loop" => batch = <<>> /\ final' = event
      /\ pc' = "drain" => final'
      /\ pc' \in {"get", "drain"} => batch = <<>>
  BY DEF RunLoop, CollectEnd, ThreadShape
<1>2. final' \in BOOLEAN
  BY <1>1 DEF TypeOK
<1>3. TypeOK'
  BY <1>0, <1>1, <1>2 DEF TypeOK, ThreadPC, futureVars, history
<1>4. ThreadShape' /\ OwnAnswer' /\ FinalDrain'
  BY <1>0, <1>1 DEF ThreadShape, OwnAnswer, FinalDrain, futureVars
<1>5. BatchBound'
  BY <1>0, <1>1, BatcherAssumption DEF BatchBound
<1>6. NoneForgotten'
  <2> SUFFICES ASSUME NEW r \in Requests, future[r] = "pending"
               PROVE  (InQueue(r) \/ Collected(r) \/ Undelivered(r))'
    BY <1>0 DEF NoneForgotten, futureVars
  <2>1. Holds(queue, r) \/ Holds(batch, r)
    BY <1>1 DEF NoneForgotten, InQueue, Collected, Undelivered, Delivering
  <2>2. CASE Holds(batch, r)
    <3>1. batch # <<>>
      BY <2>2 DEF Holds
    <3> QED BY <1>0, <1>1, <2>2, <3>1 DEF Collected, Unsent
  <2> QED BY <1>0, <2>1, <2>2 DEF InQueue
<1> QED BY <1>3, <1>4, <1>5, <1>6

(* batch_fn comes back: all of the batch is now ahead of _flush, and a     *)
(* list that is handed out pairs each request with its own response.       *)
LEMMA SendInv ==
  ASSUME BatcherInv, Send
  PROVE  BatcherInv'
<1> USE DEF BatcherInv
<1>0. /\ UNCHANGED <<queue, event, batch, final, futureVars, closer, history>>
      /\ pc = "send" /\ pc' = "deliver" /\ pos' = 1
  BY DEF Send
<1>1. batch \in Seq(Requests) /\ Len(batch) \in Nat
  BY DEF TypeOK
<1>2. /\ results' \in Seq(Requests)
      /\ verdict' \in {"results", "exception"}
      /\ verdict' = "results" => results' = batch
  <2>1. CASE results' = <<>> /\ verdict' = "exception"
    BY <2>1
  <2>2. ASSUME NEW m \in 1..(Len(batch) + 1),
               results' = SubSeq(batch, m, Len(batch)),
               verdict' = IF Len(results') = Len(batch) THEN "results" ELSE "exception"
        PROVE  <1>2!1 /\ <1>2!2 /\ <1>2!3
    <3>1. results' \in Seq(Requests) /\ Len(results') = Len(batch) - m + 1
      BY <1>1, <2>2
    <3>2. verdict' = "results" => m = 1
      BY <1>1, <2>2, <3>1
    <3>3. m = 1 => results' = batch
      BY <1>1, <2>2
    <3> QED BY <2>2, <3>1, <3>2, <3>3
  <2> QED BY <2>1, <2>2 DEF Send
<1>3. TypeOK'
  BY <1>0, <1>2 DEF TypeOK, ThreadPC, futureVars, history
<1>4. ThreadShape' /\ FinalDrain' /\ OwnAnswer' /\ BatchBound'
  BY <1>0, <1>2 DEF ThreadShape, FinalDrain, OwnAnswer, BatchBound, futureVars
<1>5. NoneForgotten'
  <2> SUFFICES ASSUME NEW r \in Requests, future[r] = "pending"
               PROVE  (InQueue(r) \/ Collected(r) \/ Undelivered(r))'
    BY <1>0 DEF NoneForgotten, futureVars
  <2>1. Holds(queue, r) \/ Holds(batch, r)
    BY <1>0 DEF NoneForgotten, InQueue, Collected, Undelivered, Delivering
  <2>2. CASE Holds(batch, r)
    BY <1>0, <2>2 DEF Holds, Undelivered, Delivering
  <2> QED BY <1>0, <2>1, <2>2 DEF InQueue
<1> QED BY <1>3, <1>4, <1>5

(* _flush passes over an entry only when nobody waits for it any more.     *)
LEMMA PassedOver ==
  ASSUME BatcherInv, pc \in {"deliver", "set"}, pos <= Len(batch),
         queue' = queue, batch' = batch, pos' = pos + 1, pc' = "deliver",
         future'[batch[pos]] # "pending",
         \A r \in Requests : future'[r] = "pending" => future[r] = "pending"
  PROVE  NoneForgotten'
<1> SUFFICES ASSUME NEW r \in Requests, future'[r] = "pending"
             PROVE  (InQueue(r) \/ Undelivered(r))'
  BY DEF NoneForgotten
<1>0. pos \in Nat /\ Len(batch) \in Nat
  BY DEF BatcherInv, TypeOK
<1>1. InQueue(r) \/ \E i \in pos..Len(batch) : batch[i] = r
  BY DEF BatcherInv, NoneForgotten, Collected, Unsent, Undelivered
<1>2. CASE InQueue(r)
  BY <1>2 DEF InQueue
<1>3. CASE \E i \in pos..Len(batch) : batch[i] = r
  <2>1. PICK i \in pos..Len(batch) : batch[i] = r
    BY <1>3
  <2>2. i # pos
    BY <2>1
  <2>3. i \in (pos + 1)..Len(batch)
    BY <1>0, <2>1, <2>2
  <2> QED BY <2>1, <2>3 DEF Undelivered, Delivering
<1> QED BY <1>1, <1>2, <1>3

(* The done() test of _flush.                                              *)
LEMMA DeliverCheckInv ==
  ASSUME BatcherInv, DeliverCheck
  PROVE  BatcherInv'
<1> USE DEF BatcherInv
<1>0. /\ UNCHANGED <<queue, event, batch, results, verdict, final, futureVars, closer, history>>
      /\ pc = "deliver" /\ pos <= Len(batch)
      /\ \/ Done(batch[pos]) /\ pos' = pos + 1 /\ pc' = "deliver"
         \/ pos' = pos /\ pc' = "set"
  BY DEF DeliverCheck
<1>1. TypeOK'
  BY <1>0 DEF TypeOK, ThreadPC, futureVars, history
<1>2. ThreadShape' /\ FinalDrain' /\ OwnAnswer' /\ BatchBound'
  BY <1>0 DEF ThreadShape, FinalDrain, OwnAnswer, BatchBound, futureVars
<1>3. NoneForgotten'
  <2>1. CASE Done(batch[pos]) /\ pos' = pos + 1 /\ pc' = "deliver"
    <3>1. future'[batch[pos]] # "pending"
      BY <1>0, <2>1 DEF Done, futureVars
    <3>2. \A r \in Requests : future'[r] = "pending" => future[r] = "pending"
      BY <1>0 DEF futureVars
    <3> QED BY <1>0, <2>1, <3>1, <3>2, PassedOver
  <2>2. CASE pos' = pos /\ pc' = "set"
    BY <1>0, <2>2
    DEF NoneForgotten, InQueue, Collected, Unsent, Undelivered, Delivering, futureVars
  <2> QED BY <1>0, <2>1, <2>2
<1> QED BY <1>1, <1>2, <1>3

(* set_result / set_exception of _flush, which may kill the thread.        *)
LEMMA DeliverSetInv ==
  ASSUME BatcherInv, DeliverSet
  PROVE  BatcherInv'
<1> USE DEF BatcherInv
<1>0. UNCHANGED <<queue, event, batch, results, verdict, final, closer, history>> /\ pc = "set"
  BY DEF DeliverSet
<1>1. /\ pos \in Nat \ {0} /\ pos <= Len(batch) /\ batch \in Seq(Requests)
      /\ batch[pos] \in Requests /\ Len(batch) \in Nat
  BY <1>0 DEF TypeOK, ThreadShape
<1>2. CASE Done(batch[pos])
  <2>1. pc' = "dead" /\ future' = future /\ answer' = answer /\ pos' = pos
    BY <1>2 DEF DeliverSet, futureVars
  <2>2. TypeOK'
    BY <1>0, <2>1 DEF TypeOK, ThreadPC, history
  <2>3. ThreadShape' /\ FinalDrain' /\ OwnAnswer' /\ BatchBound'
    BY <1>0, <2>1 DEF ThreadShape, FinalDrain, OwnAnswer, BatchBound
  <2>4. NoneForgotten'
    BY <1>0, <2>1 DEF NoneForgotten, InQueue, Collected, Unsent, Undelivered, Delivering
  <2> QED BY <2>2, <2>3, <2>4
<1>3. CASE ~Done(batch[pos])
  <2>1. /\ future' = [future EXCEPT ![batch[pos]] =
                        IF verdict = "results" THEN "result" ELSE "exception"]
        /\ answer' = [answer EXCEPT ![batch[pos]] =
                        IF verdict = "results" THEN results[pos] ELSE None]
        /\ pos' = pos + 1 /\ pc' = "deliver"
    BY <1>3 DEF DeliverSet
  <2>2. verdict = "results" => results[pos] = batch[pos]
    BY <1>0 DEF ThreadShape
  <2>3. answer' \in [Requests -> Requests \cup {None}] /\ future' \in [Requests -> FutureState]
    BY <1>1, <2>1, <2>2 DEF TypeOK, FutureState
  <2>4. TypeOK'
    BY <1>0, <1>1, <2>1, <2>3 DEF TypeOK, ThreadPC, history
  <2>5. ThreadShape' /\ FinalDrain' /\ BatchBound'
    BY <1>0, <2>1 DEF ThreadShape, FinalDrain, BatchBound
  <2>6. OwnAnswer'
    <3> SUFFICES ASSUME NEW r \in Requests, future'[r] = "result" PROVE answer'[r] = r
      BY DEF OwnAnswer
    <3>1. CASE r = batch[pos]
      BY <1>1, <2>1, <2>2, <3>1 DEF TypeOK
    <3>2. CASE r # batch[pos]
      BY <2>1, <3>2 DEF OwnAnswer, TypeOK
    <3> QED BY <3>1, <3>2
  <2>7. NoneForgotten'
    <3>1. future'[batch[pos]] # "pending"
      BY <1>1, <2>1 DEF TypeOK
    <3>2. \A r \in Requests : future'[r] = "pending" => future[r] = "pending"
      BY <1>1, <2>1 DEF TypeOK
    <3> QED BY <1>0, <1>1, <2>1, <3>1, <3>2, PassedOver
  <2> QED BY <2>4, <2>5, <2>6, <2>7
<1> QED BY <1>2, <1>3

(* At the end of _flush nobody of the batch waits any more.                *)
LEMMA DeliverEndInv ==
  ASSUME BatcherInv, DeliverEnd
  PROVE  BatcherInv'
<1> USE DEF BatcherInv
<1>0. /\ UNCHANGED <<queue, event, verdict, pos, final, futureVars, closer, history>>
      /\ pc = "deliver" /\ pos > Len(batch) /\ batch' = <<>> /\ results' = <<>>
      /\ pc' \in {"exit", "loop"}
  BY DEF DeliverEnd
<1>1. TypeOK'
  BY <1>0 DEF TypeOK, ThreadPC, futureVars, history
<1>2. ThreadShape' /\ FinalDrain' /\ OwnAnswer'
  BY <1>0 DEF ThreadShape, FinalDrain, OwnAnswer, futureVars
<1>3. BatchBound'
  BY <1>0, BatcherAssumption DEF BatchBound
<1>4. NoneForgotten'
  <2>1. \A i \in pos..Len(batch) : FALSE
    BY <1>0 DEF TypeOK
  <2> QED BY <1>0, <2>1
      DEF NoneForgotten, InQueue, Collected, Unsent, Undelivered, futureVars
<1> QED BY <1>1, <1>2, <1>3, <1>4

-----------------------------------------------------------------------------
(* Every step of callers, shutdown() and thread keeps the invariant.       *)
LEMMA StepInv == BatcherInv /\ [Next]_vars => BatcherInv'
<1> SUFFICES ASSUME BatcherInv, [Next]_vars PROVE BatcherInv'
  OBVIOUS
<1>1. ASSUME NEW r \in Requests, Submit(r) PROVE BatcherInv'
  BY <1>1, SubmitInv
<1>2. ASSUME NEW r \in AsyncReqs, Cancel(r) PROVE BatcherInv'
  BY <1>2, CancelInv, BatcherAssumption
<1>3. ASSUME NEW c \in Closers, Shutdown(c) PROVE BatcherInv'
  BY <1>3, ShutdownInv
<1>4. CASE Thread
  BY <1>4, LoopInv, CollectInv, DrainInv, SendInv, DeliverCheckInv, DeliverSetInv,
     DeliverEndInv DEF Thread
<1>5. CASE UNCHANGED vars
  <2>1. TypeOK'
    BY <1>5 DEF BatcherInv, TypeOK, vars, threadVars, futureVars, history
  <2>2. ThreadShape' /\ FinalDrain' /\ OwnAnswer' /\ BatchBound'
    BY <1>5 DEF BatcherInv, ThreadShape, FinalDrain, OwnAnswer, BatchBound, vars,
                threadVars, futureVars
  <2>3. NoneForgotten'
    BY <1>5 DEF BatcherInv, NoneForgotten, InQueue, Collected, Unsent, Undelivered,
                Delivering, vars, threadVars, futureVars
  <2> QED BY <2>1, <2>2, <2>3 DEF BatcherInv
<1> QED BY <1>1, <1>2, <1>3, <1>4, <1>5 DEF Next

(* The inductive invariant of the batcher holds in every behaviour, for    *)
(* any requests, any shutdown() callers and any batch_size.                *)
THEOREM Invariance == Spec => []BatcherInv
<1> QED BY InitInv, StepInv, PTL DEF Spec

(* Type correctness of the batcher for every value of its constants.       *)
THEOREM TypeCorrect == Spec => []TypeOK
<1>1. BatcherInv => TypeOK
  BY DEF BatcherInv
<1> QED BY <1>1, Invariance, PTL

(* Nobody who waits is forgotten: for any number of callers, shutdowns and *)
(* any batch size, a pending request is on the queue, being collected, or  *)
(* still ahead of _flush in the batch that was sent.                       *)
THEOREM NobodyIsForgotten == Spec => []NoneForgotten
<1>1. BatcherInv => NoneForgotten
  BY DEF BatcherInv
<1> QED BY <1>1, Invariance, PTL

(* No caller gets somebody else's response.                                *)
THEOREM AnswersAreOwn == Spec => []OwnAnswer
<1>1. BatcherInv => OwnAnswer
  BY DEF BatcherInv
<1> QED BY <1>1, Invariance, PTL

(* Batches respect batch_size until the drain after shutdown.              *)
THEOREM BatchesAreBounded == Spec => []BatchBound
<1>1. BatcherInv => BatchBound
  BY DEF BatcherInv
<1> QED BY <1>1, Invariance, PTL

-----------------------------------------------------------------------------
(* The order in which requests are sent.                                   *)

(* The list gains the item or stays as it is.                              *)
LEMMA KeepEntries ==
  ASSUME NEW b \in Seq(Requests), NEW e \in Requests \cup {None}
  PROVE  \A i \in 1..Len(Keep(b, e)) :
           (i \in 1..Len(b) /\ Keep(b, e)[i] = b[i]) \/ (e # None /\ Keep(b, e)[i] = e)
<1>1. CASE e = None
  BY <1>1 DEF Keep
<1>2. CASE e # None
  <2>1. e \in Requests /\ Keep(b, e) = Append(b, e) /\ Len(b) \in Nat
    BY <1>2 DEF Keep
  <2>2. /\ Len(Append(b, e)) = Len(b) + 1 /\ Append(b, e)[Len(b) + 1] = e
        /\ \A i \in 1..Len(b) : Append(b, e)[i] = b[i]
    BY <2>1, AppendFacts
  <2> QED BY <1>2, <2>1, <2>2
<1> QED BY <1>1, <1>2

(* Taking the head off the queue brings nobody in who was not there.       *)
LEMMA TakenWasThere ==
  ASSUME NEW q \in Seq(Requests \cup {None}), q # <<>>,
         NEW b \in Seq(Requests), NEW r \in Requests,
         Holds(Tail(q), r) \/ Holds(Keep(b, Head(q)), r)
  PROVE  Holds(q, r) \/ Holds(b, r)
<1>1. /\ Head(q) = q[1] /\ Len(q) \in Nat \ {0} /\ Len(Tail(q)) = Len(q) - 1
      /\ \A i \in 1..(Len(q) - 1) : Tail(q)[i] = q[i + 1]
      /\ Head(q) \in Requests \cup {None}
  BY TakeFacts
<1>2. CASE Holds(Tail(q), r)
  <2>1. PICK i \in 1..(Len(q) - 1) : Tail(q)[i] = r
    BY <1>1, <1>2 DEF Holds
  <2>2. i + 1 \in 1..Len(q) /\ q[i + 1] = r
    BY <1>1, <2>1
  <2> QED BY <2>2 DEF Holds
<1>3. CASE Holds(Keep(b, Head(q)), r)
  <2>1. PICK i \in 1..Len(Keep(b, Head(q))) : Keep(b, Head(q))[i] = r
    BY <1>3 DEF Holds
  <2>2. (i \in 1..Len(b) /\ b[i] = r) \/ Head(q) = r
    BY <1>1, <2>1, KeepEntries
  <2>3. 1 \in 1..Len(q)
    BY <1>1
  <2> QED BY <1>1, <2>2, <2>3 DEF Holds
<1> QED BY <1>2, <1>3

(* A step that moves the head of the queue to the batch.                   *)
LEMMA TakeOrder ==
  ASSUME TypeOK, PutOnce, InLine, queue # <<>>,
         queue' = Tail(queue), batch' = Keep(batch, Head(queue)),
         UNCHANGED <<future, ticket, clock>>
  PROVE  PutOnce' /\ InLine'
<1>0. queue \in Seq(Requests \cup {None}) /\ batch \in Seq(Requests)
  BY DEF TypeOK
<1>1. /\ Head(queue) = queue[1] /\ Len(queue) \in Nat \ {0} /\ Len(queue') = Len(queue) - 1
      /\ \A i \in 1..(Len(queue) - 1) : queue'[i] = queue[i + 1]
      /\ Head(queue) \in Requests \cup {None}
  BY <1>0, TakeFacts
<1>2. \A i \in 1..Len(batch') :
        (i \in 1..Len(batch) /\ batch'[i] = batch[i]) \/ (queue[1] # None /\ batch'[i] = queue[1])
  BY <1>0, <1>1, KeepEntries
<1>3. PutOnce'
  <2> SUFFICES ASSUME NEW r \in Requests
               PROVE  ticket[r] <= clock /\ (Holds(queue', r) \/ Holds(batch', r) => future[r] # "absent")
    BY DEF PutOnce, InQueue
  <2> QED BY <1>0, TakenWasThere DEF PutOnce, InQueue
<1>4. ASSUME NEW i \in 1..Len(queue'), NEW j \in 1..Len(queue'), i < j,
             queue'[i] # None, queue'[j] # None
      PROVE  ticket[queue'[i]] < ticket[queue'[j]]
  <2>1. /\ i + 1 \in 1..Len(queue) /\ j + 1 \in 1..Len(queue) /\ i + 1 < j + 1
        /\ queue'[i] = queue[i + 1] /\ queue'[j] = queue[j + 1]
    BY <1>1, <1>4
  <2> QED BY <1>4, <2>1 DEF InLine
<1>5. ASSUME NEW i \in 1..Len(batch'), NEW j \in 1..Len(queue'), queue'[j] # None
      PROVE  ticket[batch'[i]] < ticket[queue'[j]]
  <2>1. /\ j + 1 \in 1..Len(queue) /\ 1 \in 1..Len(queue) /\ 1 < j + 1
        /\ queue'[j] = queue[j + 1]
    BY <1>1
  <2>2. CASE i \in 1..Len(batch) /\ batch'[i] = batch[i]
    BY <1>5, <2>1, <2>2 DEF InLine
  <2>3. CASE queue[1] # None /\ batch'[i] = queue[1]
    BY <1>5, <2>1, <2>3 DEF InLine
  <2> QED BY <1>2, <2>2, <2>3
<1> QED BY <1>3, <1>4, <1>5 DEF InLine

(* A new request goes to the end of the line.                              *)
LEMMA SubmitOrder ==
  ASSUME TypeOK, OrderInv, NEW r \in Requests, Submit(r)
  PROVE  OrderInv'
<1> USE DEF OrderInv
<1>0. /\ queue \in Seq(Requests \cup {None}) /\ batch \in Seq(Requests)
      /\ Len(queue) \in Nat /\ clock \in Nat /\ r # None
      /\ future \in [Requests -> FutureState] /\ ticket \in [Requests -> Nat]
  BY BatcherAssumption DEF TypeOK
<1>1. /\ future[r] = "absent" /\ future' = [future EXCEPT ![r] = "pending"]
      /\ queue' = Append(queue, r) /\ ticket' = [ticket EXCEPT ![r] = clock + 1]
      /\ clock' = clock + 1 /\ batch' = batch /\ pc' = pc /\ answer' = answer
  BY DEF Submit, threadVars
<1>2. /\ Len(queue') = Len(queue) + 1 /\ queue'[Len(queue) + 1] = r
      /\ \A i \in 1..Len(queue) : queue'[i] = queue[i]
  BY <1>0, <1>1, AppendFacts
<1>3. ~Holds(queue, r) /\ ~Holds(batch, r)
  BY <1>1 DEF PutOnce, InQueue
<1>4. \A i \in 1..Len(queue) : queue[i] # None =>
        queue[i] \in Requests \ {r} /\ ticket'[queue[i]] = ticket[queue[i]] /\ ticket[queue[i]] <= clock
  BY <1>0, <1>1, <1>3 DEF Holds, PutOnce
<1>5. \A i \in 1..Len(batch) :
        batch[i] \in Requests \ {r} /\ ticket'[batch[i]] = ticket[batch[i]] /\ ticket[batch[i]] <= clock
  BY <1>0, <1>1, <1>3 DEF Holds, PutOnce
<1>6. ticket'[r] = clock + 1
  BY <1>0, <1>1
<1>7. PutOnce'
  <2> SUFFICES ASSUME NEW s \in Requests
               PROVE  /\ ticket'[s] <= clock'
                      /\ Holds(queue', s) \/ Holds(batch, s) => future'[s] # "absent"
    BY <1>1 DEF PutOnce, InQueue
  <2>1. CASE s = r
    BY <1>0, <1>1, <1>6, <2>1
  <2>2. CASE s # r
    <3>1. ticket'[s] = ticket[s] /\ future'[s] = future[s] /\ ticket[s] <= clock /\ ticket[s] \in Nat
      BY <1>0, <1>1, <2>2 DEF PutOnce
    <3>2. Holds(queue', s) => Holds(queue, s)
      <4> SUFFICES ASSUME NEW i \in 1..Len(queue'), queue'[i] = s PROVE Holds(queue, s)
        BY DEF Holds
      <4>1. i \in 1..Len(queue) /\ queue[i] = s
        BY <1>0, <1>2, <2>2
      <4> QED BY <4>1 DEF Holds
    <3> QED BY <1>0, <1>1, <3>1, <3>2 DEF PutOnce, InQueue
  <2> QED BY <2>1, <2>2
<1>8. ASSUME NEW i \in 1..Len(queue'), NEW j \in 1..Len(queue'), i < j,
             queue'[i] # None, queue'[j] # None
      PROVE  ticket'[queue'[i]] < ticket'[queue'[j]]
  <2>1. i \in 1..Len(queue) /\ queue'[i] = queue[i]
    BY <1>0, <1>2, <1>8
  <2>2. ticket[queue[i]] \in Nat
    BY <1>0, <1>4, <1>8, <2>1
  <2>3. CASE j = Len(queue) + 1
    BY <1>0, <1>2, <1>4, <1>6, <1>8, <2>1, <2>2, <2>3
  <2>4. CASE j \in 1..Len(queue)
    BY <1>2, <1>4, <1>8, <2>1, <2>4 DEF InLine
  <2> QED BY <1>0, <1>2, <2>3, <2>4
<1>9. ASSUME NEW i \in 1..Len(batch'), NEW j \in 1..Len(queue'), queue'[j] # None
      PROVE  ticket'[batch'[i]] < ticket'[queue'[j]]
  <2>1. batch'[i] = batch[i] /\ i \in 1..Len(batch)
    BY <1>1
  <2>2. ticket[batch[i]] \in Nat
    BY <1>0, <1>5, <2>1
  <2>3. CASE j = Len(queue) + 1
    BY <1>0, <1>2, <1>5, <1>6, <2>1, <2>2, <2>3
  <2>4. CASE j \in 1..Len(queue)
    BY <1>2, <1>4, <1>5, <1>9, <2>1, <2>4 DEF InLine
  <2> QED BY <1>0, <1>2, <2>3, <2>4
<1>10. SentBatch' /\ Unanswered'
  BY <1>0, <1>1 DEF SentBatch, Unanswered
<1> QED BY <1>7, <1>8, <1>9, <1>10 DEF InLine

(* A sentinel has no place in the line.                                    *)
LEMMA ShutdownOrder ==
  ASSUME TypeOK, OrderInv, NEW c \in Closers, Shutdown(c)
  PROVE  OrderInv' /\ \A r \in Requests : InQueue(r)' <=> InQueue(r)
<1> USE DEF OrderInv
<1>0. /\ queue \in Seq(Requests \cup {None}) /\ Len(queue) \in Nat /\ None \notin Requests
  BY BatcherAssumption DEF TypeOK
<1>1. UNCHANGED <<pc, batch, future, answer, ticket, clock>>
  BY DEF Shutdown, ShutdownCheck, ShutdownSet, ShutdownPut, ShutdownJoin, threadVars, futureVars, history
<1>2. queue' = queue \/ queue' = Append(queue, None)
  BY DEF Shutdown, ShutdownCheck, ShutdownSet, ShutdownPut, ShutdownJoin
<1>3. /\ Len(queue') \in {Len(queue), Len(queue) + 1}
      /\ \A i \in 1..Len(queue) : queue'[i] = queue[i]
      /\ \A i \in 1..Len(queue') : i \in 1..Len(queue) \/ queue'[i] = None
  <2>1. CASE queue' = queue
    BY <1>0, <2>1
  <2>2. CASE queue' = Append(queue, None)
    <3>1. /\ Len(queue') = Len(queue) + 1 /\ queue'[Len(queue) + 1] = None
          /\ \A i \in 1..Len(queue) : queue'[i] = queue[i]
      BY <1>0, <2>2, AppendFacts
    <3> QED BY <1>0, <3>1
  <2> QED BY <1>2, <2>1, <2>2
<1>4. ASSUME NEW r \in Requests PROVE InQueue(r)' <=> InQueue(r)
  <2>1. r # None
    BY <1>0
  <2>2. InQueue(r) => InQueue(r)'
    <3> SUFFICES ASSUME NEW i \in 1..Len(queue), queue[i] = r PROVE InQueue(r)'
      BY DEF InQueue, Holds
    <3>1. i \in 1..Len(queue') /\ queue'[i] = r
      BY <1>0, <1>3
    <3> QED BY <3>1 DEF InQueue, Holds
  <2> QED BY <1>3, <2>1, <2>2 DEF InQueue, Holds
<1>5. PutOnce'
  BY <1>1, <1>4 DEF PutOnce, Holds
<1>6. InLine'
  BY <1>1, <1>3 DEF InLine
<1>7. SentBatch' /\ Unanswered'
  BY <1>1 DEF SentBatch, Unanswered
<1> QED BY <1>4, <1>5, <1>6, <1>7

(* A step that takes nothing from the queue, and sends back nobody to the  *)
(* state before submission.                                                *)
LEMMA OrderFrame ==
  ASSUME PutOnce, InLine, UNCHANGED <<queue, ticket, clock>>,
         batch' = batch \/ batch' = <<>>,
         \A r \in Requests : future[r] # "absent" => future'[r] # "absent"
  PROVE  PutOnce' /\ InLine'
<1>1. PutOnce'
  <2> SUFFICES ASSUME NEW r \in Requests
               PROVE  ticket[r] <= clock /\ (Holds(queue, r) \/ Holds(batch', r) => future'[r] # "absent")
    BY DEF PutOnce, InQueue
  <2>1. Holds(batch', r) => Holds(batch, r)
    BY DEF Holds
  <2> QED BY <2>1 DEF PutOnce, InQueue
<1>2. InLine'
  BY DEF InLine
<1> QED BY <1>1, <1>2

(* The thread sends what it took, in the order in which it took it.        *)
LEMMA ThreadOrder ==
  ASSUME BatcherInv, OrderInv, Thread
  PROVE  OrderInv'
<1> USE DEF OrderInv
<1>0. TypeOK /\ ThreadShape
  BY DEF BatcherInv
<1>1. CASE RunLoop \/ CollectEnd \/ Send \/ DeliverCheck \/ DeliverEnd
  <2>1. UNCHANGED <<queue, ticket, clock, future, answer>> /\ (batch' = batch \/ batch' = <<>>)
    BY <1>1 DEF RunLoop, CollectEnd, Send, DeliverCheck, DeliverEnd, futureVars, history
  <2>2. PutOnce' /\ InLine'
    BY <2>1, OrderFrame
  <2>3. SentBatch'
    BY <1>1 DEF RunLoop, CollectEnd, Send, DeliverCheck, DeliverEnd, SentBatch
  <2>4. Unanswered'
    BY <2>1 DEF Unanswered
  <2> QED BY <2>2, <2>3, <2>4
<1>2. CASE CollectFirst \/ CollectMore \/ Drain
  <2>1. UNCHANGED <<ticket, clock, future, answer>>
    BY <1>2 DEF CollectFirst, CollectMore, Drain, futureVars, history
  <2>2. CASE UNCHANGED <<queue, batch>>
    <3>1. PutOnce' /\ InLine'
      BY <2>1, <2>2, OrderFrame
    <3> QED BY <1>0, <1>2, <2>1, <2>2, <3>1
            DEF CollectFirst, CollectMore, Drain, SentBatch, Unanswered, Keep
  <2>3. CASE queue # <<>> /\ queue' = Tail(queue) /\ batch' = Keep(batch, Head(queue))
    <3>1. PutOnce' /\ InLine'
      BY <1>0, <2>1, <2>3, TakeOrder
    <3>2. Head(queue) \in Requests \cup {None} /\ batch \in Seq(Requests)
      BY <1>0, <2>3, TakeFacts DEF TypeOK
    <3>3. (batch # <<>> \/ Head(queue) # None) => batch' # <<>>
      <4>1. CASE Head(queue) = None
        BY <2>3, <4>1 DEF Keep
      <4>2. CASE Head(queue) # None
        <5>1. Len(batch') = Len(batch) + 1 /\ Len(batch) \in Nat
          BY <2>3, <3>2, <4>2, AppendFacts DEF Keep
        <5> QED BY <5>1
      <4> QED BY <4>1, <4>2
    <3>4. SentBatch'
      BY <1>2, <2>3, <3>3 DEF CollectFirst, CollectMore, Drain, SentBatch
    <3> QED BY <2>1, <3>1, <3>4 DEF Unanswered
  <2> QED BY <1>2, <2>2, <2>3 DEF CollectFirst, CollectMore, Drain
<1>3. CASE DeliverSet
  <2>1. UNCHANGED <<queue, batch, ticket, clock>> /\ pc' \in {"deliver", "dead"}
    BY <1>3 DEF DeliverSet, history
  <2>2. /\ \A r \in Requests : future[r] # "absent" => future'[r] # "absent"
        /\ Unanswered'
    <3>1. CASE UNCHANGED futureVars
      BY <3>1 DEF futureVars, Unanswered
    <3>2. CASE /\ future' = [future EXCEPT ![batch[pos]] =
                               IF verdict = "results" THEN "result" ELSE "exception"]
               /\ answer' = [answer EXCEPT ![batch[pos]] =
                               IF verdict = "results" THEN results[pos] ELSE None]
      BY <1>0, <3>2 DEF TypeOK, Unanswered
    <3> QED BY <1>3, <3>1, <3>2 DEF DeliverSet
  <2>3. PutOnce' /\ InLine'
    BY <2>1, <2>2, OrderFrame
  <2> QED BY <2>1, <2>2, <2>3 DEF SentBatch
<1> QED BY <1>1, <1>2, <1>3 DEF Thread

(* The line is kept by every step.                                         *)
LEMMA StepOrder == BatcherInv /\ OrderInv /\ [Next]_vars => OrderInv'
<1> SUFFICES ASSUME BatcherInv, OrderInv, [Next]_vars PROVE OrderInv'
  OBVIOUS
<1>0. TypeOK
  BY DEF BatcherInv
<1>1. ASSUME NEW r \in Requests, Submit(r) PROVE OrderInv'
  BY <1>0, <1>1, SubmitOrder
<1>2. ASSUME NEW r \in AsyncReqs, Cancel(r) PROVE OrderInv'
  <2>1. /\ UNCHANGED <<queue, batch, pc, ticket, clock, answer>>
        /\ future[r] = "pending" /\ future' = [future EXCEPT ![r] = "cancelled"]
    BY <1>2 DEF Cancel, threadVars, history
  <2>2. \A s \in Requests : /\ future[s] # "absent" => future'[s] # "absent"
                            /\ future'[s] # "result" => future[s] # "result"
    BY <1>0, <2>1 DEF TypeOK
  <2>3. PutOnce' /\ InLine'
    BY <2>1, <2>2, OrderFrame DEF OrderInv
  <2> QED BY <2>1, <2>2, <2>3 DEF OrderInv, SentBatch, Unanswered
<1>3. ASSUME NEW c \in Closers, Shutdown(c) PROVE OrderInv'
  BY <1>0, <1>3, ShutdownOrder
<1>4. CASE Thread
  BY <1>4, ThreadOrder
<1>5. CASE UNCHANGED vars
  <2>1. UNCHANGED <<queue, batch, pc, ticket, clock, answer, future>>
    BY <1>5 DEF vars, threadVars, futureVars, history
  <2>2. PutOnce' /\ InLine'
    BY <2>1, OrderFrame DEF OrderInv
  <2> QED BY <2>1, <2>2 DEF OrderInv, SentBatch, Unanswered
<1> QED BY <1>1, <1>2, <1>3, <1>4, <1>5 DEF Next

-----------------------------------------------------------------------------
(* The batcher implements BatchService.                                    *)

(* A request stays where it is for BatchService as long as it is still in  *)
(* the queue or in the batch being collected, or in neither.               *)
LEMMA StageKept ==
  ASSUME \A r \in Requests : (future'[r] = "absent") <=> (future[r] = "absent"),
         \A r \in Requests : (InQueue(r)' \/ Collected(r)') <=> (InQueue(r) \/ Collected(r))
  PROVE  [r \in Requests |-> Stage(r)]' = [r \in Requests |-> Stage(r)]
<1>1. \A r \in Requests : Stage(r)' = Stage(r)
  BY DEF Stage
<1> QED BY <1>1

(* For BatchService the Futures are all there is to an outcome.            *)
LEMMA OutcomeKept ==
  ASSUME future' = future
  PROVE  [r \in Requests |-> Outcome(r)]' = [r \in Requests |-> Outcome(r)]
BY DEF Outcome

(* At first nothing is accepted.                                           *)
LEMMA InitService == Init => Service!Init
<1> SUFFICES ASSUME Init PROVE Service!Init
  OBVIOUS
<1>1. \A r \in Requests : Stage(r) = "new" /\ Outcome(r) = "open"
  BY DEF Init, Stage, Outcome
<1> QED BY <1>1 DEF Init, Service!Init

(* submit_sync and submit_async accept a request.                          *)
LEMMA SubmitAccepts ==
  ASSUME BatcherInv, OrderInv, NEW r \in Requests, Submit(r)
  PROVE  Service!Accept(r)
<1>0. /\ queue \in Seq(Requests \cup {None}) /\ Len(queue) \in Nat
      /\ future \in [Requests -> FutureState] /\ ticket \in [Requests -> Nat]
  BY DEF BatcherInv, TypeOK
<1>1. /\ future[r] = "absent" /\ future' = [future EXCEPT ![r] = "pending"]
      /\ queue' = Append(queue, r) /\ ticket' = [ticket EXCEPT ![r] = clock + 1]
      /\ clock' = clock + 1 /\ batch' = batch /\ pc' = pc /\ answer' = answer
  BY DEF Submit, threadVars
<1>2. /\ Len(queue') = Len(queue) + 1 /\ queue'[Len(queue) + 1] = r
      /\ \A i \in 1..Len(queue) : queue'[i] = queue[i]
  BY <1>0, <1>1, AppendFacts
<1>3. Stage(r) = "new" /\ Stage(r)' = "waiting"
  <2>1. Len(queue) + 1 \in 1..Len(queue')
    BY <1>0, <1>2
  <2>2. InQueue(r)'
    BY <1>2, <2>1 DEF InQueue, Holds
  <2>3. future'[r] = "pending"
    BY <1>0, <1>1
  <2> QED BY <1>1, <2>2, <2>3 DEF Stage
<1>4. ASSUME NEW s \in Requests \ {r} PROVE Stage(s)' = Stage(s) /\ Outcome(s)' = Outcome(s)
  <2>1. future'[s] = future[s]
    BY <1>0, <1>1
  <2>2. InQueue(s)' <=> InQueue(s)
    <3>1. InQueue(s)' => InQueue(s)
      <4> SUFFICES ASSUME NEW i \in 1..Len(queue'), queue'[i] = s PROVE InQueue(s)
        BY DEF InQueue, Holds
      <4>1. i \in 1..Len(queue) /\ queue[i] = s
        BY <1>0, <1>2
      <4> QED BY <4>1 DEF InQueue, Holds
    <3>2. InQueue(s) => InQueue(s)'
      <4> SUFFICES ASSUME NEW i \in 1..Len(queue), queue[i] = s PROVE InQueue(s)'
        BY DEF InQueue, Holds
      <4>1. i \in 1..Len(queue') /\ queue'[i] = s
        BY <1>0, <1>2
      <4> QED BY <4>1 DEF InQueue, Holds
    <3> QED BY <3>1, <3>2
  <2>3. Collected(s)' <=> Collected(s)
    BY <1>1 DEF Collected, Unsent, Holds
  <2> QED BY <2>1, <2>2, <2>3 DEF Stage, Outcome
<1>5. Outcome(r)' = Outcome(r)
  BY <1>0, <1>1 DEF Outcome
<1>6. [s \in Requests |-> Stage(s)]' = [[s \in Requests |-> Stage(s)] EXCEPT ![r] = "waiting"]
  BY <1>3, <1>4
<1>7. [s \in Requests |-> Outcome(s)]' = [s \in Requests |-> Outcome(s)]
  BY <1>4, <1>5
<1> QED BY <1>1, <1>3, <1>6, <1>7 DEF Service!Accept

(* Cancelling the task of submit_async gives a request up.                 *)
LEMMA CancelGivesUp ==
  ASSUME BatcherInv, NEW r \in Requests, Cancel(r)
  PROVE  Service!GiveUp(r)
<1>0. future \in [Requests -> FutureState]
  BY DEF BatcherInv, TypeOK
<1>1. /\ UNCHANGED <<queue, batch, pc, ticket, clock, answer>>
      /\ future[r] = "pending" /\ future' = [future EXCEPT ![r] = "cancelled"]
  BY DEF Cancel, threadVars, history
<1>2. [s \in Requests |-> Stage(s)]' = [s \in Requests |-> Stage(s)]
  <2>1. \A s \in Requests : (future'[s] = "absent") <=> (future[s] = "absent")
    BY <1>0, <1>1
  <2>2. \A s \in Requests : (InQueue(s)' \/ Collected(s)') <=> (InQueue(s) \/ Collected(s))
    BY <1>1 DEF InQueue, Collected, Unsent, Holds
  <2> QED BY <2>1, <2>2, StageKept
<1>3. Stage(r) # "new" /\ Outcome(r) = "open"
  BY <1>1 DEF Stage, Outcome
<1>4. [s \in Requests |-> Outcome(s)]' = [[s \in Requests |-> Outcome(s)] EXCEPT ![r] = "given_up"]
  <2>1. Outcome(r)' = "given_up"
    BY <1>0, <1>1 DEF Outcome
  <2>2. \A s \in Requests \ {r} : Outcome(s)' = Outcome(s)
    BY <1>0, <1>1 DEF Outcome
  <2> QED BY <2>1, <2>2
<1> QED BY <1>1, <1>2, <1>3, <1>4 DEF Service!GiveUp

(* The call of batch_fn dispatches the batch: nobody who was submitted     *)
(* earlier is left behind on the queue.                                    *)
LEMMA SendDispatches ==
  ASSUME BatcherInv, OrderInv, Send
  PROVE  \E S \in SUBSET Service!Waiting : Service!Dispatch(S)
<1> DEFINE S == {r \in Requests : Holds(batch, r)}
<1>0. /\ queue \in Seq(Requests \cup {None}) /\ batch \in Seq(Requests) /\ None \notin Requests
      /\ ticket \in [Requests -> Nat]
  BY BatcherAssumption DEF BatcherInv, TypeOK
<1>1. /\ UNCHANGED <<queue, batch, future, answer, ticket, clock>>
      /\ pc = "send" /\ pc' = "deliver"
  BY DEF Send, futureVars, history
<1>2. \A r \in Requests : Collected(r) <=> r \in S
  BY <1>1 DEF Collected, Unsent
<1>3. \A r \in Requests : ~Collected(r)'
  BY <1>1 DEF Collected, Unsent
<1>4. \A r \in S, w \in Requests : InQueue(w) => ticket[r] < ticket[w]
  <2> SUFFICES ASSUME NEW r \in S, NEW w \in Requests, InQueue(w) PROVE ticket[r] < ticket[w]
    OBVIOUS
  <2>1. PICK i \in 1..Len(batch) : batch[i] = r
    BY DEF Holds
  <2>2. PICK j \in 1..Len(queue) : queue[j] = w
    BY DEF InQueue, Holds
  <2>3. queue[j] # None
    BY <1>0, <2>2
  <2> QED BY <2>1, <2>2, <2>3 DEF OrderInv, InLine
<1>5. \A r \in S : ~InQueue(r)
  <2> SUFFICES ASSUME NEW r \in S, InQueue(r) PROVE FALSE
    OBVIOUS
  <2>1. ticket[r] < ticket[r] /\ ticket[r] \in Nat
    BY <1>0, <1>4
  <2> QED BY <2>1
<1>6. \A r \in S : future[r] # "absent"
  BY DEF OrderInv, PutOnce
<1>7. S # {}
  <2>1. 1 \in 1..Len(batch) /\ batch[1] \in Requests
    BY <1>0, <1>1 DEF OrderInv, SentBatch
  <2>2. batch[1] \in S
    BY <2>1 DEF Holds
  <2> QED BY <2>2
<1>8. \A r \in Requests : Stage(r)' = IF r \in S THEN "dispatched" ELSE Stage(r)
  <2>1. \A r \in Requests : InQueue(r)' <=> InQueue(r)
    BY <1>1 DEF InQueue, Holds
  <2> QED BY <1>1, <1>2, <1>3, <1>5, <1>6, <2>1 DEF Stage
<1>9. Service!Waiting = {r \in Requests : Stage(r) = "waiting"}
  BY DEF Service!Waiting
<1>10. S \in SUBSET Service!Waiting
  BY <1>2, <1>6, <1>9 DEF Stage
<1>11. \A r \in S, w \in Service!Waiting \ S : ticket[r] < ticket[w]
  <2>1. \A w \in Service!Waiting \ S : w \in Requests /\ InQueue(w)
    BY <1>2, <1>9 DEF Stage
  <2> QED BY <1>4, <2>1
<1>12. [r \in Requests |-> Stage(r)]' =
         [r \in Requests |-> IF r \in S THEN "dispatched" ELSE [q \in Requests |-> Stage(q)][r]]
  BY <1>8
<1>13. [r \in Requests |-> Outcome(r)]' = [r \in Requests |-> Outcome(r)]
  BY <1>1, OutcomeKept
<1> HIDE DEF S
<1>14. Service!Dispatch(S)
  BY <1>1, <1>7, <1>11, <1>12, <1>13 DEF Service!Dispatch
<1> QED BY <1>10, <1>14

(* set_result and set_exception resolve a request that was dispatched; if  *)
(* they raise, nothing happens for BatchService.                           *)
LEMMA DeliverResolves ==
  ASSUME BatcherInv, OrderInv, DeliverSet
  PROVE  (\E r \in Requests : Service!Resolve(r)) \/ UNCHANGED Service!vars
<1>0. /\ queue \in Seq(Requests \cup {None}) /\ batch \in Seq(Requests) /\ None \notin Requests
      /\ ticket \in [Requests -> Nat] /\ future \in [Requests -> FutureState]
      /\ answer \in [Requests -> Requests \cup {None}]
  BY BatcherAssumption DEF BatcherInv, TypeOK
<1>1. /\ UNCHANGED <<queue, batch, ticket, clock>> /\ pc = "set" /\ pc' \in {"deliver", "dead"}
      /\ pos \in 1..Len(batch) /\ batch[pos] \in Requests
  BY <1>0 DEF DeliverSet, history, BatcherInv, ThreadShape, TypeOK
<1>r. PICK r \in Requests : r = batch[pos]
  BY <1>1
<1>2. \A s \in Requests : (InQueue(s)' \/ Collected(s)') <=> (InQueue(s) \/ Collected(s))
  BY <1>1 DEF InQueue, Collected, Unsent, Holds
<1>3. CASE Done(r)
  <2>1. UNCHANGED <<future, answer>>
    BY <1>r, <1>3 DEF DeliverSet, futureVars
  <2>2. [s \in Requests |-> Stage(s)]' = [s \in Requests |-> Stage(s)]
    BY <1>2, <2>1, StageKept
  <2>3. [s \in Requests |-> Outcome(s)]' = [s \in Requests |-> Outcome(s)]
    BY <2>1, OutcomeKept
  <2> QED BY <1>1, <2>1, <2>2, <2>3 DEF Service!vars
<1>4. CASE ~Done(r)
  <2>1. /\ future' = [future EXCEPT ![r] =
                        IF verdict = "results" THEN "result" ELSE "exception"]
        /\ answer' = [answer EXCEPT ![r] =
                        IF verdict = "results" THEN results[pos] ELSE None]
    BY <1>r, <1>4 DEF DeliverSet
  <2>2. verdict = "results" => results[pos] = r
    BY <1>1, <1>r DEF BatcherInv, ThreadShape
  <2>3. future[r] = "pending" /\ answer[r] = None
    <3>1. Holds(batch, r)
      BY <1>1, <1>r DEF Holds
    <3>2. future[r] # "absent"
      BY <1>1, <3>1 DEF OrderInv, PutOnce
    <3>3. future[r] = "pending"
      BY <1>0, <1>1, <1>4, <3>2 DEF Done, FutureState
    <3> QED BY <1>1, <3>3 DEF OrderInv, Unanswered
  <2>4. Stage(r) = "dispatched" /\ Outcome(r) = "open"
    <3>1. ~InQueue(r)
      <4> SUFFICES ASSUME NEW j \in 1..Len(queue), queue[j] = r PROVE FALSE
        BY DEF InQueue, Holds
      <4>1. ticket[r] < ticket[r] /\ ticket[r] \in Nat
        BY <1>0, <1>1, <1>r DEF OrderInv, InLine
      <4> QED BY <4>1
    <3>2. ~Collected(r)
      BY <1>1 DEF Collected, Unsent
    <3> QED BY <2>3, <3>1, <3>2 DEF Stage, Outcome
  <2>5. [s \in Requests |-> Stage(s)]' = [s \in Requests |-> Stage(s)]
    <3>1. \A s \in Requests : (future'[s] = "absent") <=> (future[s] = "absent")
      BY <1>0, <1>1, <2>1, <2>3
    <3> QED BY <1>2, <3>1, StageKept
  <2>6. \A s \in Requests \ {r} : Outcome(s)' = Outcome(s)
    BY <1>0, <2>1 DEF Outcome
  <2>7. CASE verdict = "results"
    <3>1. Outcome(r)' = "answered"
      BY <1>0, <1>1, <2>1, <2>7 DEF Outcome
    <3>2. [s \in Requests |-> Outcome(s)]' =
            [[s \in Requests |-> Outcome(s)] EXCEPT ![r] = "answered"]
      BY <2>6, <3>1
    <3>3. answer' = [answer EXCEPT ![r] = r]
      BY <2>1, <2>2, <2>7
    <3>4. Service!Resolve(r)
      BY <1>1, <2>4, <2>5, <3>2, <3>3 DEF Service!Resolve
    <3> QED BY <1>1, <3>4
  <2>8. CASE verdict # "results"
    <3>1. Outcome(r)' = "failed"
      BY <1>0, <1>1, <2>1, <2>8 DEF Outcome
    <3>2. [s \in Requests |-> Outcome(s)]' =
            [[s \in Requests |-> Outcome(s)] EXCEPT ![r] = "failed"]
      BY <2>6, <3>1
    <3>3. answer' = answer
      BY <1>0, <2>1, <2>3, <2>8
    <3>4. Service!Resolve(r)
      BY <1>1, <2>4, <2>5, <3>2, <3>3 DEF Service!Resolve
    <3> QED BY <1>1, <3>4
  <2> QED BY <2>7, <2>8
<1> QED BY <1>3, <1>4

(* Collecting, draining, testing and ending a batch are not seen.          *)
LEMMA ThreadUnseen ==
  ASSUME BatcherInv, BatcherInv',
         RunLoop \/ CollectFirst \/ CollectMore \/ CollectEnd \/ Drain \/ DeliverCheck \/ DeliverEnd
  PROVE  UNCHANGED Service!vars
<1>0. queue \in Seq(Requests \cup {None}) /\ batch \in Seq(Requests)
  BY DEF BatcherInv, TypeOK
<1>1. UNCHANGED <<future, answer, ticket, clock>>
  BY DEF RunLoop, CollectFirst, CollectMore, CollectEnd, Drain, DeliverCheck, DeliverEnd,
         futureVars, history
<1>2. \A r \in Requests : (InQueue(r)' \/ Collected(r)') <=> (InQueue(r) \/ Collected(r))
  <2>1. CASE DeliverCheck \/ DeliverEnd
    BY <2>1 DEF DeliverCheck, DeliverEnd, InQueue, Collected, Unsent
  <2>2. CASE RunLoop \/ CollectFirst \/ CollectMore \/ CollectEnd \/ Drain
    <3> SUFFICES ASSUME NEW r \in Requests
                 PROVE  (InQueue(r)' \/ Collected(r)') <=> (InQueue(r) \/ Collected(r))
      OBVIOUS
    <3>1. pc \in {"loop", "get", "collect", "drain"} /\ pc' \in {"loop", "get", "collect", "drain", "send", "exit"}
      BY <2>2 DEF RunLoop, CollectFirst, CollectMore, CollectEnd, Drain
    <3>2. Collected(r) <=> Holds(batch, r)
      BY <3>1 DEF BatcherInv, ThreadShape, Collected, Unsent, Holds
    <3>3. Collected(r)' <=> Holds(batch', r)
      BY <3>1 DEF BatcherInv, ThreadShape, Collected, Unsent, Holds
    <3>4. CASE UNCHANGED <<queue, batch>>
      BY <3>2, <3>3, <3>4 DEF InQueue
    <3>5. CASE queue # <<>> /\ queue' = Tail(queue) /\ batch' = Keep(batch, Head(queue))
      BY <1>0, <3>2, <3>3, <3>5, TakenIsKept, TakenWasThere DEF InQueue
    <3> QED BY <2>2, <3>4, <3>5 DEF RunLoop, CollectFirst, CollectMore, CollectEnd, Drain
  <2> QED BY <2>1, <2>2
<1>3. [r \in Requests |-> Stage(r)]' = [r \in Requests |-> Stage(r)]
  BY <1>1, <1>2, StageKept
<1>4. [r \in Requests |-> Outcome(r)]' = [r \in Requests |-> Outcome(r)]
  BY <1>1, OutcomeKept
<1> QED BY <1>1, <1>3, <1>4 DEF Service!vars

(* shutdown() is not seen either.                                          *)
LEMMA ShutdownUnseen ==
  ASSUME BatcherInv, OrderInv, NEW c \in Closers, Shutdown(c)
  PROVE  UNCHANGED Service!vars
<1>1. UNCHANGED <<pc, batch, future, answer, ticket, clock>>
  BY DEF Shutdown, ShutdownCheck, ShutdownSet, ShutdownPut, ShutdownJoin, threadVars, futureVars, history
<1>2. \A r \in Requests : (InQueue(r)' \/ Collected(r)') <=> (InQueue(r) \/ Collected(r))
  <2>1. \A r \in Requests : InQueue(r)' <=> InQueue(r)
    BY ShutdownOrder DEF BatcherInv
  <2> QED BY <1>1, <2>1 DEF Collected, Unsent, Holds
<1>3. [r \in Requests |-> Stage(r)]' = [r \in Requests |-> Stage(r)]
  BY <1>1, <1>2, StageKept
<1>4. [r \in Requests |-> Outcome(r)]' = [r \in Requests |-> Outcome(r)]
  BY <1>1, OutcomeKept
<1> QED BY <1>1, <1>3, <1>4 DEF Service!vars

(* Every step of the batcher is one of BatchService, or is not seen.       *)
LEMMA StepService ==
  BatcherInv /\ BatcherInv' /\ OrderInv /\ [Next]_vars => [Service!Next]_(Service!vars)
<1> SUFFICES ASSUME BatcherInv, BatcherInv', OrderInv, [Next]_vars
             PROVE  Service!Next \/ UNCHANGED Service!vars
  OBVIOUS
<1>1. ASSUME NEW r \in Requests, Submit(r) PROVE Service!Next
  BY <1>1, SubmitAccepts DEF Service!Next
<1>2. ASSUME NEW r \in AsyncReqs, Cancel(r) PROVE Service!Next
  <2>1. r \in Requests
    BY BatcherAssumption
  <2> QED BY <1>2, <2>1, CancelGivesUp DEF Service!Next
<1>3. ASSUME NEW c \in Closers, Shutdown(c) PROVE UNCHANGED Service!vars
  BY <1>3, ShutdownUnseen
<1>4. CASE Thread
  <2>1. CASE Send
    BY <2>1, SendDispatches DEF Service!Next
  <2>2. CASE DeliverSet
    BY <2>2, DeliverResolves DEF Service!Next
  <2>3. CASE ~(Send \/ DeliverSet)
    BY <1>4, <2>3, ThreadUnseen DEF Thread
  <2> QED BY <2>1, <2>2, <2>3
<1>5. CASE UNCHANGED vars
  <2>1. UNCHANGED <<queue, batch, pc, ticket, clock, answer, future>>
    BY <1>5 DEF vars, threadVars, futureVars, history
  <2>2. [r \in Requests |-> Stage(r)]' = [r \in Requests |-> Stage(r)]
    BY <2>1 DEF Stage, InQueue, Collected, Unsent, Holds
  <2>3. [r \in Requests |-> Outcome(r)]' = [r \in Requests |-> Outcome(r)]
    BY <2>1, OutcomeKept
  <2> QED BY <2>1, <2>2, <2>3 DEF Service!vars
<1> QED BY <1>1, <1>2, <1>3, <1>4, <1>5 DEF Next

(* The batcher implements BatchService: for any callers, shutdowns, batch  *)
(* sizes, failures and cancellations, requests are dispatched in the order *)
(* in which they were submitted and at most once, and resolved once, after *)
(* that, with the response to their own payload or with an error.          *)
THEOREM Implements == Spec => ImplementsService
<1>1. Init => BatcherInv /\ OrderInv
  <2>1. Init => OrderInv
    BY DEF Init, OrderInv, PutOnce, InLine, SentBatch, Unanswered, InQueue, Holds
  <2> QED BY <2>1, InitInv
<1>2. (BatcherInv /\ OrderInv) /\ [Next]_vars => (BatcherInv /\ OrderInv)'
  BY StepInv, StepOrder
<1>3. BatcherInv /\ BatcherInv' /\ OrderInv /\ [Next]_vars => [Service!Next]_(Service!vars)
  BY StepService
<1> QED BY <1>1, <1>2, <1>3, InitService, PTL DEF Spec, ImplementsService, Service!Spec

-----------------------------------------------------------------------------
(* BatchedClients, for any number of clients, calls and batchers.          *)
(* OneRunningBatcher and BreaksOnlyOnOwnClose are not inductive alone: the *)
(* first needs _global_lock to be a lock and the instance that is being    *)
(* joined to be a stopped one, the second needs to know which clients may  *)
(* have lost their batcher while a call has already tested for it.         *)

(* _global_lock is held by whoever is inside one of its two with-blocks.   *)
LockHeld ==
  \A c \in Clients : cpc[c] \in {"locked", "shutting", "join"} => lock = c

(* The global is an instance that was created.                             *)
GlobalCreated == global # NoBatcher => global <= created

(* shutdown_batcher waits for a global that was told to stop.              *)
JoinsStopped ==
  \A c \in Clients : cpc[c] = "join" => global # NoBatcher /\ stopEvent[global]

(* Calls are made on constructed clients.                                  *)
CallsFollowConstruction ==
  \A k \in Calls : call[k] # "idle" => Constructed(Owner[k])

(* A call that found a batcher still has it, or its client was closed.     *)
RoutedHasBatcher ==
  \A k \in Calls :
    call[k] = "submit" =>
      \/ batcher[Owner[k]] # NoBatcher
      \/ cpc[Owner[k]] \in {"mark", "closed"}

(* The inductive invariant.                                                *)
SingletonInv == OneRunningBatcher /\ LockHeld /\ GlobalCreated /\ JoinsStopped

CallInv == CallsFollowConstruction /\ RoutedHasBatcher /\ BreaksOnlyOnOwnClose

-----------------------------------------------------------------------------
(* Before any client is constructed there is neither batcher nor call.     *)
LEMMA ClientsInitInv == ClientsInit => SingletonInv /\ CallInv
<1> SUFFICES ASSUME ClientsInit PROVE SingletonInv /\ CallInv
  OBVIOUS
<1>1. ClientsTypeOK
  BY ClientsAssumption DEF ClientsInit, ClientsTypeOK, Batchers
<1>2. OneRunningBatcher /\ LockHeld /\ GlobalCreated /\ JoinsStopped
  BY <1>1 DEF ClientsInit, OneRunningBatcher, LockHeld, GlobalCreated, JoinsStopped
<1>3. CallsFollowConstruction /\ RoutedHasBatcher /\ BreaksOnlyOnOwnClose
  BY DEF ClientsInit, CallsFollowConstruction, RoutedHasBatcher, BreaksOnlyOnOwnClose
<1> QED BY <1>2, <1>3 DEF SingletonInv, CallInv

-----------------------------------------------------------------------------
(* Every step keeps the types.                                             *)

(* A client's step assigns values of the declared types.                   *)
LEMMA ClientStepType ==
  ASSUME ClientsTypeOK, GlobalCreated, NEW c \in Clients, ClientStep(c)
  PROVE  ClientsTypeOK'
<1> USE DEF ClientsTypeOK, Goto, globalVars, instVars, clientVars, callVars
<1>1. CASE GetTest(c)  BY <1>1 DEF GetTest
<1>2. CASE GetFast(c)  BY <1>2 DEF GetFast
<1>3. CASE GetLock(c)  BY <1>3 DEF GetLock
<1>4. CASE GetCreate(c)
  <2>1. global' \in Batchers \cup {NoBatcher} /\ created' \in 0..MaxBatchers
    BY <1>4, ClientsAssumption DEF GetCreate, Batchers
  <2> QED BY <1>4, <2>1 DEF GetCreate
<1>5. CASE CloseTest(c)  BY <1>5 DEF CloseTest
<1>6. CASE CloseLock(c)  BY <1>6 DEF CloseLock
<1>7. CASE CloseShutdown(c)  BY <1>7 DEF CloseShutdown
<1>8. CASE CloseClear(c)  BY <1>8 DEF CloseClear
<1>9. CASE CloseUnref(c)  BY <1>9 DEF CloseUnref
<1>10. CASE CloseMark(c)  BY <1>10 DEF CloseMark
<1>11. CASE AClose(c)  BY <1>11 DEF AClose
<1> QED
  BY <1>1, <1>2, <1>3, <1>4, <1>5, <1>6, <1>7, <1>8, <1>9, <1>10, <1>11
  DEF ClientStep

(* A call's step assigns values of the declared types, and touches neither *)
(* the global batcher nor any client.                                      *)
LEMMA CallStepType ==
  ASSUME ClientsTypeOK, NEW k \in Calls, Prepare(k) \/ CallStep(k)
  PROVE  ClientsTypeOK' /\ UNCHANGED <<global, lock, created, stopEvent, ended, cpc, batcher, closed>>
<1> USE ClientsAssumption DEF ClientsTypeOK, globalVars, instVars, clientVars, callVars
<1>1. CASE Prepare(k)  BY <1>1 DEF Prepare
<1>2. CASE Route(k)  BY <1>2 DEF Route
<1>3. CASE DirectSend(k)  BY <1>3 DEF DirectSend
<1>4. CASE SubmitCall(k)  BY <1>4 DEF SubmitCall
<1> QED BY <1>1, <1>2, <1>3, <1>4 DEF CallStep

(* So does a step of a batcher's thread, which only returns calls that     *)
(* wait or ends.                                                           *)
LEMMA ThreadStepType ==
  ASSUME ClientsTypeOK, NEW b \in Batchers, ThreadStep(b)
  PROVE  /\ ClientsTypeOK'
         /\ UNCHANGED <<global, lock, created, stopEvent, cpc, batcher, closed>>
         /\ \A k \in Calls : call'[k] = call[k] \/ (call[k] = "waiting" /\ call'[k] = "returned")
<1> USE DEF ClientsTypeOK, globalVars, instVars, clientVars, callVars
<1>1. CASE Serve(b)  BY <1>1 DEF Serve, Queued
<1>2. CASE EndThread(b)  BY <1>2 DEF EndThread
<1> QED BY <1>1, <1>2 DEF ThreadStep

-----------------------------------------------------------------------------
(* The singleton.                                                          *)

(* A step that leaves the global, the lock, the instances and the clients' *)
(* program counters alone keeps the singleton.                             *)
LEMMA SingletonFrame ==
  ASSUME SingletonInv, ClientsTypeOK',
         UNCHANGED <<global, lock, created, stopEvent>>,
         \A c \in Clients :
           cpc'[c] \in {"locked", "shutting", "join"} => cpc'[c] = cpc[c]
  PROVE  SingletonInv'
  BY DEF SingletonInv, OneRunningBatcher, LockHeld, GlobalCreated, JoinsStopped

(* The lock excludes: if one client is inside a with-block nobody else is. *)
LEMMA Exclusion ==
  ASSUME LockHeld, NEW c \in Clients, NEW d \in Clients, c # d,
         cpc[c] \in {"locked", "shutting", "join"}
  PROVE  cpc[d] \notin {"locked", "shutting", "join"}
  BY DEF LockHeld

(* Every step of a constructor or of close() keeps the singleton.          *)
LEMMA ClientStepSingleton ==
  ASSUME SingletonInv, NEW c \in Clients, ClientStep(c)
  PROVE  SingletonInv'
<1> DEFINE Held == {"locked", "shutting", "join"}
<1>0. /\ ClientsTypeOK /\ LockHeld /\ GlobalCreated /\ JoinsStopped
      /\ \A b \in 1..created : ~stopEvent[b] => global = b
  BY DEF SingletonInv, OneRunningBatcher
<1>t. ClientsTypeOK'
  BY <1>0, ClientStepType
<1>n. NoBatcher \notin Clients /\ NoBatcher \notin Int
  BY ClientsAssumption
<1> USE DEF Goto, globalVars, instVars, clientVars, callVars
<1>1. CASE GetTest(c)
  <2>1. \A d \in Clients : cpc'[d] \in Held => cpc'[d] = cpc[d]
    BY <1>0, <1>1 DEF ClientsTypeOK, GetTest
  <2> QED BY <1>1, <1>t, <2>1, SingletonFrame DEF GetTest
<1>2. CASE GetFast(c)
  <2>1. \A d \in Clients : cpc'[d] \in Held => cpc'[d] = cpc[d]
    BY <1>0, <1>2 DEF ClientsTypeOK, GetFast
  <2> QED BY <1>2, <1>t, <2>1, SingletonFrame DEF GetFast
<1>3. CASE GetLock(c)
  <2>1. \A d \in Clients : cpc[d] \notin Held
    BY <1>0, <1>3, <1>n DEF LockHeld, GetLock
  <2>2. LockHeld'
    BY <1>0, <1>3, <2>1 DEF LockHeld, ClientsTypeOK, GetLock
  <2>3. JoinsStopped'
    BY <1>0, <1>3, <2>1 DEF JoinsStopped, ClientsTypeOK, GetLock
  <2> QED
    BY <1>0, <1>3, <1>t, <2>2, <2>3
    DEF SingletonInv, OneRunningBatcher, GlobalCreated, GetLock
<1>4. CASE GetCreate(c)
  <2>1. \A d \in Clients \ {c} : cpc[d] \notin Held
    BY <1>0, <1>4, Exclusion DEF GetCreate
  <2>2. \A d \in Clients : cpc'[d] \notin Held
    BY <1>0, <1>4, <2>1 DEF ClientsTypeOK, GetCreate
  <2>3. LockHeld' /\ JoinsStopped'
    BY <2>2 DEF LockHeld, JoinsStopped
  <2>4. GlobalCreated' /\ \A b \in 1..created' : ~stopEvent'[b] => global' = b
    <3>1. CASE global # NoBatcher
      BY <1>0, <1>4, <3>1 DEF GetCreate, GlobalCreated
    <3>2. CASE global = NoBatcher
      <4>1. \A b \in 1..created : stopEvent[b]
        BY <1>0, <1>n, <3>2
      <4>2. created' = created + 1 /\ global' = created + 1 /\ stopEvent' = stopEvent
        BY <1>4, <3>2 DEF GetCreate
      <4>3. created \in Nat
        BY <1>0, ClientsAssumption DEF ClientsTypeOK
      <4> QED BY <4>1, <4>2, <4>3 DEF GlobalCreated
    <3> QED BY <3>1, <3>2
  <2> QED BY <1>t, <2>3, <2>4 DEF SingletonInv, OneRunningBatcher
<1>5. CASE CloseTest(c)
  <2>1. \A d \in Clients : cpc'[d] \in Held => cpc'[d] = cpc[d]
    BY <1>0, <1>5 DEF ClientsTypeOK, CloseTest
  <2> QED BY <1>5, <1>t, <2>1, SingletonFrame DEF CloseTest
<1>6. CASE CloseLock(c)
  <2>1. \A d \in Clients : cpc[d] \notin Held
    BY <1>0, <1>6, <1>n DEF LockHeld, CloseLock
  <2>2. LockHeld'
    BY <1>0, <1>6, <2>1 DEF LockHeld, ClientsTypeOK, CloseLock
  <2>3. JoinsStopped'
    BY <1>0, <1>6, <2>1 DEF JoinsStopped, ClientsTypeOK, CloseLock
  <2> QED
    BY <1>0, <1>6, <1>t, <2>2, <2>3
    DEF SingletonInv, OneRunningBatcher, GlobalCreated, CloseLock
<1>7. CASE CloseShutdown(c)
  <2>1. \A d \in Clients \ {c} : cpc[d] \notin Held
    BY <1>0, <1>7, Exclusion DEF CloseShutdown
  <2>2. CASE global # NoBatcher
    <3>1. /\ stopEvent' = [stopEvent EXCEPT ![global] = TRUE] /\ cpc' = [cpc EXCEPT ![c] = "join"]
          /\ UNCHANGED <<global, lock, created>>
      BY <1>7, <2>2 DEF CloseShutdown
    <3>2. stopEvent'[global] /\ \A b \in 1..created : stopEvent[b] => stopEvent'[b]
      BY <1>0, <2>2, <3>1, ClientsAssumption DEF ClientsTypeOK, Batchers
    <3>3. lock = c
      BY <1>0, <1>7 DEF LockHeld, CloseShutdown
    <3>4. LockHeld' /\ JoinsStopped'
      BY <1>0, <2>1, <2>2, <3>1, <3>2, <3>3 DEF LockHeld, JoinsStopped, ClientsTypeOK
    <3> QED
      BY <1>0, <1>t, <3>1, <3>2, <3>4 DEF SingletonInv, OneRunningBatcher, GlobalCreated
  <2>3. CASE global = NoBatcher
    <3>1. /\ cpc' = [cpc EXCEPT ![c] = "unref"] /\ UNCHANGED <<global, created, stopEvent>>
      BY <1>7, <2>3 DEF CloseShutdown
    <3>2. \A d \in Clients : cpc'[d] \notin Held
      BY <1>0, <2>1, <3>1 DEF ClientsTypeOK
    <3> QED
      BY <1>0, <1>t, <3>1, <3>2
      DEF SingletonInv, OneRunningBatcher, GlobalCreated, LockHeld, JoinsStopped
  <2> QED BY <2>2, <2>3
<1>8. CASE CloseClear(c)
  <2>1. \A d \in Clients \ {c} : cpc[d] \notin Held
    BY <1>0, <1>8, Exclusion DEF CloseClear
  <2>2. \A d \in Clients : cpc'[d] \notin Held
    BY <1>0, <1>8, <2>1 DEF ClientsTypeOK, CloseClear
  <2>3. stopEvent[global]
    BY <1>0, <1>8 DEF JoinsStopped, CloseClear
  <2>4. \A b \in 1..created : stopEvent[b]
    BY <1>0, <2>3
  <2> QED
    BY <1>8, <1>t, <2>2, <2>4
    DEF SingletonInv, OneRunningBatcher, GlobalCreated, LockHeld, JoinsStopped, CloseClear
<1>9. CASE CloseUnref(c)
  <2>1. \A d \in Clients : cpc'[d] \in Held => cpc'[d] = cpc[d]
    BY <1>0, <1>9 DEF ClientsTypeOK, CloseUnref
  <2> QED BY <1>9, <1>t, <2>1, SingletonFrame DEF CloseUnref
<1>10. CASE CloseMark(c)
  <2>1. \A d \in Clients : cpc'[d] \in Held => cpc'[d] = cpc[d]
    BY <1>0, <1>10 DEF ClientsTypeOK, CloseMark
  <2> QED BY <1>10, <1>t, <2>1, SingletonFrame DEF CloseMark
<1>11. CASE AClose(c)
  BY <1>11, <1>t, SingletonFrame DEF AClose
<1> QED
  BY <1>1, <1>2, <1>3, <1>4, <1>5, <1>6, <1>7, <1>8, <1>9, <1>10, <1>11
  DEF ClientStep

-----------------------------------------------------------------------------
(* The calls.                                                              *)

(* A constructor or a close() breaks no call of another client, and none   *)
(* of its own before the batcher is let go.                                *)
LEMMA ClientStepCalls ==
  ASSUME ClientsTypeOK, CallInv, NEW c \in Clients, ClientStep(c)
  PROVE  CallInv'
<1> DEFINE Before == {"new", "fast", "slow", "locked"}
           Gone == {"mark", "closed"}
<1>0. CallsFollowConstruction /\ RoutedHasBatcher /\ BreaksOnlyOnOwnClose
  BY DEF CallInv
<1>1. /\ call' = call
      /\ \A d \in Clients \ {c} : cpc'[d] = cpc[d] /\ batcher'[d] = batcher[d]
  BY DEF ClientsTypeOK, ClientStep, Goto, GetTest, GetFast, GetLock, GetCreate, CloseTest,
         CloseLock, CloseShutdown, CloseClear, CloseUnref, CloseMark, AClose,
         callVars, instVars, globalVars
<1>2. /\ cpc[c] \notin Before => cpc'[c] \notin Before
      /\ cpc[c] \in Gone => cpc'[c] \in Gone
      /\ cpc[c] \in Before \/ batcher'[c] = batcher[c] \/ cpc'[c] \in Gone
  BY DEF ClientsTypeOK, ClientStep, Goto, GetTest, GetFast, GetLock, GetCreate, CloseTest,
         CloseLock, CloseShutdown, CloseClear, CloseUnref, CloseMark, AClose,
         callVars, instVars, globalVars
<1>3. \A k \in Calls : Owner[k] \in Clients
  BY ClientsAssumption
<1>4. CallsFollowConstruction'
  BY <1>0, <1>1, <1>2, <1>3 DEF CallsFollowConstruction, Constructed
<1>5. RoutedHasBatcher'
  BY <1>0, <1>1, <1>2, <1>3 DEF CallsFollowConstruction, RoutedHasBatcher, Constructed
<1>6. BreaksOnlyOnOwnClose'
  BY <1>0, <1>1, <1>2, <1>3 DEF BreaksOnlyOnOwnClose
<1> QED BY <1>4, <1>5, <1>6 DEF CallInv

(* A call submits to None only if its client let the batcher go after the  *)
(* call had tested for it.                                                 *)
LEMMA CallStepCalls ==
  ASSUME ClientsTypeOK, CallInv, NEW k \in Calls, Prepare(k) \/ CallStep(k)
  PROVE  CallInv'
<1>0. CallsFollowConstruction /\ RoutedHasBatcher /\ BreaksOnlyOnOwnClose
  BY DEF CallInv
<1>1. UNCHANGED <<cpc, batcher>>
  BY CallStepType
<1>2. \A j \in Calls \ {k} : call'[j] = call[j]
  BY DEF ClientsTypeOK, Prepare, CallStep, Route, DirectSend, SubmitCall
<1>3. Constructed(Owner[k])
  BY <1>0 DEF CallsFollowConstruction, Prepare, CallStep, Route, DirectSend, SubmitCall
<1>4. call'[k] = "submit" => batcher[Owner[k]] # NoBatcher
  BY DEF ClientsTypeOK, Prepare, CallStep, Route, DirectSend, SubmitCall
<1>5. call'[k] = "attribute_error" => call[k] = "submit" /\ batcher[Owner[k]] = NoBatcher
  BY DEF ClientsTypeOK, Prepare, CallStep, Route, DirectSend, SubmitCall
<1>6. CallsFollowConstruction'
  BY <1>0, <1>1, <1>2, <1>3 DEF CallsFollowConstruction, Constructed
<1>7. RoutedHasBatcher'
  BY <1>0, <1>1, <1>2, <1>4 DEF RoutedHasBatcher
<1>8. BreaksOnlyOnOwnClose'
  BY <1>0, <1>1, <1>2, <1>5 DEF BreaksOnlyOnOwnClose, RoutedHasBatcher
<1> QED BY <1>6, <1>7, <1>8 DEF CallInv

(* A batcher's thread breaks no call.                                      *)
LEMMA ThreadStepCalls ==
  ASSUME ClientsTypeOK, CallInv, NEW b \in Batchers, ThreadStep(b)
  PROVE  CallInv'
<1>1. /\ UNCHANGED <<cpc, batcher>>
      /\ \A k \in Calls : call'[k] = call[k] \/ (call[k] = "waiting" /\ call'[k] = "returned")
  BY ThreadStepType
<1> QED
  BY <1>1 DEF CallInv, CallsFollowConstruction, RoutedHasBatcher, BreaksOnlyOnOwnClose, Constructed

-----------------------------------------------------------------------------
(* Every step keeps the inductive invariant.                               *)
LEMMA NextInv == SingletonInv /\ CallInv /\ [ClientsNext]_clientsVars => SingletonInv' /\ CallInv'
<1> SUFFICES ASSUME SingletonInv, CallInv, [ClientsNext]_clientsVars PROVE SingletonInv' /\ CallInv'
  OBVIOUS
<1>0. ClientsTypeOK
  BY DEF SingletonInv, OneRunningBatcher
<1>1. ASSUME NEW c \in Clients, ClientStep(c) PROVE SingletonInv' /\ CallInv'
  BY <1>0, <1>1, ClientStepSingleton, ClientStepCalls
<1>2. ASSUME NEW k \in Calls, Prepare(k) \/ CallStep(k) PROVE SingletonInv' /\ CallInv'
  BY <1>0, <1>2, CallStepType, SingletonFrame, CallStepCalls
<1>3. ASSUME NEW b \in Batchers, ThreadStep(b) PROVE SingletonInv' /\ CallInv'
  BY <1>0, <1>3, ThreadStepType, SingletonFrame, ThreadStepCalls
<1>4. CASE UNCHANGED clientsVars
  BY <1>4 DEF clientsVars, globalVars, instVars, clientVars, callVars, SingletonInv,
     OneRunningBatcher, ClientsTypeOK, LockHeld, GlobalCreated, JoinsStopped, CallInv,
     CallsFollowConstruction, RoutedHasBatcher, BreaksOnlyOnOwnClose, Constructed
<1> QED BY <1>1, <1>2, <1>3, <1>4 DEF ClientsNext

(* However constructions and close() calls race over _global_batcher, an   *)
(* instance that was not told to stop is the global one: the test repeated *)
(* under _global_lock and the clearing after the join leave no second      *)
(* batcher running.                                                        *)
THEOREM SingletonSafe == ClientsSpec => []OneRunningBatcher
<1>1. SingletonInv => OneRunningBatcher
  BY DEF SingletonInv
<1> QED BY ClientsInitInv, NextInv, <1>1, PTL DEF ClientsSpec

(* A request fails on self._batcher being None only while its own client   *)
(* is being closed, for any number of clients sharing the batcher.         *)
THEOREM BreaksSafe == ClientsSpec => []BreaksOnlyOnOwnClose
<1>1. CallInv => BreaksOnlyOnOwnClose
  BY DEF CallInv
<1> QED BY ClientsInitInv, NextInv, <1>1, PTL DEF ClientsSpec

(* get_batcher and shutdown_batcher exclude each other: no two clients are *)
(* inside a with-block of _global_lock, and the one that joins a thread    *)
(* joins one that was told to stop.                                        *)
THEOREM GlobalLockSafe == ClientsSpec => [](LockHeld /\ JoinsStopped)
<1>1. SingletonInv => LockHeld /\ JoinsStopped
  BY DEF SingletonInv
<1> QED BY ClientsInitInv, NextInv, <1>1, PTL DEF ClientsSpec
=============================================================================
