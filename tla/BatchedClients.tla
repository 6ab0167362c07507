--------------------------- MODULE BatchedClients ---------------------------
(***************************************************************************)
(* CycleTLS clients with use_batching=True (cycletls/api.py) that share    *)
(* the module-level singleton of cycletls/_batcher.py: construction goes   *)
(* through get_batcher, close() through shutdown_batcher, and requests run *)
(* concurrently with both.                                                 *)
(*                                                                         *)
(* A batcher instance is what RequestBatcher shows it to be: while its     *)
(* thread runs it resolves whatever is queued; after its shutdown event it *)
(* drains the queue once and the thread has ended.                         *)
(***************************************************************************)
EXTENDS Integers

CONSTANTS
  Clients,      \* CycleTLS(use_batching=True) objects
  Calls,        \* request()/arequest() calls
  Owner,        \* the client each call is made on
  MaxBatchers,  \* bound: how many RequestBatcher objects may be created
  NoBatcher     \* Python's None

Batchers == 1..MaxBatchers

ASSUME ClientsAssumption ==
  /\ Owner \in [Calls -> Clients]
  /\ MaxBatchers \in Nat \ {0}
  /\ NoBatcher \notin Int
  /\ NoBatcher \notin Clients

VARIABLES
  global,    \* _global_batcher
  lock,      \* the holder of _global_lock, NoBatcher when it is free
  created,   \* how many RequestBatcher objects exist
  stopEvent, \* _shutdown_event of each instance
  ended,     \* the instance's thread found its queue empty after the event
  cpc,       \* where each client is in __init__ or close()
  batcher,   \* self._batcher of each client
  closed,    \* self._closed
  call,      \* where each call is
  target     \* the instance whose queue a call was put on

globalVars == <<global, lock>>
instVars   == <<created, stopEvent, ended>>
clientVars == <<cpc, batcher, closed>>
callVars   == <<call, target>>
clientsVars == <<globalVars, instVars, clientVars, callVars>>

ClientsInit ==
  /\ global = NoBatcher
  /\ lock = NoBatcher
  /\ created = 0
  /\ stopEvent = [b \in Batchers |-> FALSE]
  /\ ended = [b \in Batchers |-> FALSE]
  /\ cpc = [c \in Clients |-> "new"]
  /\ batcher = [c \in Clients |-> NoBatcher]
  /\ closed = [c \in Clients |-> FALSE]
  /\ call = [k \in Calls |-> "idle"]
  /\ target = [k \in Calls |-> NoBatcher]

Goto(c, l) == cpc' = [cpc EXCEPT ![c] = l]

-----------------------------------------------------------------------------
(* __init__ and get_batcher.                                               *)

\* The unlocked test of the fast path ...
GetTest(c) ==
  /\ cpc[c] = "new"
  /\ Goto(c, IF global # NoBatcher THEN "fast" ELSE "slow")
  /\ UNCHANGED <<globalVars, instVars, batcher, closed, callVars>>

\* ... and its return statement, which reads the global a second time.
GetFast(c) ==
  /\ cpc[c] = "fast"
  /\ batcher' = [batcher EXCEPT ![c] = global]
  /\ Goto(c, "open")
  /\ UNCHANGED <<globalVars, instVars, closed, callVars>>

GetLock(c) ==
  /\ cpc[c] = "slow"
  /\ lock = NoBatcher
  /\ lock' = c
  /\ Goto(c, "locked")
  /\ UNCHANGED <<global, instVars, batcher, closed, callVars>>

\* Mutation: the test is not repeated once the lock is held.
GetCreateUnchecked(c) ==
  /\ cpc[c] = "locked"
  /\ created < MaxBatchers
  /\ created' = created + 1
  /\ global' = created + 1
  /\ batcher' = [batcher EXCEPT ![c] = global']
  /\ lock' = NoBatcher
  /\ Goto(c, "open")
  /\ UNCHANGED <<stopEvent, ended, closed, callVars>>

GetCreate(c) ==
  /\ cpc[c] = "locked"
  /\ \/ /\ global # NoBatcher
        /\ UNCHANGED <<global, created>>
     \/ /\ global = NoBatcher
        /\ created < MaxBatchers
        /\ created' = created + 1
        /\ global' = created + 1
  /\ batcher' = [batcher EXCEPT ![c] = global']
  /\ lock' = NoBatcher
  /\ Goto(c, "open")
  /\ UNCHANGED <<stopEvent, ended, closed, callVars>>

-----------------------------------------------------------------------------
(* close() and aclose().                                                   *)

CloseTest(c) ==
  /\ cpc[c] = "open"
  /\ Goto(c, IF batcher[c] # NoBatcher THEN "shut" ELSE "mark")
  /\ UNCHANGED <<globalVars, instVars, batcher, closed, callVars>>

CloseLock(c) ==
  /\ cpc[c] = "shut"
  /\ lock = NoBatcher
  /\ lock' = c
  /\ Goto(c, "shutting")
  /\ UNCHANGED <<global, instVars, batcher, closed, callVars>>

\* shutdown_batcher under the lock: shutdown() of whatever the global is now.
CloseShutdown(c) ==
  /\ cpc[c] = "shutting"
  /\ \/ /\ global # NoBatcher
        /\ stopEvent' = [stopEvent EXCEPT ![global] = TRUE]
        /\ Goto(c, "join")
        /\ UNCHANGED lock
     \/ /\ global = NoBatcher
        /\ lock' = NoBatcher
        /\ Goto(c, "unref")
        /\ UNCHANGED stopEvent
  /\ UNCHANGED <<global, created, ended, batcher, closed, callVars>>

\* join(timeout=2.0) is over, with or without the thread.
CloseClear(c) ==
  /\ cpc[c] = "join"
  /\ global' = NoBatcher
  /\ lock' = NoBatcher
  /\ Goto(c, "unref")
  /\ UNCHANGED <<instVars, batcher, closed, callVars>>

CloseUnref(c) ==
  /\ cpc[c] = "unref"
  /\ batcher' = [batcher EXCEPT ![c] = NoBatcher]
  /\ Goto(c, "mark")
  /\ UNCHANGED <<globalVars, instVars, closed, callVars>>

CloseMark(c) ==
  /\ cpc[c] = "mark"
  /\ closed' = [closed EXCEPT ![c] = TRUE]
  /\ Goto(c, "closed")
  /\ UNCHANGED <<globalVars, instVars, batcher, callVars>>

AClose(c) ==
  /\ cpc[c] = "open"
  /\ ~closed[c]
  /\ closed' = [closed EXCEPT ![c] = TRUE]
  /\ UNCHANGED <<globalVars, instVars, cpc, batcher, callVars>>

-----------------------------------------------------------------------------
(* request() / arequest(): the closed test of _prepare_request, the test   *)
(* of self._batcher, and the submission, which reads self._batcher again.  *)

Constructed(c) == cpc[c] \notin {"new", "fast", "slow", "locked"}

Prepare(k) ==
  /\ call[k] = "idle"
  /\ Constructed(Owner[k])
  /\ call' = [call EXCEPT ![k] = IF closed[Owner[k]] THEN "refused" ELSE "prepared"]
  /\ UNCHANGED <<globalVars, instVars, clientVars, target>>

\* Mutation: a client with use_batching=True is assumed to have a batcher.
RouteUnchecked(k) ==
  /\ call[k] = "prepared"
  /\ call' = [call EXCEPT ![k] = "submit"]
  /\ UNCHANGED <<globalVars, instVars, clientVars, target>>

Route(k) ==
  /\ call[k] = "prepared"
  /\ call' = [call EXCEPT ![k] = IF batcher[Owner[k]] # NoBatcher THEN "submit" ELSE "direct"]
  /\ UNCHANGED <<globalVars, instVars, clientVars, target>>

\* The direct FFI path.
DirectSend(k) ==
  /\ call[k] = "direct"
  /\ call' = [call EXCEPT ![k] = "returned"]
  /\ UNCHANGED <<globalVars, instVars, clientVars, target>>

\* Calling submit on None is an AttributeError.
SubmitCall(k) ==
  /\ call[k] = "submit"
  /\ LET b == batcher[Owner[k]]
     IN \/ /\ b # NoBatcher
           /\ call' = [call EXCEPT ![k] = "waiting"]
           /\ target' = [target EXCEPT ![k] = b]
        \/ /\ b = NoBatcher
           /\ call' = [call EXCEPT ![k] = "attribute_error"]
           /\ UNCHANGED target
  /\ UNCHANGED <<globalVars, instVars, clientVars>>

-----------------------------------------------------------------------------
(* The instances' threads.                                                 *)

Queued(b) == {k \in Calls : call[k] = "waiting" /\ target[k] = b}

Serve(b) ==
  /\ ~ended[b]
  /\ \E k \in Queued(b) : call' = [call EXCEPT ![k] = "returned"]
  /\ UNCHANGED <<globalVars, instVars, clientVars, target>>

\* Mutation: the thread ends without draining its queue.
EndThreadUndrained(b) ==
  /\ stopEvent[b]
  /\ ~ended[b]
  /\ ended' = [ended EXCEPT ![b] = TRUE]
  /\ UNCHANGED <<globalVars, created, stopEvent, clientVars, callVars>>

EndThread(b) ==
  /\ stopEvent[b]
  /\ ~ended[b]
  /\ Queued(b) = {}
  /\ ended' = [ended EXCEPT ![b] = TRUE]
  /\ UNCHANGED <<globalVars, created, stopEvent, clientVars, callVars>>

-----------------------------------------------------------------------------
ClientStep(c) ==
  \/ GetTest(c) \/ GetFast(c) \/ GetLock(c) \/ GetCreate(c)
  \/ CloseTest(c) \/ CloseLock(c) \/ CloseShutdown(c) \/ CloseClear(c)
  \/ CloseUnref(c) \/ CloseMark(c) \/ AClose(c)

CallStep(k) == Route(k) \/ DirectSend(k) \/ SubmitCall(k)

ThreadStep(b) == Serve(b) \/ EndThread(b)

ClientsNext ==
  \/ \E c \in Clients : ClientStep(c)
  \/ \E k \in Calls : Prepare(k) \/ CallStep(k)
  \/ \E b \in Batchers : ThreadStep(b)

ClientsSpec == ClientsInit /\ [][ClientsNext]_clientsVars

\* Threads are scheduled: whoever is inside get_batcher, shutdown_batcher or a
\* call goes on; nobody is obliged to construct, to close or to make a call.
\* Weak fairness is enough for the lock, which is taken finitely often.
ClientsFairness ==
  /\ \A c \in Clients :
       WF_clientsVars(GetFast(c) \/ GetLock(c) \/ GetCreate(c) \/ CloseLock(c)
               \/ CloseShutdown(c) \/ CloseClear(c) \/ CloseUnref(c) \/ CloseMark(c))
  /\ \A k \in Calls : WF_clientsVars(CallStep(k))
  /\ \A b \in Batchers : WF_clientsVars(ThreadStep(b))

FairClientsSpec == ClientsSpec /\ ClientsFairness

-----------------------------------------------------------------------------
ClientsTypeOK ==
  /\ global \in Batchers \cup {NoBatcher}
  /\ lock \in Clients \cup {NoBatcher}
  /\ created \in 0..MaxBatchers
  /\ stopEvent \in [Batchers -> BOOLEAN]
  /\ ended \in [Batchers -> BOOLEAN]
  /\ cpc \in [Clients -> {"new", "fast", "slow", "locked", "open", "shut",
                          "shutting", "join", "unref", "mark", "closed"}]
  /\ batcher \in [Clients -> Batchers \cup {NoBatcher}]
  /\ closed \in [Clients -> BOOLEAN]
  /\ call \in [Calls -> {"idle", "refused", "prepared", "direct", "submit",
                         "waiting", "returned", "attribute_error"}]
  /\ target \in [Calls -> Batchers \cup {NoBatcher}]

(* The batcher is a singleton: however constructions and close() calls     *)
(* race, an instance that was not told to stop is the global one, so there *)
(* is never a second running batcher that no shutdown_batcher can reach.   *)
OneRunningBatcher ==
  /\ ClientsTypeOK
  /\ \A b \in 1..created : ~stopEvent[b] => global = b

(* A call fails on a missing batcher (the AttributeError of submitting to  *)
(* None) only while its own client is being closed, also for a client that *)
(* a race with shutdown_batcher left without a batcher from the start.     *)
BreaksOnlyOnOwnClose ==
  \A k \in Calls :
    call[k] = "attribute_error" => cpc[Owner[k]] \in {"mark", "closed"}

(* "Items queued just before shutdown are still flushed": a call put on    *)
(* the queue of a batcher that was not shut down yet returns, whoever      *)
(* closes which client in the meantime.                                    *)
QueuedBeforeShutdownReturns ==
  \A k \in Calls :
    (call[k] = "waiting" /\ ~stopEvent[target[k]]) ~> (call[k] = "returned")

(* Nobody stays inside a constructor or close(): the lock held over the    *)
(* shutdown of the batcher is always given back.                           *)
ConstructorsAndCloseEnd ==
  \A c \in Clients :
    cpc[c] \in {"fast", "slow", "locked", "shut", "shutting", "join", "unref", "mark"}
      ~> cpc[c] \in {"open", "closed"}

(* Neither closing nor being closed upon hangs: queued calls return, and   *)
(* constructors and close() come back.                                     *)
CloseLetsGo == QueuedBeforeShutdownReturns /\ ConstructorsAndCloseEnd

(* Batching is "completely transparent": a call on a client that nobody    *)
(* closes returns.                                                         *)
OpenClientsCallsReturn ==
  \A k \in Calls :
    (call[k] = "prepared")
      ~> (call[k] = "returned" \/ cpc[Owner[k]] # "open" \/ closed[Owner[k]])
=============================================================================
