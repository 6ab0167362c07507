------------------------------ MODULE ModuleApi ------------------------------
(***************************************************************************)
(* The module-level functions of cycletls/__init__.py: request, get, post  *)
(* and the other verbs take the global session, merge the defaults and     *)
(* send; the async ones merge the defaults for a client of their own.      *)
(* Threads of several processes call them, set and reset the defaults,     *)
(* close the global session and fork.                                      *)
(***************************************************************************)
EXTENDS ModuleDefaults

CONSTANTS Menu,        \* what each thread may call: [request, async, set, others]
          MaxCalls     \* bound: how many calls the program makes

ASSUME ApiAssumption == MaxCalls \in Nat

VARIABLES options,     \* what the call of a thread was given, None if it makes none
          calls        \* how many calls were begun

apiVars == <<options, calls>>
vars == <<sessionVars, defaultsVars, apiVars>>

Init ==
  /\ GlobalInit /\ DefaultsInit
  /\ options = [t \in Threads |-> None]
  /\ calls = 0

Idle(t) ==
  /\ process[ProcOf[t]] = "running" /\ gpc[t] = "idle" /\ dpc[t] = "idle"
  /\ options[t] = None /\ calls < MaxCalls

Begins(t, opts) ==
  /\ Idle(t)
  /\ calls' = calls + 1
  /\ options' = [options EXCEPT ![t] = opts]

(* request, get, post, put, patch, delete, head, options                   *)
Request(t, kw) == Begins(t, kw) /\ Get(t) /\ UNCHANGED defaultsVars

RequestMerge(t) ==
  /\ gpc[t] = "have" /\ options[t] # None
  /\ Merge(t, options[t])
  /\ UNCHANGED <<sessionVars, apiVars>>

(* What session.request(method, url, **merged) makes of the two: no        *)
(* attribute of None, nothing to unpack, a closed client.                  *)
Outcome(t) ==
  IF failed[t] = "KeyError" THEN "KeyError"
  ELSE IF gpc[t] = "have" /\ got[t] = None THEN "AttributeError"
  ELSE IF failed[t] # None THEN failed[t]
  ELSE IF gpc[t] = "have" /\ got[t] \in closed[ProcOf[t]] THEN "CycleTLSError"
  ELSE "sent"

RequestSend(t) ==
  /\ gpc[t] = "have" /\ dpc[t] = "merged"
  /\ options' = [options EXCEPT ![t] = None]
  /\ Release(t) /\ MergeDone(t)
  /\ UNCHANGED calls

(* async_request, aget, apost, ...: a client of its own, closed at the end *)
AsyncRequest(t, kw) == Begins(t, kw) /\ Merge(t, kw) /\ UNCHANGED sessionVars

AsyncSend(t) ==
  /\ gpc[t] = "idle" /\ dpc[t] = "merged"
  /\ options' = [options EXCEPT ![t] = None]
  /\ MergeDone(t)
  /\ UNCHANGED <<sessionVars, calls>>

Set(t, items) == Begins(t, None) /\ SetDefault(t, items) /\ UNCHANGED sessionVars
Reset(t) == Begins(t, None) /\ ResetDefaults(t) /\ UNCHANGED sessionVars
CloseGlobal(t) == Begins(t, None) /\ Close(t) /\ UNCHANGED defaultsVars
ForkProcess(t, q) == Begins(t, None) /\ Fork(t, q) /\ ForkDefaults(t, q)

ExitProcess(p) ==
  /\ \A t \in ThreadsOf(p) : dpc[t] = "idle" /\ options[t] = None
  /\ Exit(p)
  /\ UNCHANGED <<defaultsVars, apiVars>>

(* The next step of a call that has begun.                                 *)
ThreadStep(t) ==
  \/ SessionStep(t) /\ UNCHANGED <<defaultsVars, apiVars>>
  \/ (MergeStep(t) \/ SetterStep(t)) /\ UNCHANGED <<sessionVars, apiVars>>
  \/ RequestMerge(t) \/ RequestSend(t) \/ AsyncSend(t)

(* t waits for a lock that was held when its process was forked: no thread *)
(* of the process can give it back.                                        *)
Stuck(t) ==
  LET p == ProcOf[t]
  IN  \/ gpc[t] \in {"lock", "closelock"} /\ globalLock[p] # None /\ ProcOf[globalLock[p]] # p
      \/ dpc[t] = "lock" /\ cacheLock[p] # None /\ ProcOf[cacheLock[p]] # p

(* All processes have ended, or are stuck.                                 *)
Stop == /\ \A p \in Procs : process[p] = "running" => \E t \in ThreadsOf(p) : Stuck(t)
        /\ UNCHANGED vars

Next ==
  \/ \E t \in Threads :
       \/ ThreadStep(t)
       \/ \E kw \in Menu[t].request : Request(t, kw)
       \/ \E kw \in Menu[t].async : AsyncRequest(t, kw)
       \/ \E items \in Menu[t].set : Set(t, items)
       \/ "reset" \in Menu[t].others /\ Reset(t)
       \/ "close" \in Menu[t].others /\ CloseGlobal(t)
       \/ \E q \in Procs : "fork" \in Menu[t].others /\ ForkProcess(t, q)
  \/ \E p \in Procs : ExitProcess(p)
  \/ Stop

Spec == Init /\ [][Next]_vars

-----------------------------------------------------------------------------
TypeOK ==
  /\ GlobalTypeOK
  /\ cacheLock \in [Procs -> Threads \cup {None}]
  /\ dpc \in [Threads -> {"idle", "set", "reset", "invalidate", "look", "lock", "check",
                          "buildin", "buildget", "mergein", "mergeget", "update",
                          "store", "return", "merged"}]
  /\ at \in [Threads -> Nat \ {0}]
  /\ failed \in [Threads -> {None, "ValueError", "KeyError", "TypeError"}]
  /\ changed \subseteq Threads
  /\ mayBeStale \in [Procs -> BOOLEAN]
  /\ \A p \in Procs : cache[p] # None => DOMAIN cache[p] \subseteq Keys
  /\ \A p \in Procs : DOMAIN config[p] \subseteq Keys
  /\ calls \in 0..MaxCalls

(* "Set default values once and have them apply to all requests": while no *)
(* set_default or reset_defaults runs, the cache that serves calls without *)
(* options holds what get_default reports.  Three things leave an old      *)
(* cache behind, until the next change: a set_default that raises on a     *)
(* later item, a change that ends while another thread is filling the      *)
(* cache, and, in a child, a fork in the middle of another thread's change *)
(* (SetOne, Invalidate and ForkDefaults of ModuleDefaults).                *)
CacheIsCurrent ==
  /\ TypeOK
  /\ \A p \in Procs :
       Setting(p) = {} /\ ~mayBeStale[p] /\ cache[p] # None =>
         \A k \in Keys : GetDefault(cache[p], k) = GetDefault(config[p], k)

(* A call fails before anything is sent only if another thread changed     *)
(* the defaults during it (KeyError, TypeError), or closed the session or, *)
(* in a child, dropped it (AttributeError, CycleTLSError): the thread that *)
(* drops its parent's session gets an open one, unless another drops that. *)
FailsOnlyIfDisturbed ==
  \A t \in Threads :
    dpc[t] = "merged" /\ Outcome(t) # "sent" =>
      IF Outcome(t) \in {"KeyError", "TypeError"} THEN t \in changed ELSE t \in disturbed

(* A lock is held only by a thread that is inside the block it guards, on  *)
(* every path out of it, a KeyError under _cache_lock included: nobody     *)
(* waits for ever.  The exception is a child that was forked while a       *)
(* thread of its parent held a lock: it inherits the lock and no holder.   *)
LocksAreGivenBack ==
  \A p \in Procs :
    /\ globalLock[p] \in ThreadsOf(p) =>
         gpc[globalLock[p]] \in {"create", "closing", "forget"}
    /\ cacheLock[p] \in ThreadsOf(p) =>
         dpc[cacheLock[p]] \in {"check", "buildin", "buildget", "store", "return"}
=============================================================================
