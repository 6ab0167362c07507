--------------------------- MODULE ModuleApiProofs ---------------------------
(***************************************************************************)
(* Proofs about the module-level functions for any processes, threads,     *)
(* options and numbers of calls: no caller is given a session of another   *)
(* process, no lock outlives the block it guards but across a fork, no     *)
(* session is left open that nobody can close but by the reset of a forked *)
(* child, the cache follows the defaults, and a call that fails before it  *)
(* sends was disturbed by another thread.                                  *)
(***************************************************************************)
EXTENDS ModuleApi, FiniteSetTheorems, TLAPS

OwnedBy(s, p) == s = None \/ s[1] = p

(* Only a process that runs, or ran, has threads in a call, and gave its   *)
(* id to a child.                                                          *)
BornFirst ==
  /\ \A p \in Procs : process[parentPid[p]] # "unborn"
  /\ \A t \in Threads : process[ProcOf[t]] = "unborn" => gpc[t] = "idle"

(* Past the check of the process id a thread relies on _parent_pid being   *)
(* its own, and on nobody else's session being left then.                  *)
ResetFirst ==
  /\ \A p \in Procs : parentPid[p] = p => OwnedBy(session[p], p)
  /\ \A t \in Threads : gpc[t] \in {"look", "lock", "create", "take"} =>
                          parentPid[ProcOf[t]] = ProcOf[t]
  /\ \A t \in Threads : gpc[t] = "adopt" => OwnedBy(session[ProcOf[t]], ProcOf[t])

SessionInv == GlobalTypeOK /\ BornFirst /\ ResetFirst /\ ChildHasItsOwnSession

(* What the locks need beside it.                                          *)
LockTypes ==
  /\ cacheLock \in [Procs -> Threads \cup {None}]
  /\ dpc \in [Threads -> {"idle", "set", "reset", "invalidate", "look", "lock", "check",
                          "buildin", "buildget", "mergein", "mergeget", "update",
                          "store", "return", "merged"}]

HoldersAreBorn ==
  /\ \A t \in Threads : process[ProcOf[t]] = "unborn" => dpc[t] = "idle"
  /\ \A p \in Procs : globalLock[p] # None => process[ProcOf[globalLock[p]]] # "unborn"
  /\ \A p \in Procs : cacheLock[p] # None => process[ProcOf[cacheLock[p]]] # "unborn"

LockInv == LockTypes /\ HoldersAreBorn /\ LocksAreGivenBack

-----------------------------------------------------------------------------
(* Who holds the lock of the session, which serial numbers are in use, and *)
(* which sessions are closed but not yet forgotten.                        *)
HoldersHold ==
  \A t \in Threads : gpc[t] \in {"create", "closing", "forget"} => globalLock[ProcOf[t]] = t

Serials ==
  /\ \A p \in Procs : \A s \in closed[p] : s[2] <= made[s[1]]
  /\ \A p \in Procs : session[p] # None => session[p][2] <= made[session[p][1]]

NothingBeforeAdoption ==
  /\ \A p \in Procs : parentPid[p] # p => made[p] = 0
  /\ \A t \in Threads : gpc[t] = "adopt" /\ parentPid[ProcOf[t]] # ProcOf[t] =>
                           session[ProcOf[t]] = None

ClosedIsForgotten ==
  /\ \A p \in Procs : parentPid[p] = p /\ session[p] \in closed[p] =>
                         \E u \in ThreadsOf(p) : gpc[u] = "forget"
  /\ \A t \in Threads : gpc[t] = "forget" =>
                           session[ProcOf[t]] \in closed[ProcOf[t]] \cup {None}

(* A call that no other thread disturbed finds the session it looked at,   *)
(* open.                                                                   *)
Undisturbed ==
  \A t \in Threads \ disturbed :
    /\ gpc[t] \in {"pid", "reset", "adopt", "look", "lock", "create", "take", "have"} =>
         \A u \in ThreadsOf(ProcOf[t]) : gpc[u] # "forget"
    /\ gpc[t] = "take" => session[ProcOf[t]] # None
    /\ gpc[t] = "have" => got[t] # None /\ got[t] \notin closed[ProcOf[t]]

OpenInv == HoldersHold /\ Serials /\ NothingBeforeAdoption /\ ClosedIsForgotten /\ Undisturbed

(* In the process that imported the package nobody resets the session; in  *)
(* a child each thread does so at most once, and the first to do so finds  *)
(* no session of the child.                                                *)
Resetting(p) == {t \in ThreadsOf(p) : gpc[t] = "reset"}

ResetsCounted ==
  /\ parentPid[Root] = Root
  /\ \A t \in ThreadsOf(Root) : gpc[t] \notin {"reset", "adopt"}
  /\ Lost(Root) = {}
  /\ \A p \in Procs \ {Root} : parentPid[p] = p =>
       Cardinality(Lost(p)) + Cardinality(Resetting(p)) < Cardinality(ThreadsOf(p))

-----------------------------------------------------------------------------
(* What a merge and a fill of the cache rely on.                           *)
Values == UNION {Valid[k] : k \in Keys}
Dicts == UNION {[K -> Values] : K \in SUBSET Keys}

DefaultTypes ==
  /\ at \in [Threads -> Nat \ {0}]
  /\ failed \in [Threads -> {None, "ValueError", "KeyError", "TypeError"}]
  /\ changed \subseteq Threads
  /\ mayBeStale \in [Procs -> BOOLEAN]
  /\ config \in [Procs -> Dicts]
  /\ cache \in [Procs -> Dicts \cup {None}]
  /\ DOMAIN given = Threads /\ DOMAIN merged = Threads

(* The steps under _cache_lock that fill the cache, which start from       *)
(* nothing and are taken for calls without options.                        *)
Filling == {"buildin", "buildget", "store"}

Fills(t) ==
  /\ dpc[t] \in Filling \cup {"check"} => cacheLock[ProcOf[t]] = t
  /\ dpc[t] \in Filling \cup {"look", "lock", "check"} => given[t] = Empty
  /\ dpc[t] \in {"look", "lock", "check"} => merged[t] = Empty /\ at[t] = 1
  /\ dpc[t] \in Filling => merged[t] \in Dicts

(* set_default or reset_defaults has changed something and has not yet     *)
(* dropped the cache.                                                      *)
Dirty(p) == \E t \in ThreadsOf(p) : dpc[t] = "invalidate" \/ (dpc[t] = "set" /\ at[t] > 1)

Agree(d, c, K) == \A k \in K : GetDefault(d, k) = GetDefault(c, k)

\* The keys that a fill has been through.
Read(t) == {Mapping[i] : i \in 1..(at[t] - 1)}

(* Unless something makes it stale, the cache holds the defaults, and a    *)
(* fill holds those it has been through.                                   *)
Follows(p) ==
  ~Dirty(p) /\ ~mayBeStale[p] =>
    /\ cache[p] # None => Agree(cache[p], config[p], Keys)
    /\ \A t \in ThreadsOf(p) : dpc[t] \in Filling =>
         /\ DOMAIN merged[t] \subseteq Read(t)
         /\ Agree(merged[t], config[p], Read(t))
         /\ dpc[t] = "store" => at[t] > Len(Mapping)

(* A merge that saw no change finds what it looked for.                    *)
Finds(t) ==
  /\ dpc[t] \in Filling \cup {"look", "lock", "check", "return", "mergein", "mergeget", "update"} =>
       failed[t] = None
  /\ dpc[t] = "merged" =>
       failed[t] = None \/ (failed[t] \in {"KeyError", "TypeError"} /\ t \in changed)
  /\ dpc[t] \in {"buildget", "mergeget"} =>
       at[t] <= Len(Mapping) /\ (Mapping[at[t]] \in DOMAIN config[ProcOf[t]] \/ t \in changed)
  /\ dpc[t] = "return" => cache[ProcOf[t]] # None \/ t \in changed

DefaultsInv ==
  /\ DefaultTypes
  /\ \A t \in Threads : Fills(t) /\ Finds(t)
  /\ \A p \in Procs : Follows(p)

-----------------------------------------------------------------------------
(* A process that has just imported the package satisfies the invariant.   *)
LEMMA InitSession == GlobalInit => SessionInv
  BY GlobalSessionAssumption
  DEF GlobalInit, SessionInv, GlobalTypeOK, BornFirst, ResetFirst,
      ChildHasItsOwnSession, OwnedBy

(* The steps that touch no session keep the invariant.                     *)
LEMMA WalkSession ==
  ASSUME SessionInv, NEW t \in Threads,
         \/ Get(t) \/ CheckPid(t) \/ Look(t) \/ Release(t) \/ Close(t) \/ CloseSession(t)
         \/ LockGlobal(t, "lock", "create") \/ LockGlobal(t, "closelock", "closing")
  PROVE  SessionInv'
<1> USE GlobalSessionAssumption DEF SessionInv, Goto, Disturb
<1>1. ProcOf[t] \in Procs
  OBVIOUS
<1>2. GlobalTypeOK'
  BY <1>1 DEF GlobalTypeOK, Get, CheckPid, Look, Release, Close, CloseSession, LockGlobal, ThreadsOf
<1>3. BornFirst'
  BY <1>1 DEF GlobalTypeOK, BornFirst, Get, CheckPid, Look, Release, Close, CloseSession, LockGlobal
<1>4. ResetFirst'
  BY <1>1 DEF GlobalTypeOK, ResetFirst, OwnedBy, Get, CheckPid, Look, Release, Close,
              CloseSession, LockGlobal
<1>5. ChildHasItsOwnSession'
  BY <1>1 DEF GlobalTypeOK, ChildHasItsOwnSession, Get, CheckPid, Look, Release, Close,
              CloseSession, LockGlobal
<1> QED BY <1>2, <1>3, <1>4, <1>5

(* So do those that drop, create or hand out the session of a process.     *)
LEMMA OwnSession ==
  ASSUME SessionInv, NEW t \in Threads,
         ResetSession(t) \/ AdoptPid(t) \/ Create(t) \/ Take(t) \/ Forget(t)
  PROVE  SessionInv'
<1> USE GlobalSessionAssumption DEF SessionInv, Goto, Disturb
<1>1. ProcOf[t] \in Procs
  OBVIOUS
<1>2. CASE ResetSession(t) \/ Forget(t)
  BY <1>1, <1>2 DEF GlobalTypeOK, BornFirst, ResetFirst, OwnedBy, ChildHasItsOwnSession,
                    ResetSession, Forget, ThreadsOf
<1>3. CASE AdoptPid(t)
  BY <1>1, <1>3 DEF GlobalTypeOK, BornFirst, ResetFirst, OwnedBy, ChildHasItsOwnSession, AdoptPid
<1>4. CASE Create(t)
  <2>1. CASE session[ProcOf[t]] = None
    <3> DEFINE p == ProcOf[t]
               new == <<p, made[p] + 1>>
    <3>1. /\ made' = [made EXCEPT ![p] = @ + 1]
          /\ session' = [session EXCEPT ![p] = new]
          /\ cleanup' = [cleanup EXCEPT ![p] = TRUE]
          /\ globalLock' = [globalLock EXCEPT ![p] = None]
          /\ gpc' = [gpc EXCEPT ![t] = "take"]
          /\ gpc[t] = "create"
          /\ UNCHANGED <<process, parentPid, closed, got, disturbed>>
      BY <1>1, <1>4, <2>1 DEF Create, GlobalTypeOK
    <3>2. new \in Sessions /\ new[1] = p
      BY <1>1 DEF GlobalTypeOK, Sessions
    <3> HIDE DEF new
    <3>3. GlobalTypeOK'
      BY <1>1, <3>1, <3>2 DEF GlobalTypeOK
    <3>4. BornFirst' /\ ResetFirst' /\ ChildHasItsOwnSession'
      BY <1>1, <3>1, <3>2 DEF GlobalTypeOK, BornFirst, ResetFirst, OwnedBy, ChildHasItsOwnSession
    <3> QED BY <3>3, <3>4
  <2>2. CASE session[ProcOf[t]] # None
    BY <1>1, <1>4, <2>2 DEF GlobalTypeOK, BornFirst, ResetFirst, OwnedBy,
                            ChildHasItsOwnSession, Create
  <2> QED BY <2>1, <2>2
<1>5. CASE Take(t)
  BY <1>1, <1>5 DEF GlobalTypeOK, BornFirst, ResetFirst, OwnedBy, ChildHasItsOwnSession, Take
<1> QED BY <1>2, <1>3, <1>4, <1>5

(* A child starts with the id and the session of its parent, none of its   *)
(* threads in a call.                                                      *)
LEMMA ForkSession ==
  ASSUME SessionInv, NEW t \in Threads, NEW q \in Procs, Fork(t, q)
  PROVE  SessionInv'
<1> DEFINE p == ProcOf[t]
<1> USE GlobalSessionAssumption DEF SessionInv
<1>1. p \in Procs /\ p # q /\ parentPid[p] # q
  BY DEF Fork, BornFirst
<1>2. GlobalTypeOK'
  BY <1>1 DEF Fork, GlobalTypeOK
<1>3. BornFirst'
  BY <1>1 DEF Fork, GlobalTypeOK, BornFirst
<1>4. ResetFirst'
  BY <1>1 DEF Fork, GlobalTypeOK, BornFirst, ResetFirst, OwnedBy
<1>5. ChildHasItsOwnSession'
  BY DEF Fork, ChildHasItsOwnSession
<1> QED BY <1>2, <1>3, <1>4, <1>5

(* The end of a process leaves no session.                                 *)
LEMMA ExitSession ==
  ASSUME SessionInv, NEW p \in Procs, Exit(p)
  PROVE  SessionInv'
<1> USE GlobalSessionAssumption DEF SessionInv
<1>1. GlobalTypeOK'
  BY DEF Exit, GlobalTypeOK
<1>2. BornFirst' /\ ResetFirst' /\ ChildHasItsOwnSession'
  BY DEF Exit, GlobalTypeOK, BornFirst, ResetFirst, OwnedBy, ChildHasItsOwnSession
<1> QED BY <1>1, <1>2

(* Every step of GlobalSession keeps the invariant.                        *)
LEMMA NextSession == SessionInv /\ [GlobalNext]_sessionVars => SessionInv'
<1> SUFFICES ASSUME SessionInv, [GlobalNext]_sessionVars PROVE SessionInv'
  OBVIOUS
<1>1. CASE UNCHANGED sessionVars
  BY <1>1 DEF sessionVars, SessionInv, GlobalTypeOK, BornFirst, ResetFirst, OwnedBy,
              ChildHasItsOwnSession
<1>2. CASE GlobalNext
  BY <1>2, WalkSession, OwnSession, ForkSession, ExitSession DEF GlobalNext, SessionStep
<1> QED BY <1>1, <1>2

(* Seen from the sessions, the program only takes steps of GlobalSession:  *)
(* merging, setting and resetting defaults leaves them alone.              *)
LEMMA NextIsGlobal == [Next]_vars => [GlobalNext]_sessionVars
<1> SUFFICES ASSUME [Next]_vars PROVE [GlobalNext]_sessionVars
  OBVIOUS
<1>1. CASE UNCHANGED vars
  BY <1>1 DEF vars, sessionVars
<1>2. CASE \E t \in Threads : ThreadStep(t)
  BY <1>2 DEF ThreadStep, RequestMerge, RequestSend, AsyncSend, sessionVars, GlobalNext
<1>3. CASE \E t \in Threads : \/ \E kw \in Menu[t].request : Request(t, kw)
                              \/ \E kw \in Menu[t].async : AsyncRequest(t, kw)
                              \/ \E items \in Menu[t].set : Set(t, items)
                              \/ Reset(t) \/ CloseGlobal(t)
                              \/ \E q \in Procs : ForkProcess(t, q)
  BY <1>3 DEF Request, AsyncRequest, Set, Reset, CloseGlobal, ForkProcess, GlobalNext
<1>4. CASE \E p \in Procs : ExitProcess(p)
  BY <1>4 DEF ExitProcess, GlobalNext
<1>5. CASE Stop
  BY <1>5 DEF Stop, vars, sessionVars
<1> QED BY <1>1, <1>2, <1>3, <1>4, <1>5 DEF Next

-----------------------------------------------------------------------------
(* At first nobody holds a lock.                                           *)
LEMMA InitLock == Init => LockInv
  BY GlobalSessionAssumption
  DEF Init, GlobalInit, DefaultsInit, LockInv, LockTypes, HoldersAreBorn,
      LocksAreGivenBack, ThreadsOf

(* The steps of get_global_session and close_global_session that take or   *)
(* give back _global_lock, and the ones between.                           *)
LEMMA SessionLock ==
  ASSUME SessionInv, LockInv, NEW t \in Threads,
         Get(t) \/ SessionStep(t) \/ Release(t) \/ Close(t),
         UNCHANGED <<cacheLock, dpc>>
  PROVE  LockInv'
<1> USE GlobalSessionAssumption DEF LockInv, Goto
<1>1. ProcOf[t] \in Procs
  OBVIOUS
<1>2. LockTypes'
  BY DEF LockTypes
<1>3. UNCHANGED process
  BY DEF SessionStep, Get, CheckPid, ResetSession, AdoptPid, Look, LockGlobal,
         Create, Take, Release, Close, CloseSession, Forget
<1>4. \A u \in Threads \ {t} : gpc'[u] = gpc[u]
  BY <1>1 DEF SessionInv, GlobalTypeOK, SessionStep, Get, CheckPid, ResetSession, AdoptPid, Look,
              LockGlobal, Create, Take, Release, Close, CloseSession, Forget
<1>5. \A p \in Procs : globalLock'[p] \in {None, globalLock[p], t}
  BY <1>1 DEF SessionInv, GlobalTypeOK, SessionStep, Get, CheckPid, ResetSession, AdoptPid, Look,
              LockGlobal, Create, Take, Release, Close, CloseSession, Forget
<1>6. globalLock'[ProcOf[t]] = t => gpc'[t] \in {"create", "closing", "forget"}
  <2>1. t # None /\ (globalLock[ProcOf[t]] = t => gpc[t] \in {"create", "closing", "forget"})
    BY <1>1 DEF LocksAreGivenBack, ThreadsOf
  <2> QED BY <1>1, <2>1
          DEF SessionInv, GlobalTypeOK, SessionStep, Get, CheckPid, ResetSession, AdoptPid, Look,
              LockGlobal, Create, Take, Release, Close, CloseSession, Forget
<1>7. process[ProcOf[t]] # "unborn"
  BY DEF SessionInv, BornFirst, SessionStep, Get, CheckPid, ResetSession, AdoptPid, Look,
         LockGlobal, Create, Take, Release, Close, CloseSession, Forget
<1>8. HoldersAreBorn'
  BY <1>3, <1>5, <1>7 DEF HoldersAreBorn
<1>9. LocksAreGivenBack'
  <2>1. ASSUME NEW p \in Procs, globalLock'[p] \in ThreadsOf(p)
        PROVE  gpc'[globalLock'[p]] \in {"create", "closing", "forget"}
    <3>1. globalLock'[p] = t => p = ProcOf[t]
      BY <2>1 DEF ThreadsOf
    <3>2. globalLock'[p] # t => globalLock'[p] = globalLock[p] /\ globalLock[p] \in Threads \ {t}
      BY <1>5, <2>1 DEF ThreadsOf
    <3> QED BY <1>4, <1>6, <2>1, <3>1, <3>2 DEF LocksAreGivenBack
  <2> QED BY <2>1 DEF LocksAreGivenBack, ThreadsOf
<1> QED BY <1>2, <1>8, <1>9

(* The same for _cache_lock and the defaults.                              *)
LEMMA DefaultsLock ==
  ASSUME SessionInv, LockInv, NEW t \in Threads, process[ProcOf[t]] # "unborn",
         \/ MergeStep(t) \/ SetterStep(t) \/ MergeDone(t) \/ ResetDefaults(t)
         \/ \E items : SetDefault(t, items)
         \/ \E kwargs : Merge(t, kwargs),
         UNCHANGED <<process, globalLock>>,
         \/ gpc' = gpc
         \/ gpc[t] = "have" /\ gpc' = [gpc EXCEPT ![t] = "idle"]
  PROVE  LockInv'
<1> USE GlobalSessionAssumption DEF LockInv, DGoto
<1> DEFINE Steps == {"check", "buildin", "buildget", "store", "return"}
<1>1. ProcOf[t] \in Procs
  OBVIOUS
<1>2. t # None /\ (cacheLock[ProcOf[t]] = t => dpc[t] \in Steps)
  BY DEF LocksAreGivenBack, ThreadsOf
<1> DEFINE Moves == /\ LockTypes'
                    /\ \A u \in Threads \ {t} : dpc'[u] = dpc[u]
                    /\ \A p \in Procs : cacheLock'[p] \in {None, cacheLock[p], t}
                    /\ cacheLock'[ProcOf[t]] = t => dpc'[t] \in Steps
<1>3. Moves
  <2> USE <1>1, <1>2 DEF LockTypes
  <2>1. CASE LookInCache(t)
    BY <2>1 DEF LookInCache
  <2>2. CASE LockCache(t)
    BY <2>2 DEF LockCache
  <2>3. CASE CheckAgain(t) \/ Update(t) \/ Store(t)
    BY <2>3 DEF CheckAgain, Update, Store
  <2>4. CASE LoopIn(t)
    BY <2>4 DEF LoopIn, Loop, GetOf, EndOf
  <2>5. CASE LoopGet(t)
    BY <2>5 DEF LoopGet, InOf, Unlock
  <2>6. CASE ReturnCache(t)
    BY <2>6 DEF Unlock, ReturnCache
  <2>7. CASE SetOne(t)
    BY <2>7 DEF SetOne
  <2>8. CASE Clear(t) \/ Invalidate(t)
    BY <2>8 DEF Clear, Invalidate, Sets
  <2>9. CASE MergeDone(t) \/ ResetDefaults(t)
    BY <2>9 DEF MergeDone, ResetDefaults
  <2>10. ASSUME NEW items, SetDefault(t, items) PROVE Moves
    BY <2>10 DEF SetDefault
  <2>11. ASSUME NEW kwargs, Merge(t, kwargs) PROVE Moves
    BY <2>11 DEF Merge
  <2> HIDE DEF Moves
  <2> QED BY <2>1, <2>2, <2>3, <2>4, <2>5, <2>6, <2>7, <2>8, <2>9, <2>10, <2>11
          DEF MergeStep, SetterStep
<1>4. HoldersAreBorn'
  BY <1>3 DEF HoldersAreBorn, LockTypes
<1>5. LocksAreGivenBack'
  <2>1. ASSUME NEW p \in Procs, globalLock'[p] \in ThreadsOf(p)
        PROVE  gpc'[globalLock'[p]] \in {"create", "closing", "forget"}
    BY <2>1 DEF LocksAreGivenBack, ThreadsOf, SessionInv, GlobalTypeOK
  <2>2. ASSUME NEW p \in Procs, cacheLock'[p] \in ThreadsOf(p)
        PROVE  dpc'[cacheLock'[p]] \in Steps
    <3>1. cacheLock'[p] = t => p = ProcOf[t]
      BY <2>2 DEF ThreadsOf
    <3>2. cacheLock'[p] # t => cacheLock'[p] = cacheLock[p] /\ cacheLock[p] \in Threads \ {t}
      BY <1>3, <2>2 DEF ThreadsOf
    <3> QED BY <1>3, <2>2, <3>1, <3>2 DEF LocksAreGivenBack
  <2> QED BY <2>1, <2>2 DEF LocksAreGivenBack, ThreadsOf
<1> QED BY <1>3, <1>4, <1>5

(* A fork copies the locks, and the copies have no holder in the child.    *)
LEMMA ForkLock ==
  ASSUME SessionInv, LockInv, NEW t \in Threads, NEW q \in Procs,
         Fork(t, q), ForkDefaults(t, q)
  PROVE  LockInv'
<1> DEFINE p == ProcOf[t]
<1> USE GlobalSessionAssumption DEF LockInv
<1>1. p \in Procs /\ p # q
  BY DEF Fork
<1>2. LockTypes'
  BY <1>1 DEF ForkDefaults, LockTypes
<1>3. HoldersAreBorn'
  BY <1>1 DEF Fork, ForkDefaults, HoldersAreBorn, LockTypes, SessionInv, GlobalTypeOK
<1>4. \A l \in {globalLock[p], cacheLock[p]} : l \notin ThreadsOf(q)
  BY <1>1 DEF Fork, HoldersAreBorn, ThreadsOf
<1>5. LocksAreGivenBack'
  BY <1>1, <1>4 DEF Fork, ForkDefaults, LocksAreGivenBack, ThreadsOf, LockTypes,
                    SessionInv, GlobalTypeOK
<1> QED BY <1>2, <1>3, <1>5

(* A process ends with its threads outside any block.                      *)
LEMMA ExitLock ==
  ASSUME SessionInv, LockInv, NEW p \in Procs, ExitProcess(p)
  PROVE  LockInv'
  BY GlobalSessionAssumption
  DEF LockInv, ExitProcess, Exit, LockTypes, HoldersAreBorn, LocksAreGivenBack, ThreadsOf,
      defaultsVars, SessionInv, GlobalTypeOK

(* Every step of the program keeps the invariant about the locks.          *)
LEMMA NextLock == SessionInv /\ LockInv /\ [Next]_vars => LockInv'
<1> SUFFICES ASSUME SessionInv, LockInv, [Next]_vars PROVE LockInv'
  OBVIOUS
<1>1. CASE UNCHANGED vars \/ Stop
  BY <1>1 DEF Stop, vars, sessionVars, defaultsVars, LockInv, LockTypes, HoldersAreBorn,
              LocksAreGivenBack, ThreadsOf
<1>2. ASSUME NEW t \in Threads, ThreadStep(t) PROVE LockInv'
  <2>1. CASE SessionStep(t) /\ UNCHANGED <<defaultsVars, apiVars>>
    BY <2>1, SessionLock DEF defaultsVars
  <2>2. CASE (MergeStep(t) \/ SetterStep(t)) /\ UNCHANGED <<sessionVars, apiVars>>
    <3>1. dpc[t] # "idle"
      BY <2>2 DEF MergeStep, SetterStep, LookInCache, LockCache, CheckAgain, LoopIn, Loop, LoopGet,
                  Update, Store, ReturnCache, SetOne, Clear, Invalidate, Sets
    <3>2. process[ProcOf[t]] # "unborn"
      BY <3>1 DEF LockInv, HoldersAreBorn
    <3>3. UNCHANGED <<process, globalLock>> /\ gpc' = gpc
      BY <2>2 DEF sessionVars
    <3> QED BY <2>2, <3>2, <3>3, DefaultsLock
  <2>3. CASE RequestMerge(t)
    <3>1. process[ProcOf[t]] # "unborn"
      BY <2>3 DEF RequestMerge, SessionInv, BornFirst
    <3>2. UNCHANGED <<process, globalLock>> /\ gpc' = gpc
      BY <2>3 DEF RequestMerge, sessionVars
    <3> QED BY <2>3, <3>1, <3>2, DefaultsLock DEF RequestMerge
  <2>4. CASE RequestSend(t)
    <3>1. process[ProcOf[t]] # "unborn"
      BY <2>4 DEF RequestSend, SessionInv, BornFirst
    <3> QED BY <2>4, <3>1, DefaultsLock DEF RequestSend, Release, Goto
  <2>5. CASE AsyncSend(t)
    <3>1. process[ProcOf[t]] # "unborn"
      BY <2>5 DEF AsyncSend, LockInv, HoldersAreBorn
    <3>2. UNCHANGED <<process, globalLock>> /\ gpc' = gpc
      BY <2>5 DEF AsyncSend, sessionVars
    <3> QED BY <2>5, <3>1, <3>2, DefaultsLock DEF AsyncSend
  <2> QED BY <1>2, <2>1, <2>2, <2>3, <2>4, <2>5 DEF ThreadStep
<1>3. ASSUME NEW t \in Threads,
             (\E kw \in Menu[t].request : Request(t, kw)) \/ CloseGlobal(t)
      PROVE  LockInv'
  BY <1>3, SessionLock DEF Request, CloseGlobal, defaultsVars
<1>4. ASSUME NEW t \in Threads,
             \/ \E kw \in Menu[t].async : AsyncRequest(t, kw)
             \/ \E items \in Menu[t].set : Set(t, items)
             \/ Reset(t)
      PROVE  LockInv'
  <2>1. process[ProcOf[t]] # "unborn"
    BY <1>4 DEF AsyncRequest, Set, Reset, Begins, Idle
  <2>2. UNCHANGED <<process, globalLock>> /\ gpc' = gpc
    BY <1>4 DEF AsyncRequest, Set, Reset, sessionVars
  <2> QED BY <1>4, <2>1, <2>2, DefaultsLock DEF AsyncRequest, Set, Reset
<1>5. ASSUME NEW t \in Threads, NEW q \in Procs, ForkProcess(t, q) PROVE LockInv'
  BY <1>5, ForkLock DEF ForkProcess
<1> QED BY <1>1, <1>2, <1>3, <1>4, <1>5, ExitLock DEF Next

-----------------------------------------------------------------------------
(* The moves of a thread between calls of get_global_session and           *)
(* close_global_session.                                                   *)
Moves(t) == Get(t) \/ SessionStep(t) \/ Release(t) \/ Close(t)

(* A thread moves alone, in a process that runs.                           *)
LEMMA MovesAlone ==
  ASSUME SessionInv, NEW t \in Threads, Moves(t)
  PROVE  /\ \A u \in Threads \ {t} : gpc'[u] = gpc[u] /\ got'[u] = got[u]
         /\ UNCHANGED process
BY DEF Moves, SessionInv, GlobalTypeOK, SessionStep, Get, CheckPid, ResetSession, AdoptPid, Look,
       LockGlobal, Create, Take, Release, Close, CloseSession, Forget, Goto

(* The lock is taken when it is free and given back by its holder.         *)
LEMMA HoldersKept ==
  ASSUME SessionInv, HoldersHold, NEW t \in Threads, Moves(t)
  PROVE  HoldersHold'
<1> USE GlobalSessionAssumption
<1>1. ProcOf[t] \in Procs /\ \A u \in Threads : ProcOf[u] \in Procs /\ u # None
  OBVIOUS
<1>2. globalLock \in [Procs -> Threads \cup {None}] /\ gpc \in [Threads ->
         {"idle", "pid", "reset", "adopt", "look", "lock", "create",
          "take", "have", "closelock", "closing", "forget"}]
  BY DEF SessionInv, GlobalTypeOK
<1>3. \A u \in Threads \ {t} : gpc'[u] = gpc[u]
  BY MovesAlone
<1> USE DEF Goto
<1>4. CASE LockGlobal(t, "lock", "create") \/ LockGlobal(t, "closelock", "closing")
  BY <1>1, <1>2, <1>3, <1>4 DEF HoldersHold, LockGlobal
<1>5. CASE Create(t) \/ CloseSession(t) \/ Forget(t)
  BY <1>1, <1>2, <1>3, <1>5 DEF HoldersHold, Create, CloseSession, Forget
<1>6. CASE \/ Get(t) \/ CheckPid(t) \/ ResetSession(t) \/ AdoptPid(t) \/ Look(t) \/ Take(t)
           \/ Release(t) \/ Close(t)
  BY <1>1, <1>2, <1>3, <1>6 DEF HoldersHold, Get, CheckPid, ResetSession, AdoptPid, Look, Take,
                                Release, Close
<1> QED BY <1>4, <1>5, <1>6 DEF Moves, SessionStep

(* Serial numbers count up.                                                *)
LEMMA SerialsKept ==
  ASSUME SessionInv, Serials, NEW t \in Threads, Moves(t)
  PROVE  Serials'
<1> USE GlobalSessionAssumption DEF SessionInv
<1>1. ProcOf[t] \in Procs
  OBVIOUS
<1>2. CASE Create(t) /\ session[ProcOf[t]] = None
  <2> DEFINE p == ProcOf[t]
             new == <<p, made[p] + 1>>
  <2>1. /\ made' = [made EXCEPT ![p] = @ + 1] /\ session' = [session EXCEPT ![p] = new]
        /\ UNCHANGED closed
    BY <1>1, <1>2 DEF Create, GlobalTypeOK
  <2>2. new[1] = p /\ new[2] = made[p] + 1
    OBVIOUS
  <2>3. \A q \in Procs : made[q] \in Nat /\ made'[q] \in Nat /\ made[q] <= made'[q]
    BY <1>1, <2>1 DEF GlobalTypeOK
  <2>4. made'[p] = made[p] + 1
    BY <1>1, <2>1 DEF GlobalTypeOK
  <2> HIDE DEF new
  <2>5. \A s \in Sessions : s[1] \in Procs /\ s[2] \in Nat
    BY DEF Sessions
  <2>6. \A s \in Sessions : s[2] <= made[s[1]] => s[2] <= made'[s[1]]
    BY <2>3, <2>5
  <2>7. \A q \in Procs : \A s \in closed'[q] : s[2] <= made'[s[1]]
    BY <2>1, <2>6 DEF Serials, GlobalTypeOK
  <2>8. \A q \in Procs : session'[q] # None => session'[q][2] <= made'[session'[q][1]]
    <3> SUFFICES ASSUME NEW q \in Procs, session'[q] # None
                 PROVE  session'[q][2] <= made'[session'[q][1]]
      OBVIOUS
    <3>1. CASE q = p
      BY <1>1, <2>1, <2>2, <2>3, <2>4, <3>1 DEF GlobalTypeOK
    <3>2. CASE q # p
      <4>1. session'[q] = session[q] /\ session[q] \in Sessions
        BY <2>1, <3>2 DEF GlobalTypeOK
      <4> QED BY <2>6, <4>1 DEF Serials
    <3> QED BY <3>1, <3>2
  <2> QED BY <2>7, <2>8 DEF Serials
<1>3. CASE CloseSession(t)
  BY <1>1, <1>3 DEF CloseSession, Serials, GlobalTypeOK
<1>4. CASE ResetSession(t) \/ Forget(t)
  BY <1>1, <1>4 DEF ResetSession, Forget, Serials, GlobalTypeOK
<1>5. CASE UNCHANGED <<session, closed, made>>
  BY <1>5 DEF Serials
<1> QED BY <1>2, <1>3, <1>4, <1>5
        DEF Moves, SessionStep, Get, CheckPid, AdoptPid, Look, LockGlobal, Create, Take, Release, Close

(* Before a child has adopted its process id it has created no session.    *)
LEMMA AdoptionKept ==
  ASSUME SessionInv, NothingBeforeAdoption, NEW t \in Threads, Moves(t)
  PROVE  NothingBeforeAdoption'
<1> USE GlobalSessionAssumption DEF SessionInv, Goto
<1>1. ProcOf[t] \in Procs
  OBVIOUS
<1>2. CASE Create(t)
  <2>1. parentPid[ProcOf[t]] = ProcOf[t]
    BY <1>2 DEF Create, ResetFirst
  <2> QED BY <1>1, <1>2, <2>1 DEF Create, NothingBeforeAdoption, GlobalTypeOK
<1>3. CASE ResetSession(t) \/ AdoptPid(t) \/ Forget(t)
  BY <1>1, <1>3 DEF ResetSession, AdoptPid, Forget, NothingBeforeAdoption, GlobalTypeOK
<1>4. CASE \/ Get(t) \/ CheckPid(t) \/ Look(t) \/ Take(t) \/ Release(t) \/ Close(t) \/ CloseSession(t)
           \/ LockGlobal(t, "lock", "create") \/ LockGlobal(t, "closelock", "closing")
  BY <1>1, <1>4 DEF Get, CheckPid, Look, Take, Release, Close, CloseSession, LockGlobal,
                    NothingBeforeAdoption, GlobalTypeOK
<1> QED BY <1>2, <1>3, <1>4 DEF Moves, SessionStep

(* A new session is open.                                                  *)
LEMMA NewIsOpen ==
  ASSUME SessionInv, Serials, NEW p \in Procs, NEW q \in Procs
  PROVE  <<p, made[p] + 1>> \notin closed[q]
<1>1. made[p] \in Nat
  BY DEF SessionInv, GlobalTypeOK
<1>2. ASSUME <<p, made[p] + 1>> \in closed[q] PROVE FALSE
  <2>1. <<p, made[p] + 1>>[2] <= made[<<p, made[p] + 1>>[1]]
    BY <1>2 DEF Serials
  <2> QED BY <1>1, <2>1
<1> QED BY <1>2

(* A closed session is current only while the thread that closed it is     *)
(* about to forget it.                                                     *)
LEMMA ForgottenKept ==
  ASSUME SessionInv, OpenInv, NEW t \in Threads, Moves(t)
  PROVE  ClosedIsForgotten'
<1> USE GlobalSessionAssumption DEF SessionInv, OpenInv, Goto
<1> DEFINE p == ProcOf[t]
<1>1. p \in Procs /\ None \notin closed[p]
  BY DEF GlobalTypeOK, Sessions
<1>2. CASE Create(t) /\ session[p] = None
  <2>1. /\ session' = [session EXCEPT ![p] = <<p, made[p] + 1>>] /\ gpc' = [gpc EXCEPT ![t] = "take"]
        /\ UNCHANGED <<closed, parentPid>> /\ gpc[t] = "create"
    BY <1>1, <1>2 DEF Create, GlobalTypeOK
  <2>2. \A u \in ThreadsOf(p) : gpc[u] # "forget"
    BY <2>1 DEF HoldersHold, ThreadsOf
  <2>3. session'[p] \notin closed'[p] /\ \A q \in Procs \ {p} : session'[q] = session[q]
    BY <1>1, <2>1, NewIsOpen DEF GlobalTypeOK
  <2>4. \A u \in Threads : gpc'[u] = "forget" <=> gpc[u] = "forget"
    BY <2>1 DEF GlobalTypeOK
  <2> QED BY <2>1, <2>2, <2>3, <2>4 DEF ClosedIsForgotten, ThreadsOf
<1>3. CASE Create(t) /\ session[p] # None
  BY <1>1, <1>3 DEF Create, ClosedIsForgotten, GlobalTypeOK, ThreadsOf
<1>4. CASE CloseSession(t)
  BY <1>1, <1>4 DEF CloseSession, ClosedIsForgotten, GlobalTypeOK, ThreadsOf
<1>5. CASE ResetSession(t) \/ Forget(t)
  <2>1. /\ session' = [session EXCEPT ![p] = None] /\ UNCHANGED <<closed, parentPid>>
        /\ gpc' = [gpc EXCEPT ![t] = "adopt"] \/ gpc' = [gpc EXCEPT ![t] = "idle"]
    BY <1>5 DEF ResetSession, Forget
  <2>2. session'[p] = None /\ \A q \in Procs \ {p} : session'[q] = session[q]
    BY <1>1, <2>1 DEF GlobalTypeOK
  <2>3. \A u \in Threads \ {t} : gpc'[u] = gpc[u]
    BY MovesAlone
  <2>4. gpc'[t] # "forget"
    BY <2>1 DEF GlobalTypeOK
  <2> QED BY <1>1, <2>1, <2>2, <2>3, <2>4 DEF ClosedIsForgotten, ThreadsOf
<1>6. CASE AdoptPid(t)
  <2>1. /\ UNCHANGED <<session, closed>> /\ gpc[t] = "adopt" /\ gpc' = [gpc EXCEPT ![t] = "look"]
        /\ parentPid' = [parentPid EXCEPT ![p] = p]
    BY <1>6 DEF AdoptPid
  <2>2. parentPid[p] # p => session[p] \notin closed[p]
    BY <1>1, <2>1 DEF NothingBeforeAdoption
  <2>3. \A u \in Threads : gpc'[u] = "forget" <=> gpc[u] = "forget"
    BY <2>1 DEF GlobalTypeOK
  <2>4. \A q \in Procs \ {p} : parentPid'[q] = parentPid[q]
    BY <1>1, <2>1 DEF GlobalTypeOK
  <2> QED BY <2>1, <2>2, <2>3, <2>4 DEF ClosedIsForgotten, ThreadsOf
<1>7. CASE \/ Get(t) \/ CheckPid(t) \/ Look(t) \/ Take(t) \/ Release(t) \/ Close(t)
           \/ LockGlobal(t, "lock", "create") \/ LockGlobal(t, "closelock", "closing")
  <2>1. UNCHANGED <<session, closed, parentPid>>
    BY <1>7 DEF Get, CheckPid, Look, Take, Release, Close, LockGlobal
  <2>2. \A u \in Threads : gpc'[u] = "forget" <=> gpc[u] = "forget"
    BY <1>7 DEF Get, CheckPid, Look, Take, Release, Close, LockGlobal, GlobalTypeOK
  <2> QED BY <2>1, <2>2 DEF ClosedIsForgotten, ThreadsOf
<1> QED BY <1>2, <1>3, <1>4, <1>5, <1>6, <1>7 DEF Moves, SessionStep

(* A thread that makes a call.                                             *)
Calling(t) == gpc[t] \in {"pid", "reset", "adopt", "look", "lock", "create", "take", "have"}

(* A call during which no other thread closed or dropped the session is    *)
(* given an open one.                                                      *)
LEMMA UndisturbedKept ==
  ASSUME SessionInv, OpenInv, NEW t \in Threads, Moves(t)
  PROVE  Undisturbed'
<1> USE GlobalSessionAssumption DEF SessionInv, OpenInv, Goto
<1> DEFINE p == ProcOf[t]
           Fine(u) == /\ Calling(u) => \A v \in ThreadsOf(ProcOf[u]) : gpc[v] # "forget"
                      /\ gpc[u] = "take" => session[ProcOf[u]] # None
                      /\ gpc[u] = "have" => got[u] # None /\ got[u] \notin closed[ProcOf[u]]
<1>1. p \in Procs /\ None \notin closed[p]
  BY DEF GlobalTypeOK, Sessions
<1>2. \A u \in Threads \ {t} : gpc'[u] = gpc[u] /\ got'[u] = got[u]
  BY MovesAlone
<1>3. \A u \in Threads \ disturbed : Fine(u)
  BY DEF Undisturbed, Calling
<1>4. SUFFICES ASSUME NEW u \in Threads, u \notin disturbed' PROVE Fine(u)'
  BY DEF Undisturbed, Calling
<1> DEFINE q == ProcOf[u]
<1>5. CASE ResetSession(t) \/ Forget(t) \/ (CloseSession(t) /\ session[p] # None)
  <2>1. /\ disturbed' = disturbed \cup {v \in ThreadsOf(p) \ {t} : gpc[v] # "idle"}
        /\ \A r \in Procs \ {p} : session'[r] = session[r] /\ closed'[r] = closed[r]
        /\ gpc'[t] = "forget" => gpc[t] = "closing"
    BY <1>1, <1>5 DEF ResetSession, Forget, CloseSession, Disturb, GlobalTypeOK
  <2>2. u \notin disturbed /\ (u = t \/ gpc[u] = "idle" \/ q # p)
    BY <1>4, <2>1 DEF ThreadsOf
  <2>3. CASE u # t /\ gpc[u] = "idle"
    BY <1>2, <2>3 DEF Calling
  <2>4. CASE u # t /\ q # p
    <3>1. Fine(u) /\ gpc'[u] = gpc[u] /\ got'[u] = got[u] /\ q \in Procs \ {p}
      BY <1>2, <1>3, <2>2, <2>4
    <3>2. \A v \in ThreadsOf(q) : gpc'[v] = gpc[v]
      BY <1>2, <2>4 DEF ThreadsOf
    <3> QED BY <2>1, <3>1, <3>2 DEF Calling, ThreadsOf
  <2>5. CASE u = t
    <3>1. gpc'[t] \in {"adopt", "idle", "forget"} /\ (gpc'[t] = "adopt" => gpc[t] = "reset")
      BY <1>5 DEF ResetSession, Forget, CloseSession, GlobalTypeOK
    <3>2. gpc'[t] = "adopt" => \A v \in ThreadsOf(p) : gpc[v] # "forget"
      BY <1>3, <2>2, <2>5, <3>1 DEF Calling
    <3>3. gpc'[t] = "adopt" => \A v \in ThreadsOf(p) : gpc'[v] # "forget"
      BY <1>2, <3>2 DEF ThreadsOf
    <3> QED BY <2>5, <3>1, <3>3 DEF Calling, ThreadsOf
  <2> QED BY <2>2, <2>3, <2>4, <2>5
<1>6. CASE CloseSession(t) /\ session[p] = None
  <2>1. UNCHANGED <<session, closed, disturbed>> /\ gpc'[t] = "idle"
    BY <1>6 DEF CloseSession, GlobalTypeOK
  <2>2. \A v \in Threads : gpc'[v] = gpc[v] \/ gpc'[v] = "idle"
    BY <1>2, <2>1
  <2>3. u = t => ~Calling(u)' /\ gpc'[u] = "idle"
    BY <2>1 DEF Calling
  <2> QED BY <1>2, <1>3, <1>4, <2>1, <2>2, <2>3 DEF Calling, ThreadsOf
<1>7. CASE Get(t)
  <2>1. /\ UNCHANGED <<session, closed, got>> /\ gpc'[t] = "pid"
        /\ disturbed' = IF \E v \in ThreadsOf(p) : gpc[v] = "forget"
                          THEN disturbed \cup {t} ELSE disturbed \ {t}
    BY <1>7 DEF Get, GlobalTypeOK
  <2>2. \A v \in Threads : gpc'[v] = "forget" => gpc[v] = "forget"
    BY <1>2, <2>1
  <2>3. CASE u = t
    <3>1. \A v \in ThreadsOf(p) : gpc[v] # "forget"
      BY <1>4, <2>1, <2>3
    <3> QED BY <2>1, <2>2, <2>3, <3>1 DEF ThreadsOf
  <2>4. CASE u # t
    BY <1>2, <1>3, <1>4, <2>1, <2>2, <2>4 DEF Calling, ThreadsOf
  <2> QED BY <2>3, <2>4
<1>8. CASE Release(t)
  <2>1. UNCHANGED <<session, closed>> /\ gpc'[t] = "idle" /\ disturbed' = disturbed \ {t}
    BY <1>8 DEF Release, GlobalTypeOK
  <2>2. \A v \in Threads : gpc'[v] = "forget" => gpc[v] = "forget"
    BY <1>2, <2>1
  <2> QED BY <1>2, <1>3, <1>4, <2>1, <2>2 DEF Calling, ThreadsOf
<1>9. CASE Create(t)
  <2>1. /\ UNCHANGED <<closed, got, disturbed>> /\ gpc'[t] = "take" /\ gpc[t] = "create"
        /\ \A r \in Procs : session[r] # None => session'[r] = session[r]
        /\ session'[p] # None
    <3>1. <<p, made[p] + 1>> # None
      BY <1>1 DEF GlobalTypeOK
    <3>2. /\ UNCHANGED <<closed, got, disturbed>> /\ gpc'[t] = "take" /\ gpc[t] = "create"
      BY <1>9 DEF Create, GlobalTypeOK
    <3>3. CASE session[p] = None
      <4>1. session' = [session EXCEPT ![p] = <<p, made[p] + 1>>]
        BY <1>1, <1>9, <3>3 DEF Create, GlobalTypeOK
      <4> QED BY <1>1, <3>1, <3>2, <3>3, <4>1 DEF GlobalTypeOK
    <3>4. CASE session[p] # None
      BY <1>9, <3>2, <3>4 DEF Create
    <3> QED BY <3>3, <3>4
  <2>2. \A v \in Threads : gpc'[v] = "forget" => gpc[v] = "forget"
    BY <1>2, <2>1
  <2>3. q \in Procs
    OBVIOUS
  <2> QED BY <1>2, <1>3, <1>4, <2>1, <2>2, <2>3 DEF Calling, ThreadsOf
<1>10. CASE Take(t)
  <2>1. /\ UNCHANGED <<session, closed, disturbed>> /\ gpc'[t] = "have" /\ gpc[t] = "take"
        /\ got'[t] = session[p] /\ parentPid[p] = p
    BY <1>1, <1>10 DEF Take, GlobalTypeOK, ResetFirst
  <2>2. \A v \in Threads : gpc'[v] = "forget" => gpc[v] = "forget"
    BY <1>2, <2>1
  <2>3. CASE u = t
    <3>1. Fine(t)
      BY <1>3, <1>4, <2>1, <2>3
    <3>2. session[p] # None /\ \A v \in ThreadsOf(p) : gpc[v] # "forget"
      BY <2>1, <3>1 DEF Calling
    <3>3. session[p] \notin closed[p]
      BY <1>1, <2>1, <3>2 DEF ClosedIsForgotten
    <3> QED BY <2>1, <2>2, <2>3, <3>2, <3>3 DEF ThreadsOf
  <2>4. CASE u # t
    BY <1>2, <1>3, <1>4, <2>1, <2>2, <2>4 DEF Calling, ThreadsOf
  <2> QED BY <2>3, <2>4
<1>11. CASE \/ CheckPid(t) \/ AdoptPid(t) \/ Look(t) \/ LockGlobal(t, "lock", "create")
  <2>1. /\ UNCHANGED <<session, closed, got, disturbed>>
        /\ Calling(t) /\ gpc'[t] \notin {"have", "forget"}
        /\ gpc'[t] = "take" => session[p] # None
    BY <1>11 DEF CheckPid, AdoptPid, Look, LockGlobal, GlobalTypeOK, Calling
  <2>2. \A v \in Threads : gpc'[v] = "forget" => gpc[v] = "forget"
    BY <1>2, <2>1
  <2> QED BY <1>2, <1>3, <1>4, <2>1, <2>2 DEF Calling, ThreadsOf
<1>12. CASE Close(t) \/ LockGlobal(t, "closelock", "closing")
  <2>1. /\ UNCHANGED <<session, closed, got, disturbed>> /\ gpc'[t] \in {"closelock", "closing"}
    BY <1>12 DEF Close, LockGlobal, GlobalTypeOK
  <2>2. \A v \in Threads : gpc'[v] = "forget" => gpc[v] = "forget"
    BY <1>2, <2>1
  <2> QED BY <1>2, <1>3, <1>4, <2>1, <2>2 DEF Calling, ThreadsOf
<1> QED BY <1>5, <1>6, <1>7, <1>8, <1>9, <1>10, <1>11, <1>12 DEF Moves, SessionStep

(* A child starts with nobody in a call and with a copy of the session.    *)
LEMMA ForkOpen ==
  ASSUME SessionInv, OpenInv, NEW t \in Threads, NEW q \in Procs, Fork(t, q)
  PROVE  OpenInv'
<1> USE GlobalSessionAssumption DEF SessionInv, OpenInv
<1> DEFINE p == ProcOf[t]
<1>1. p \in Procs /\ p # q /\ parentPid[p] # q
  BY DEF Fork, BornFirst
<1>2. \A u \in ThreadsOf(q) : gpc[u] = "idle"
  BY DEF Fork, BornFirst, ThreadsOf
<1>3. /\ UNCHANGED <<made, gpc, got, disturbed>>
      /\ session' = [session EXCEPT ![q] = session[p]]
      /\ globalLock' = [globalLock EXCEPT ![q] = globalLock[p]]
      /\ parentPid' = [parentPid EXCEPT ![q] = parentPid[p]]
      /\ closed' = [closed EXCEPT ![q] = closed[p]]
  BY DEF Fork
<1>4. /\ session'[q] = session[p] /\ closed'[q] = closed[p] /\ parentPid'[q] # q
      /\ \A r \in Procs \ {q} : /\ session'[r] = session[r] /\ closed'[r] = closed[r]
                                /\ parentPid'[r] = parentPid[r] /\ globalLock'[r] = globalLock[r]
  BY <1>1, <1>3 DEF GlobalTypeOK
<1>5. \A u \in Threads : gpc[u] # "idle" => ProcOf[u] \in Procs \ {q}
  BY <1>2 DEF ThreadsOf
<1>6. HoldersHold'
  BY <1>3, <1>4, <1>5 DEF HoldersHold
<1>7. Serials'
  BY <1>1, <1>3, <1>4 DEF Serials
<1>8. NothingBeforeAdoption'
  <2>1. made[q] = 0
    BY DEF NothingBeforeAdoption, BornFirst, Fork
  <2> QED BY <1>3, <1>4, <1>5, <2>1 DEF NothingBeforeAdoption
<1>9. ClosedIsForgotten'
  BY <1>3, <1>4, <1>5 DEF ClosedIsForgotten, ThreadsOf
<1>10. Undisturbed'
  BY <1>3, <1>4, <1>5 DEF Undisturbed, ThreadsOf
<1> QED BY <1>6, <1>7, <1>8, <1>9, <1>10

(* The end of a process closes its session with nobody in a call.          *)
LEMMA ExitOpen ==
  ASSUME SessionInv, OpenInv, NEW p \in Procs, Exit(p)
  PROVE  OpenInv'
<1> USE GlobalSessionAssumption DEF SessionInv, OpenInv
<1>1. UNCHANGED <<globalLock, parentPid, made, gpc, got, disturbed>>
  BY DEF Exit
<1>2. \A u \in Threads : gpc[u] # "idle" => ProcOf[u] \in Procs \ {p}
  BY DEF Exit, ThreadsOf
<1>3. \A r \in Procs \ {p} : session'[r] = session[r] /\ closed'[r] = closed[r]
  BY DEF Exit, GlobalTypeOK
<1>4. \/ session'[p] = session[p] /\ closed'[p] = closed[p]
      \/ session'[p] = None /\ session[p] # None /\ closed'[p] = closed[p] \cup {session[p]}
  BY DEF Exit, GlobalTypeOK
<1>5. HoldersHold' /\ NothingBeforeAdoption'
  BY <1>1, <1>2, <1>3 DEF HoldersHold, NothingBeforeAdoption
<1>6. Serials'
  BY <1>1, <1>3, <1>4 DEF Serials
<1>7. ClosedIsForgotten'
  <2>1. None \notin closed[p]
    BY DEF GlobalTypeOK, Sessions
  <2> QED BY <1>1, <1>2, <1>3, <1>4, <2>1 DEF ClosedIsForgotten, ThreadsOf
<1>8. Undisturbed'
  BY <1>1, <1>2, <1>3 DEF Undisturbed, ThreadsOf
<1> QED BY <1>5, <1>6, <1>7, <1>8

(* Every step of GlobalSession keeps track of the open sessions.           *)
LEMMA NextOpen == SessionInv /\ OpenInv /\ [GlobalNext]_sessionVars => OpenInv'
<1> SUFFICES ASSUME SessionInv, OpenInv, [GlobalNext]_sessionVars PROVE OpenInv'
  OBVIOUS
<1>1. CASE UNCHANGED sessionVars
  BY <1>1 DEF sessionVars, OpenInv, HoldersHold, Serials, NothingBeforeAdoption,
              ClosedIsForgotten, Undisturbed, ThreadsOf
<1>2. ASSUME NEW t \in Threads, Moves(t) PROVE OpenInv'
  BY <1>2, HoldersKept, SerialsKept, AdoptionKept, ForgottenKept, UndisturbedKept DEF OpenInv
<1>3. CASE GlobalNext
  BY <1>2, <1>3, ForkOpen, ExitOpen DEF GlobalNext, Moves
<1> QED BY <1>1, <1>3

-----------------------------------------------------------------------------
(* Finitely many sessions can be lost, and threads can reset.              *)
LEMMA CountsAreFinite ==
  ASSUME SessionInv, NEW p \in Procs
  PROVE  /\ IsFiniteSet(Lost(p)) /\ IsFiniteSet(Resetting(p)) /\ IsFiniteSet(ThreadsOf(p))
         /\ Cardinality(Lost(p)) \in Nat /\ Cardinality(Resetting(p)) \in Nat
         /\ Cardinality(ThreadsOf(p)) \in Nat
<1> DEFINE N == 1..made[p]
           All == {<<p, n>> : n \in N}
           f == [n \in N |-> <<p, n>>]
<1>1. IsFiniteSet(N)
  BY FS_Interval DEF SessionInv, GlobalTypeOK
<1>2. f \in Surjection(N, All)
  BY DEF Surjection
<1>3. IsFiniteSet(All)
  BY <1>1, <1>2, FS_Surjection
<1>4. Lost(p) \in SUBSET All
  BY DEF Lost
<1>5. ThreadsOf(p) \in SUBSET Threads /\ Resetting(p) \in SUBSET Threads
  BY DEF ThreadsOf, Resetting
<1>6. IsFiniteSet(Lost(p))
  <2> HIDE DEF All
  <2> QED BY <1>3, <1>4, FS_Subset
<1>7. IsFiniteSet(ThreadsOf(p)) /\ IsFiniteSet(Resetting(p))
  BY <1>5, FS_Subset, GlobalSessionAssumption
<1> QED BY <1>6, <1>7, FS_CardinalityType

(* Only a reset can lose a session: creating finds none to overwrite, and  *)
(* closing and forgetting go together.                                     *)
LEMMA LostShrinks ==
  ASSUME SessionInv, OpenInv, NEW p \in Procs, NEW t \in Threads, Moves(t),
         ~(ResetSession(t) /\ ProcOf[t] = p)
  PROVE  Lost(p)' \subseteq Lost(p)
<1> USE GlobalSessionAssumption DEF SessionInv, OpenInv
<1>1. ProcOf[t] \in Procs
  OBVIOUS
<1>2. CASE ProcOf[t] # p
  <2>1. made'[p] = made[p] /\ closed'[p] = closed[p] /\ session'[p] = session[p]
    BY <1>1, <1>2 DEF GlobalTypeOK, Moves, SessionStep, Get, CheckPid, ResetSession, AdoptPid,
                      Look, LockGlobal, Create, Take, Release, Close, CloseSession, Forget
  <2> QED BY <2>1 DEF Lost
<1>3. CASE UNCHANGED <<made, closed, session>>
  BY <1>3 DEF Lost
<1>4. CASE ProcOf[t] = p /\ Create(t) /\ session[p] = None
  <2>1. made'[p] = made[p] + 1 /\ closed'[p] = closed[p] /\ session'[p] = <<p, made[p] + 1>>
    BY <1>4 DEF Create, GlobalTypeOK
  <2>2. None \notin Lost(p) /\ made[p] \in Nat
    BY DEF Lost, GlobalTypeOK
  <2>3. \A n \in 1..(made[p] + 1) : n \in 1..made[p] \/ n = made[p] + 1
    BY <2>2
  <2> QED BY <1>4, <2>1, <2>2, <2>3 DEF Lost
<1>5. CASE ProcOf[t] = p /\ CloseSession(t)
  <2>1. made'[p] = made[p] /\ closed[p] \subseteq closed'[p] /\ session'[p] = session[p]
    BY <1>5 DEF CloseSession, GlobalTypeOK
  <2> QED BY <2>1 DEF Lost
<1>6. CASE ProcOf[t] = p /\ Forget(t)
  <2>1. made'[p] = made[p] /\ closed[p] = closed'[p] /\ session'[p] = None
    BY <1>6 DEF Forget, GlobalTypeOK
  <2>2. session[p] \in closed[p] \cup {None}
    BY <1>6 DEF ClosedIsForgotten, Forget
  <2> QED BY <2>1, <2>2 DEF Lost
<1> QED BY <1>2, <1>3, <1>4, <1>5, <1>6
        DEF Moves, SessionStep, Get, CheckPid, AdoptPid, Look, LockGlobal, Create, Take, Release, Close

(* A step that loses no session and sends no thread into the reset.        *)
LEMMA StaysCounted ==
  ASSUME SessionInv, SessionInv', NEW p \in Procs,
         Lost(p)' \subseteq Lost(p), Resetting(p)' \subseteq Resetting(p),
         Cardinality(Lost(p)) + Cardinality(Resetting(p)) < Cardinality(ThreadsOf(p))
  PROVE  (Cardinality(Lost(p)) + Cardinality(Resetting(p)) < Cardinality(ThreadsOf(p)))'
<1>1. /\ IsFiniteSet(Lost(p)) /\ IsFiniteSet(Resetting(p))
      /\ Cardinality(Lost(p)) \in Nat /\ Cardinality(Resetting(p)) \in Nat
      /\ Cardinality(ThreadsOf(p)) \in Nat
  BY CountsAreFinite
<1>2. Cardinality(Lost(p)') <= Cardinality(Lost(p)) /\ IsFiniteSet(Lost(p)')
  BY <1>1, FS_Subset
<1>3. Cardinality(Resetting(p)') <= Cardinality(Resetting(p)) /\ IsFiniteSet(Resetting(p)')
  BY <1>1, FS_Subset
<1>4. Cardinality(Lost(p)') \in Nat /\ Cardinality(Resetting(p)') \in Nat
  BY <1>2, <1>3, FS_CardinalityType
<1>5. ThreadsOf(p)' = ThreadsOf(p)
  BY DEF ThreadsOf
<1> QED BY <1>1, <1>2, <1>3, <1>4, <1>5

(* A reset loses at most the session it drops, and its thread resets no    *)
(* more.                                                                   *)
LEMMA ResetCounted ==
  ASSUME SessionInv, NEW t \in Threads, ResetSession(t),
         Cardinality(Lost(ProcOf[t])) + Cardinality(Resetting(ProcOf[t])) <
           Cardinality(ThreadsOf(ProcOf[t])),
         NEW p \in Procs, p = ProcOf[t]
  PROVE  (Cardinality(Lost(p)) + Cardinality(Resetting(p)) < Cardinality(ThreadsOf(p)))'
<1>1. /\ IsFiniteSet(Lost(p)) /\ IsFiniteSet(Resetting(p))
      /\ Cardinality(Lost(p)) \in Nat /\ Cardinality(Resetting(p)) \in Nat
      /\ Cardinality(ThreadsOf(p)) \in Nat
  BY CountsAreFinite
<1>2. /\ made'[p] = made[p] /\ closed'[p] = closed[p]
      /\ gpc[t] = "reset" /\ gpc' = [gpc EXCEPT ![t] = "adopt"]
  BY DEF ResetSession, Goto
<1>3. Lost(p)' \in SUBSET (Lost(p) \cup {session[p]})
  BY <1>2 DEF Lost
<1>4. IsFiniteSet(Lost(p)') /\ Cardinality(Lost(p)') <= Cardinality(Lost(p)) + 1
  <2>1. /\ IsFiniteSet(Lost(p) \cup {session[p]})
        /\ Cardinality(Lost(p) \cup {session[p]}) =
             IF session[p] \in Lost(p) THEN Cardinality(Lost(p)) ELSE Cardinality(Lost(p)) + 1
    BY <1>1, FS_AddElement
  <2>2. /\ IsFiniteSet(Lost(p)')
        /\ Cardinality(Lost(p)') <= Cardinality(Lost(p) \cup {session[p]})
    BY <1>3, <2>1, FS_Subset
  <2>3. Cardinality(Lost(p)') \in Nat
    BY <2>2, FS_CardinalityType
  <2> QED BY <1>1, <2>1, <2>2, <2>3
<1>5. Resetting(p)' = Resetting(p) \ {t} /\ t \in Resetting(p)
  BY <1>2 DEF Resetting, ThreadsOf, SessionInv, GlobalTypeOK
<1>6. Cardinality(Resetting(p)') = Cardinality(Resetting(p)) - 1
  BY <1>1, <1>5, FS_RemoveElement
<1>7. Cardinality(Lost(p)') \in Nat
  BY <1>4, FS_CardinalityType
<1>8. ThreadsOf(p)' = ThreadsOf(p)
  BY DEF ThreadsOf
<1> QED BY <1>1, <1>4, <1>6, <1>7, <1>8

(* The first thread to adopt the process id is past its reset, and the     *)
(* child has no session yet.                                               *)
LEMMA AdoptCounted ==
  ASSUME SessionInv, OpenInv, NEW t \in Threads, AdoptPid(t),
         NEW p \in Procs, p = ProcOf[t], parentPid[p] # p
  PROVE  (Cardinality(Lost(p)) + Cardinality(Resetting(p)) < Cardinality(ThreadsOf(p)))'
<1>1. /\ gpc[t] = "adopt" /\ gpc' = [gpc EXCEPT ![t] = "look"] /\ UNCHANGED made
  BY DEF AdoptPid, Goto
<1>2. made'[p] = 0
  BY <1>1 DEF OpenInv, NothingBeforeAdoption
<1>3. Lost(p)' = {}
  BY <1>2 DEF Lost
<1>4. IsFiniteSet(ThreadsOf(p)) /\ t \in ThreadsOf(p) /\ ThreadsOf(p)' = ThreadsOf(p)
  BY CountsAreFinite DEF ThreadsOf
<1>5. Resetting(p)' \in SUBSET (ThreadsOf(p) \ {t})
  BY <1>1 DEF Resetting, ThreadsOf, SessionInv, GlobalTypeOK
<1>6. /\ IsFiniteSet(ThreadsOf(p) \ {t})
      /\ Cardinality(ThreadsOf(p) \ {t}) = Cardinality(ThreadsOf(p)) - 1
  BY <1>4, FS_RemoveElement
<1>7. /\ IsFiniteSet(Resetting(p)')
      /\ Cardinality(Resetting(p)') <= Cardinality(ThreadsOf(p) \ {t})
  BY <1>5, <1>6, FS_Subset
<1>8. Cardinality(Resetting(p)') \in Nat /\ Cardinality(ThreadsOf(p)) \in Nat
  BY <1>4, <1>7, FS_CardinalityType
<1> QED BY <1>3, <1>4, <1>6, <1>7, <1>8, FS_EmptySet

(* The move of a thread keeps the count.                                   *)
LEMMA MovesCounted ==
  ASSUME SessionInv, SessionInv', OpenInv, ResetsCounted, NEW t \in Threads, Moves(t)
  PROVE  ResetsCounted'
<1> USE GlobalSessionAssumption
<1>1. ProcOf[t] \in Procs /\ Root \in Procs
  OBVIOUS
<1>2. \A p \in Procs : parentPid'[p] = parentPid[p] \/ (AdoptPid(t) /\ p = ProcOf[t] /\ parentPid'[p] = p)
  BY <1>1 DEF SessionInv, GlobalTypeOK, Moves, SessionStep, Get, CheckPid, ResetSession, AdoptPid,
              Look, LockGlobal, Create, Take, Release, Close, CloseSession, Forget
<1>3. \A p \in Procs : parentPid[p] = p => Resetting(p)' \subseteq Resetting(p)
  <2>1. \A u \in Threads : gpc'[u] = "reset" /\ gpc[u] # "reset" =>
                             u = t /\ parentPid[ProcOf[t]] # ProcOf[t]
    BY DEF SessionInv, GlobalTypeOK, Moves, SessionStep, Get, CheckPid, ResetSession, AdoptPid,
           Look, LockGlobal, Create, Take, Release, Close, CloseSession, Forget, Goto
  <2> QED BY <2>1 DEF Resetting, ThreadsOf
<1>4. parentPid'[Root] = Root
  BY <1>1, <1>2 DEF ResetsCounted
<1>5. \A u \in ThreadsOf(Root)' : gpc'[u] \notin {"reset", "adopt"}
  <2>1. \A u \in Threads : gpc'[u] = "reset" /\ gpc[u] # "reset" =>
                             u = t /\ parentPid[ProcOf[t]] # ProcOf[t]
    BY DEF SessionInv, GlobalTypeOK, Moves, SessionStep, Get, CheckPid, ResetSession, AdoptPid,
           Look, LockGlobal, Create, Take, Release, Close, CloseSession, Forget, Goto
  <2>2. \A u \in Threads : gpc'[u] = "adopt" => gpc[u] \in {"adopt", "reset"}
    BY DEF SessionInv, GlobalTypeOK, Moves, SessionStep, Get, CheckPid, ResetSession, AdoptPid,
           Look, LockGlobal, Create, Take, Release, Close, CloseSession, Forget, Goto
  <2> QED BY <2>1, <2>2 DEF ResetsCounted, ThreadsOf
<1>6. Lost(Root)' = {}
  <2>1. ~(ResetSession(t) /\ ProcOf[t] = Root)
    BY DEF ResetsCounted, ThreadsOf, ResetSession
  <2>2. Lost(Root)' \subseteq Lost(Root)
    BY <1>1, <2>1, LostShrinks
  <2> QED BY <2>2 DEF ResetsCounted
<1>7. ASSUME NEW p \in Procs \ {Root}, parentPid'[p] = p
      PROVE  (Cardinality(Lost(p)) + Cardinality(Resetting(p)) < Cardinality(ThreadsOf(p)))'
  <2>1. CASE parentPid[p] # p
    BY <1>2, <1>7, <2>1, AdoptCounted
  <2>2. CASE parentPid[p] = p /\ ResetSession(t) /\ ProcOf[t] = p
    BY <2>2, ResetCounted DEF ResetsCounted
  <2>3. CASE parentPid[p] = p /\ ~(ResetSession(t) /\ ProcOf[t] = p)
    <3>1. Lost(p)' \subseteq Lost(p) /\ Resetting(p)' \subseteq Resetting(p)
      BY <1>3, <2>3, LostShrinks
    <3> QED BY <2>3, <3>1, StaysCounted DEF ResetsCounted
  <2> QED BY <2>1, <2>2, <2>3
<1> QED BY <1>4, <1>5, <1>6, <1>7 DEF ResetsCounted

(* So do a fork and the end of a process.                                  *)
LEMMA NextCounted ==
  SessionInv /\ SessionInv' /\ OpenInv /\ ResetsCounted /\ [GlobalNext]_sessionVars => ResetsCounted'
<1> SUFFICES ASSUME SessionInv, SessionInv', OpenInv, ResetsCounted, [GlobalNext]_sessionVars
             PROVE  ResetsCounted'
  OBVIOUS
<1> USE GlobalSessionAssumption
<1>1. CASE UNCHANGED sessionVars
  BY <1>1 DEF sessionVars, ResetsCounted, Lost, Resetting, ThreadsOf
<1>2. ASSUME NEW t \in Threads, NEW q \in Procs, Fork(t, q) PROVE ResetsCounted'
  <2>1. q # Root /\ parentPid'[q] # q
    BY <1>2 DEF Fork, SessionInv, BornFirst, GlobalTypeOK, ResetsCounted
  <2>2. /\ UNCHANGED <<made, gpc>>
        /\ \A p \in Procs \ {q} : /\ session'[p] = session[p] /\ closed'[p] = closed[p]
                                  /\ parentPid'[p] = parentPid[p]
    BY <1>2 DEF Fork, SessionInv, GlobalTypeOK
  <2>3. \A p \in Procs \ {q} : Lost(p)' = Lost(p)
    BY <2>2 DEF Lost
  <2>4. \A p \in Procs : Resetting(p)' = Resetting(p) /\ ThreadsOf(p)' = ThreadsOf(p)
    BY <2>2 DEF Resetting, ThreadsOf
  <2> QED BY <2>1, <2>2, <2>3, <2>4 DEF ResetsCounted
<1>3. ASSUME NEW p \in Procs, Exit(p) PROVE ResetsCounted'
  <2>1. UNCHANGED <<made, gpc, parentPid>>
    BY <1>3 DEF Exit
  <2>2. \A q \in Procs : Lost(q)' \subseteq Lost(q)
    <3>1. \A q \in Procs : closed[q] \cup {session[q]} \subseteq closed'[q] \cup {session'[q]}
      BY <1>3 DEF Exit, SessionInv, GlobalTypeOK
    <3> QED BY <2>1, <3>1 DEF Lost
  <2>3. \A q \in Procs : Resetting(q)' = Resetting(q) /\ ThreadsOf(q)' = ThreadsOf(q)
    BY <2>1 DEF Resetting, ThreadsOf
  <2>4. ASSUME NEW q \in Procs \ {Root}, parentPid[q] = q
        PROVE  (Cardinality(Lost(q)) + Cardinality(Resetting(q)) < Cardinality(ThreadsOf(q)))'
    BY <2>2, <2>3, <2>4, StaysCounted DEF ResetsCounted
  <2> QED BY <2>1, <2>2, <2>3, <2>4 DEF ResetsCounted
<1>4. ASSUME NEW t \in Threads, Moves(t) PROVE ResetsCounted'
  BY <1>4, MovesCounted
<1> QED BY <1>1, <1>2, <1>3, <1>4 DEF GlobalNext, Moves

(* A count within bounds leaves no more sessions open than the threads of  *)
(* a child but one.                                                        *)
LEMMA CountBounds == SessionInv /\ OpenInv /\ ResetsCounted => NoSessionLost
<1> SUFFICES ASSUME SessionInv, OpenInv, ResetsCounted PROVE NoSessionLost
  OBVIOUS
<1>1. ASSUME NEW p \in Procs \ {Root}, Lost(p) # {}
      PROVE  Cardinality(Lost(p)) < Cardinality(ThreadsOf(p))
  <2>1. parentPid[p] = p
    <3> SUFFICES ASSUME made[p] = 0 PROVE Lost(p) = {}
      BY <1>1 DEF OpenInv, NothingBeforeAdoption
    <3> QED BY DEF Lost
  <2>2. /\ Cardinality(Lost(p)) \in Nat /\ Cardinality(Resetting(p)) \in Nat
        /\ Cardinality(ThreadsOf(p)) \in Nat
    BY CountsAreFinite
  <2> QED BY <2>1, <2>2 DEF ResetsCounted
<1> QED BY <1>1 DEF NoSessionLost, ResetsCounted

-----------------------------------------------------------------------------
(* No dictionary is None, and the empty one is a dictionary.               *)
LEMMA DictFacts ==
  /\ None \notin Dicts /\ Empty \in Dicts /\ DOMAIN Empty = {}
  /\ \A d \in Dicts : DOMAIN d \subseteq Keys /\ \A k \in DOMAIN d : d[k] \in Values
<1>1. None \notin Dicts
  BY DefaultsAssumption DEF Dicts, Values
<1>2. Empty \in [{} -> Values] /\ DOMAIN Empty = {}
  BY DEF Empty
<1>3. ASSUME NEW d \in Dicts PROVE DOMAIN d \subseteq Keys /\ \A k \in DOMAIN d : d[k] \in Values
  <2>1. PICK K \in SUBSET Keys : d \in [K -> Values]
    BY <1>3 DEF Dicts
  <2> QED BY <2>1
<1> QED BY <1>1, <1>2, <1>3 DEF Dicts

(* d[key] = value *)
LEMMA PutFacts ==
  ASSUME NEW d \in Dicts, NEW key \in Keys, NEW value \in Values
  PROVE  /\ Put(d, key, value) \in Dicts
         /\ DOMAIN Put(d, key, value) = DOMAIN d \cup {key}
<1>1. PICK K \in SUBSET Keys : d \in [K -> Values]
  BY DEF Dicts
<1>2. Put(d, key, value) \in [K \cup {key} -> Values]
  BY <1>1 DEF Put
<1>3. K \cup {key} \in SUBSET Keys
  OBVIOUS
<1>4. Put(d, key, value) \in Dicts
  BY <1>2, <1>3 DEF Dicts
<1>5. DOMAIN Put(d, key, value) = DOMAIN d \cup {key}
  BY DEF Put
<1> QED BY <1>4, <1>5

(* The steps of the defaults, by whichever function of the module.         *)
DefaultsMove(t) ==
  \/ MergeStep(t) \/ SetterStep(t) \/ MergeDone(t) \/ ResetDefaults(t)
  \/ \E items : SetDefault(t, items)
  \/ \E kwargs : Merge(t, kwargs)

(* A thread only touches its own call and the memory of its own process.   *)
LEMMA DefaultsAlone ==
  ASSUME LockTypes, DefaultTypes, NEW t \in Threads, DefaultsMove(t)
  PROVE  /\ \A u \in Threads \ {t} :
              /\ dpc'[u] = dpc[u] /\ at'[u] = at[u] /\ given'[u] = given[u]
              /\ merged'[u] = merged[u] /\ failed'[u] = failed[u]
         /\ \A p \in Procs \ {ProcOf[t]} :
              /\ config'[p] = config[p] /\ cache'[p] = cache[p]
              /\ mayBeStale'[p] = mayBeStale[p] /\ cacheLock'[p] = cacheLock[p]
         /\ \A u \in Threads \ {t} : u \in changed => u \in changed'
<1> DEFINE Goal == /\ \A u \in Threads \ {t} :
                        /\ dpc'[u] = dpc[u] /\ at'[u] = at[u] /\ given'[u] = given[u]
                        /\ merged'[u] = merged[u] /\ failed'[u] = failed[u]
                   /\ \A p \in Procs \ {ProcOf[t]} :
                        /\ config'[p] = config[p] /\ cache'[p] = cache[p]
                        /\ mayBeStale'[p] = mayBeStale[p] /\ cacheLock'[p] = cacheLock[p]
                   /\ \A u \in Threads \ {t} : u \in changed => u \in changed'
<1> SUFFICES Goal
  OBVIOUS
<1> USE GlobalSessionAssumption DEF LockTypes, DefaultTypes, DGoto
<1>1. CASE LookInCache(t) \/ LockCache(t) \/ CheckAgain(t) \/ Store(t)
  BY <1>1 DEF LookInCache, LockCache, CheckAgain, Store
<1>2. CASE LoopIn(t)
  BY <1>2 DEF LoopIn
<1>3. CASE LoopGet(t)
  BY <1>3 DEF LoopGet, Unlock
<1>4. CASE Update(t)
  BY <1>4 DEF Update
<1>5. CASE ReturnCache(t)
  BY <1>5 DEF ReturnCache, Unlock
<1>6. CASE SetOne(t)
  BY <1>6 DEF SetOne, Change
<1>7. CASE Clear(t) \/ Invalidate(t)
  BY <1>7 DEF Clear, Invalidate, Change
<1>8. CASE MergeDone(t) \/ ResetDefaults(t)
  BY <1>8 DEF MergeDone, ResetDefaults
<1>9. ASSUME NEW items, SetDefault(t, items) PROVE Goal
  BY <1>9 DEF SetDefault
<1>10. ASSUME NEW kwargs, Merge(t, kwargs) PROVE Goal
  BY <1>10 DEF Merge
<1> HIDE DEF Goal
<1> QED BY <1>1, <1>2, <1>3, <1>4, <1>5, <1>6, <1>7, <1>8, <1>9, <1>10
        DEF DefaultsMove, MergeStep, SetterStep

(* The defaults of other processes and their cache are as they were.       *)
LEMMA FollowsElsewhere ==
  ASSUME LockTypes, DefaultTypes, NEW t \in Threads, DefaultsMove(t),
         NEW p \in Procs, p # ProcOf[t], Follows(p)
  PROVE  Follows(p)'
<1>1. /\ config'[p] = config[p] /\ cache'[p] = cache[p] /\ mayBeStale'[p] = mayBeStale[p]
  BY DefaultsAlone
<1>2. \A u \in ThreadsOf(p) : dpc'[u] = dpc[u] /\ at'[u] = at[u] /\ merged'[u] = merged[u]
  BY DefaultsAlone DEF ThreadsOf
<1>3. Dirty(p)' <=> Dirty(p)
  BY <1>2 DEF Dirty, ThreadsOf
<1>4. \A u \in ThreadsOf(p) : Read(u)' = Read(u)
  BY <1>2 DEF Read
<1>5. ThreadsOf(p)' = ThreadsOf(p)
  BY DEF ThreadsOf
<1> QED BY <1>1, <1>2, <1>3, <1>4, <1>5 DEF Follows, Agree, GetDefault

(* A thread that fills the cache holds the lock, whatever others do.       *)
LEMMA OthersFill ==
  ASSUME LockTypes, DefaultTypes, NEW t \in Threads, DefaultsMove(t),
         \A u \in Threads : Fills(u), NEW u \in Threads \ {t}
  PROVE  Fills(u)'
<1> USE GlobalSessionAssumption
<1>1. /\ dpc'[u] = dpc[u] /\ at'[u] = at[u] /\ given'[u] = given[u] /\ merged'[u] = merged[u]
  BY DefaultsAlone
<1>2. cacheLock[ProcOf[u]] = u => cacheLock'[ProcOf[u]] = u
  <2>1. CASE ProcOf[u] # ProcOf[t]
    BY <2>1, DefaultsAlone
  <2>2. CASE ProcOf[u] = ProcOf[t]
    BY <2>2 DEF LockTypes, DefaultsMove, MergeStep, SetterStep, LookInCache, LockCache, CheckAgain,
                LoopIn, LoopGet, Unlock, Update, Store, ReturnCache, SetOne, Clear, Invalidate,
                MergeDone, ResetDefaults, SetDefault, Merge
  <2> QED BY <2>1, <2>2
<1> QED BY <1>1, <1>2 DEF Fills

(* A merge finds what it looked for, or was told of the change.            *)
LEMMA OthersFind ==
  ASSUME LockTypes, DefaultTypes, NEW t \in Threads, DefaultsMove(t),
         Fills(t), NEW u \in Threads \ {t}, Finds(u)
  PROVE  Finds(u)'
<1> USE GlobalSessionAssumption
<1> DEFINE p == ProcOf[t]
<1>1. /\ dpc'[u] = dpc[u] /\ at'[u] = at[u] /\ failed'[u] = failed[u] /\ (u \in changed => u \in changed')
  BY DefaultsAlone
<1>2. CASE dpc[u] \notin {"buildget", "mergeget", "return"}
  BY <1>1, <1>2 DEF Finds
<1>3. CASE dpc[u] \in {"buildget", "mergeget", "return"}
  <2>1. \/ u \in changed'
        \/ /\ DOMAIN config[ProcOf[u]] \subseteq DOMAIN config'[ProcOf[u]]
           /\ cache[ProcOf[u]] # None => cache'[ProcOf[u]] # None
    <3>1. CASE ProcOf[u] # p
      BY <3>1, DefaultsAlone
    <3>2. CASE ProcOf[u] = p /\ (SetOne(t) \/ Clear(t) \/ Invalidate(t))
      <4>1. UNCHANGED <<config, cache>> \/ u \in changed'
        BY <1>3, <3>2 DEF SetOne, Clear, Invalidate, Change, Setting, ThreadsOf
      <4> QED BY <4>1
    <3>3. CASE ProcOf[u] = p /\ Store(t)
      <4>1. merged[t] # None /\ cache' = [cache EXCEPT ![p] = merged[t]] /\ config' = config
        BY <3>3, DictFacts DEF Store, Fills, Filling
      <4> QED BY <3>3, <4>1 DEF DefaultTypes
    <3>4. CASE UNCHANGED <<config, cache>>
      BY <3>4
    <3> QED BY <3>1, <3>2, <3>3, <3>4
            DEF DefaultsMove, MergeStep, SetterStep, LookInCache, LockCache, CheckAgain,
                LoopIn, LoopGet, Update, ReturnCache, MergeDone, ResetDefaults, SetDefault, Merge
  <2> QED BY <1>1, <1>3, <2>1 DEF Finds
<1> QED BY <1>2, <1>3

(* set_default and reset_defaults begin.                                   *)
LEMMA BeginFollows ==
  ASSUME LockTypes, DefaultsInv, NEW t \in Threads,
         \/ ResetDefaults(t)
         \/ \E items : SetDefault(t, items)
         \/ \E kwargs : Merge(t, kwargs)
         \/ MergeDone(t)
  PROVE  Follows(ProcOf[t])' /\ Fills(t)' /\ Finds(t)' /\ DefaultTypes'
<1> USE GlobalSessionAssumption DEF DGoto
<1> DEFINE p == ProcOf[t]
           Goal == Follows(p)' /\ Fills(t)' /\ Finds(t)' /\ DefaultTypes'
<1> SUFFICES Goal
  OBVIOUS
<1>0. DefaultTypes /\ Follows(p) /\ p \in Procs
  BY DEF DefaultsInv
<1>1. /\ UNCHANGED <<config, cache, cacheLock, mayBeStale>>
      /\ dpc[t] \in {"idle", "merged"}
  BY DEF ResetDefaults, SetDefault, Merge, MergeDone
<1>2. \A u \in Threads \ {t} : dpc'[u] = dpc[u] /\ at'[u] = at[u] /\ merged'[u] = merged[u]
  BY <1>0, DefaultsAlone DEF DefaultsMove
<1>3. /\ dpc'[t] \notin Filling \cup {"invalidate"} /\ (dpc'[t] = "set" => at'[t] = 1)
      /\ ~(dpc[t] \in Filling \cup {"invalidate", "set"})
  BY <1>0, <1>1 DEF LockTypes, DefaultTypes, ResetDefaults, SetDefault, Merge, MergeDone, Filling
<1>4. Follows(p)'
  <2>1. Dirty(p)' <=> Dirty(p)
    BY <1>2, <1>3 DEF Dirty, ThreadsOf
  <2>2. \A u \in ThreadsOf(p) : dpc'[u] \in Filling => /\ dpc'[u] = dpc[u] /\ merged'[u] = merged[u]
                                                      /\ at'[u] = at[u] /\ Read(u)' = Read(u)
    BY <1>2, <1>3 DEF ThreadsOf, Read
  <2> QED BY <1>0, <1>1, <2>1, <2>2 DEF Follows, Agree, GetDefault, ThreadsOf
<1>5. CASE ResetDefaults(t) \/ MergeDone(t)
  <2>1. dpc'[t] \in {"reset", "idle"}
    BY <1>0, <1>5 DEF ResetDefaults, MergeDone, LockTypes
  <2>2. Fills(t)' /\ Finds(t)'
    BY <2>1 DEF Fills, Finds, Filling
  <2>3. DefaultTypes'
    BY <1>0, <1>5 DEF ResetDefaults, MergeDone, DefaultTypes
  <2> QED BY <1>4, <2>2, <2>3
<1>6. ASSUME NEW items, SetDefault(t, items) PROVE Goal
  <2>1. dpc'[t] = "set"
    BY <1>0, <1>6 DEF SetDefault, LockTypes
  <2>2. Fills(t)' /\ Finds(t)'
    BY <2>1 DEF Fills, Finds, Filling
  <2>3. DefaultTypes'
    BY <1>0, <1>6 DEF SetDefault, DefaultTypes
  <2> QED BY <1>4, <2>2, <2>3
<1>7. ASSUME NEW kwargs, Merge(t, kwargs) PROVE Goal
  <2>1. /\ dpc'[t] \in {"merged", "look", "mergein"} /\ failed'[t] = None /\ at'[t] = 1
        /\ dpc'[t] = "look" => merged'[t] = Empty /\ given'[t] = Empty
    BY <1>0, <1>7 DEF Merge, LockTypes, DefaultTypes
  <2>2. Fills(t)' /\ Finds(t)'
    BY <2>1 DEF Fills, Finds, Filling
  <2>3. DefaultTypes'
    BY <1>0, <1>7 DEF Merge, DefaultTypes
  <2> QED BY <1>4, <2>2, <2>3
<1> HIDE DEF Goal
<1> QED BY <1>5, <1>6, <1>7

(* Nobody fills the cache if nobody holds the lock in a fill.              *)
LEMMA FillersBuild ==
  ASSUME DefaultsInv, NEW p \in Procs, Building(p) = {}, NEW u \in ThreadsOf(p)
  PROVE  dpc[u] \notin Filling
BY DEF DefaultsInv, Fills, Filling, Building, ThreadsOf

(* set_default and reset_defaults change, fail, or drop the cache.         *)
LEMMA SetterFollows ==
  ASSUME LockTypes, DefaultsInv, NEW t \in Threads, SetterStep(t)
  PROVE  Follows(ProcOf[t])' /\ Fills(t)' /\ Finds(t)' /\ DefaultTypes'
<1> USE GlobalSessionAssumption DEF DGoto
<1> DEFINE p == ProcOf[t]
<1>0. DefaultTypes /\ Follows(p) /\ p \in Procs
  BY DEF DefaultsInv
<1>1. \A u \in Threads \ {t} : dpc'[u] = dpc[u] /\ at'[u] = at[u] /\ merged'[u] = merged[u]
  BY <1>0, DefaultsAlone DEF DefaultsMove
<1>2. dpc'[t] \in {"set", "idle", "invalidate"}
  BY <1>0 DEF SetterStep, SetOne, Clear, Invalidate, LockTypes
<1>3. Fills(t)' /\ Finds(t)'
  BY <1>2 DEF Fills, Finds, Filling
<1>4. ThreadsOf(p)' = ThreadsOf(p) /\ t \in ThreadsOf(p)
  BY DEF ThreadsOf
<1>5. CASE Clear(t)
  <2>1. Dirty(p)'
    BY <1>0, <1>4, <1>5 DEF Dirty, Clear, LockTypes
  <2>2. DefaultTypes'
    BY <1>0, <1>5, DictFacts DEF Clear, DefaultTypes, Change, ThreadsOf
  <2> QED BY <1>3, <2>1, <2>2 DEF Follows
<1>6. CASE Invalidate(t)
  <2>1. cache'[p] = None /\ dpc'[t] = "idle" /\ (mayBeStale'[p] <=> Building(p) # {})
    BY <1>0, <1>6 DEF Invalidate, DefaultTypes, LockTypes
  <2>2. Building(p) = {} => \A u \in ThreadsOf(p) : dpc'[u] \notin Filling
    <3>1. Building(p) = {} => \A u \in ThreadsOf(p) : dpc[u] \notin Filling
      BY <1>0, FillersBuild
    <3> QED BY <1>1, <2>1, <3>1 DEF ThreadsOf, Filling
  <2>3. Follows(p)'
    BY <1>4, <2>1, <2>2 DEF Follows
  <2>4. DefaultTypes'
    BY <1>0, <1>6 DEF Invalidate, DefaultTypes, Change, ThreadsOf
  <2> QED BY <1>3, <2>3, <2>4
<1>7. CASE SetOne(t)
  <2> DEFINE key == given[t][at[t]][1]
             value == given[t][at[t]][2]
  <2>1. CASE key \in Keys /\ value \in Valid[key]
    <3>1. /\ config' = [config EXCEPT ![p] = Put(@, key, value)] /\ at' = [at EXCEPT ![t] = @ + 1]
          /\ UNCHANGED <<dpc, given, failed, mayBeStale, cache, cacheLock, merged>> /\ Change(p)
          /\ dpc[t] = "set"
      BY <1>7, <2>1 DEF SetOne
    <3>2. Dirty(p)'
      BY <1>0, <1>4, <3>1 DEF Dirty, DefaultTypes
    <3>3. Put(config[p], key, value) \in Dicts
      <4>1. value \in Values
        BY <2>1 DEF Values
      <4>2. config[p] \in Dicts
        BY <1>0 DEF DefaultTypes
      <4> HIDE DEF key, value
      <4> QED BY <2>1, <4>1, <4>2, PutFacts
    <3>4. DefaultTypes'
      <4> HIDE DEF key, value
      <4> QED BY <1>0, <3>1, <3>3 DEF DefaultTypes, Change, ThreadsOf
    <3> QED BY <1>3, <3>2, <3>4 DEF Follows
  <2>2. CASE ~(key \in Keys /\ value \in Valid[key])
    <3>1. /\ mayBeStale' = [mayBeStale EXCEPT
                 ![p] = @ \/ (at[t] > 1 /\ (cache[p] # None \/ Building(p) # {}))]
          /\ dpc[t] = "set" /\ dpc' = [dpc EXCEPT ![t] = "idle"]
          /\ failed' = [failed EXCEPT ![t] = "ValueError"]
          /\ given' = [given EXCEPT ![t] = Empty] /\ at' = [at EXCEPT ![t] = 1]
          /\ UNCHANGED <<config, changed, cache, cacheLock, merged>>
      BY <1>7, <2>2 DEF SetOne
    <3>2. dpc'[t] = "idle"
      BY <3>1 DEF LockTypes
    <3>3. ~mayBeStale'[p] => ~mayBeStale[p] /\ (at[t] > 1 => cache[p] = None /\ Building(p) = {})
      BY <1>0, <3>1 DEF DefaultTypes
    <3>4. ASSUME at[t] > 1 PROVE Follows(p)'
      <4>1. Building(p) = {} => \A u \in ThreadsOf(p) : dpc'[u] \notin Filling
        <5>1. Building(p) = {} => \A u \in ThreadsOf(p) : dpc[u] \notin Filling
          BY <1>0, FillersBuild
        <5> QED BY <1>1, <3>2, <5>1 DEF ThreadsOf, Filling
      <4> QED BY <1>4, <3>1, <3>3, <3>4, <4>1 DEF Follows
    <3>5. ASSUME ~(at[t] > 1) PROVE Follows(p)'
      <4>1. Dirty(p) => Dirty(p)'
        BY <1>1, <3>1, <3>5 DEF Dirty, ThreadsOf
      <4>2. \A u \in ThreadsOf(p) : dpc'[u] \in Filling =>
               /\ dpc'[u] = dpc[u] /\ merged'[u] = merged[u]
               /\ at'[u] = at[u] /\ Read(u)' = Read(u)
        BY <1>1, <3>2 DEF ThreadsOf, Read, Filling
      <4> QED BY <1>0, <1>4, <3>1, <3>3, <3>5, <4>1, <4>2 DEF Follows, Agree, GetDefault
    <3>6. Follows(p)'
      BY <3>4, <3>5
    <3>7. DefaultTypes'
      BY <1>0, <3>1 DEF DefaultTypes
    <3> QED BY <1>3, <3>6, <3>7
  <2> QED BY <2>1, <2>2
<1> QED BY <1>5, <1>6, <1>7 DEF SetterStep

(* What is left to show for a step of a merge: what the step itself does   *)
(* to the cache, or to the dictionary that is to become it.                *)
LEMMA MergeFollows ==
  ASSUME LockTypes, DefaultsInv, NEW t \in Threads, MergeStep(t), NEW p, p = ProcOf[t],
         \/ cache'[p] = cache[p]
         \/ ~Dirty(p) /\ ~mayBeStale[p] => Agree(cache'[p], config[p], Keys),
         dpc'[t] \in Filling /\ ~Dirty(p) /\ ~mayBeStale[p] =>
           /\ DOMAIN merged'[t] \subseteq Read(t)'
           /\ Agree(merged'[t], config[p], Read(t)')
           /\ dpc'[t] = "store" => at'[t] > Len(Mapping)
  PROVE  Follows(p)'
<1> USE GlobalSessionAssumption
<1>0. DefaultTypes /\ Follows(p) /\ p \in Procs
  BY DEF DefaultsInv
<1>1. UNCHANGED <<config, mayBeStale>>
  BY DEF MergeStep, LookInCache, LockCache, CheckAgain, LoopIn, LoopGet, Update, Store, ReturnCache
<1>2. \A u \in Threads \ {t} : dpc'[u] = dpc[u] /\ at'[u] = at[u] /\ merged'[u] = merged[u]
  BY <1>0, DefaultsAlone DEF DefaultsMove
<1>3. dpc[t] \notin {"set", "invalidate"} /\ dpc'[t] \notin {"set", "invalidate"}
  BY DEF MergeStep, LookInCache, LockCache, CheckAgain, LoopIn, LoopGet, Update, Store, ReturnCache,
         DGoto, LockTypes, Loop, GetOf, InOf, EndOf
<1>4. Dirty(p)' <=> Dirty(p)
  BY <1>2, <1>3 DEF Dirty, ThreadsOf
<1>5. \A u \in ThreadsOf(p) \ {t} : Read(u)' = Read(u)
  BY <1>2 DEF Read, ThreadsOf
<1>6. Follows(p)' <=>
        (~Dirty(p) /\ ~mayBeStale[p] =>
           /\ cache'[p] # None => Agree(cache'[p], config[p], Keys)
           /\ \A u \in ThreadsOf(p) : dpc'[u] \in Filling =>
                /\ DOMAIN merged'[u] \subseteq Read(u)'
                /\ Agree(merged'[u], config[p], Read(u)')
                /\ dpc'[u] = "store" => at'[u] > Len(Mapping))
  BY <1>1, <1>4 DEF Follows, Agree, GetDefault, ThreadsOf
<1>7. ASSUME ~Dirty(p), ~mayBeStale[p], cache'[p] # None PROVE Agree(cache'[p], config[p], Keys)
  BY <1>0, <1>7 DEF Follows
<1>8. ASSUME ~Dirty(p), ~mayBeStale[p], NEW u \in ThreadsOf(p), dpc'[u] \in Filling
      PROVE  /\ DOMAIN merged'[u] \subseteq Read(u)'
             /\ Agree(merged'[u], config[p], Read(u)')
             /\ dpc'[u] = "store" => at'[u] > Len(Mapping)
  <2>1. CASE u = t
    BY <1>8, <2>1
  <2>2. CASE u # t
    BY <1>0, <1>2, <1>5, <1>8, <2>2 DEF Follows, ThreadsOf
  <2> QED BY <2>1, <2>2
<1> QED BY <1>6, <1>7, <1>8

(* The keys that have been read grow by one with each round of the loop.   *)
LEMMA ReadGrows ==
  ASSUME DefaultTypes, NEW t \in Threads
  PROVE  /\ at'[t] = at[t] => Read(t)' = Read(t)
         /\ at'[t] = at[t] + 1 => Read(t)' = Read(t) \cup {Mapping[at[t]]}
         /\ at[t] = 1 => Read(t) = {}
         /\ at[t] > Len(Mapping) => Keys \subseteq Read(t)
<1>1. at[t] \in Nat \ {0} /\ Len(Mapping) \in Nat
  BY DefaultsAssumption DEF DefaultTypes
<1>2. at'[t] = at[t] => Read(t)' = Read(t)
  BY DEF Read
<1>3. at'[t] = at[t] + 1 => Read(t)' = Read(t) \cup {Mapping[at[t]]}
  <2>1. 1..(at[t] + 1 - 1) = 1..(at[t] - 1) \cup {at[t]}
    BY <1>1
  <2> QED BY <2>1 DEF Read
<1>4. at[t] = 1 => Read(t) = {}
  BY DEF Read
<1>5. at[t] > Len(Mapping) => Keys \subseteq Read(t)
  BY <1>1 DEF Read, Keys
<1> QED BY <1>2, <1>3, <1>4, <1>5

(* Before the loop, and after it: nothing was read, or all was.            *)
LEMMA EndsFollow ==
  ASSUME LockTypes, DefaultsInv, NEW t \in Threads,
         LookInCache(t) \/ LockCache(t) \/ CheckAgain(t) \/ Update(t) \/ Store(t)
  PROVE  Follows(ProcOf[t])' /\ Fills(t)' /\ Finds(t)' /\ DefaultTypes'
<1> USE GlobalSessionAssumption DEF DGoto
<1> DEFINE p == ProcOf[t]
<1>0. /\ DefaultTypes /\ Follows(p) /\ p \in Procs /\ Fills(t) /\ Finds(t) /\ MergeStep(t)
      /\ p \in Procs /\ t \in ThreadsOf(p)
  BY DEF DefaultsInv, MergeStep, ThreadsOf
<1>1. UNCHANGED <<config, mayBeStale, failed, changed, at, given>>
  BY DEF LookInCache, LockCache, CheckAgain, Update, Store
<1>2. CASE LookInCache(t) \/ LockCache(t)
  <2>1. dpc'[t] \in {"return", "lock", "check"} /\ dpc[t] \in {"look", "lock"}
        /\ UNCHANGED <<cache, merged>>
        /\ (dpc'[t] = "return" => cache[p] # None) /\ (dpc'[t] = "check" => cacheLock'[p] = t)
    BY <1>0, <1>2 DEF LookInCache, LockCache, LockTypes
  <2>2. Fills(t)' /\ Finds(t)'
    BY <1>0, <1>1, <2>1 DEF Fills, Finds, Filling
  <2>3. Follows(p)'
    BY <1>0, <2>1, MergeFollows DEF Filling
  <2>4. DefaultTypes'
    BY <1>0, <1>1, <2>1 DEF DefaultTypes
  <2> QED BY <2>2, <2>3, <2>4
<1>3. CASE CheckAgain(t)
  <2>1. dpc'[t] \in {"return", "buildin"} /\ dpc[t] = "check"
        /\ UNCHANGED <<cache, merged, cacheLock>>
        /\ (dpc'[t] = "return" => cache[p] # None)
    BY <1>0, <1>3 DEF CheckAgain, LockTypes
  <2>2. merged[t] = Empty /\ at[t] = 1 /\ given[t] = Empty /\ cacheLock[p] = t /\ failed[t] = None
    BY <1>0, <2>1 DEF Fills, Finds
  <2>3. Fills(t)' /\ Finds(t)'
    BY <1>1, <2>1, <2>2, DictFacts DEF Fills, Finds, Filling
  <2>4. Read(t)' = {}
    BY <1>0, <1>1, <2>2, ReadGrows
  <2>5. Follows(p)'
    BY <1>0, <2>1, <2>2, <2>4, MergeFollows, DictFacts DEF Agree
  <2>6. DefaultTypes'
    BY <1>0, <1>1, <2>1 DEF DefaultTypes
  <2> QED BY <2>3, <2>5, <2>6
<1>4. CASE Update(t)
  <2>1. dpc'[t] = "merged" /\ dpc[t] = "update" /\ UNCHANGED <<cache, cacheLock>>
        /\ DOMAIN merged' = DOMAIN merged
    BY <1>0, <1>4 DEF Update, LockTypes
  <2>2. Fills(t)' /\ Finds(t)'
    BY <1>0, <1>1, <2>1 DEF Fills, Finds, Filling
  <2>3. Follows(p)'
    BY <1>0, <2>1, MergeFollows DEF Filling
  <2>4. DefaultTypes'
    BY <1>0, <1>1, <2>1 DEF DefaultTypes
  <2> QED BY <2>2, <2>3, <2>4
<1>5. CASE Store(t)
  <2>1. dpc'[t] = "return" /\ dpc[t] = "store" /\ UNCHANGED merged
        /\ cache' = [cache EXCEPT ![p] = merged[t]]
    BY <1>0, <1>5 DEF Store, LockTypes
  <2>2. merged[t] \in Dicts /\ cache'[p] = merged[t] /\ merged[t] # None
    BY <1>0, <2>1, DictFacts DEF Fills, Filling, DefaultTypes
  <2>3. Fills(t)' /\ Finds(t)'
    BY <1>0, <1>1, <2>1, <2>2 DEF Fills, Finds, Filling
  <2>4. ~Dirty(p) /\ ~mayBeStale[p] => Agree(merged[t], config[p], Keys)
    BY <1>0, <2>1, ReadGrows DEF Follows, Filling, Agree
  <2>5. Follows(p)'
    BY <1>0, <2>1, <2>2, <2>4, MergeFollows DEF Filling
  <2>6. DefaultTypes'
    BY <1>0, <1>1, <2>1, <2>2 DEF DefaultTypes
  <2> QED BY <2>3, <2>5, <2>6
<1> QED BY <1>2, <1>3, <1>4, <1>5

(* The loop over the mapping keeps to what the defaults hold, and a read   *)
(* that fails was told of the change.                                      *)
LEMMA LoopFollows ==
  ASSUME LockTypes, DefaultsInv, NEW t \in Threads, LoopIn(t) \/ LoopGet(t)
  PROVE  Follows(ProcOf[t])' /\ Fills(t)' /\ Finds(t)' /\ DefaultTypes'
<1> USE GlobalSessionAssumption DEF DGoto
<1> DEFINE p == ProcOf[t]
           key == Mapping[at[t]]
<1>0. /\ DefaultTypes /\ Follows(p) /\ p \in Procs /\ Fills(t) /\ Finds(t) /\ MergeStep(t)
      /\ t \in ThreadsOf(p) /\ at[t] \in Nat \ {0} /\ Len(Mapping) \in Nat
      /\ config[p] \in Dicts /\ DOMAIN Empty = {}
  BY DefaultsAssumption, DictFacts DEF DefaultsInv, MergeStep, ThreadsOf, DefaultTypes
<1>1. CASE LoopIn(t)
  <2>1. UNCHANGED <<config, cache, cacheLock, given, merged, failed, changed, mayBeStale>>
        /\ dpc[t] \in Loop
    BY <1>1 DEF LoopIn
  <2>2. DefaultTypes'
    <3>1. at' \in [Threads -> Nat \ {0}]
      BY <1>0, <1>1 DEF LoopIn, DefaultTypes
    <3> QED BY <1>0, <2>1, <3>1 DEF DefaultTypes
  <2>3. CASE at[t] > Len(Mapping)
    <3>1. UNCHANGED at /\ dpc' = [dpc EXCEPT ![t] = EndOf(dpc[t])]
      BY <1>0, <1>1, <2>3 DEF LoopIn
    <3>2. \/ dpc[t] = "buildin" /\ dpc'[t] = "store"
          \/ dpc[t] = "mergein" /\ dpc'[t] = "update"
      BY <2>1, <3>1 DEF LockTypes, Loop, EndOf
    <3>3. Fills(t)' /\ Finds(t)'
      BY <1>0, <2>1, <3>1, <3>2 DEF Fills, Finds, Filling
    <3>4. Follows(p)'
      BY <1>0, <2>1, <2>3, <3>1, <3>2, MergeFollows, ReadGrows DEF Follows, Filling
    <3> QED BY <2>2, <3>3, <3>4
  <2>4. CASE at[t] <= Len(Mapping) /\ key \in DOMAIN config[p] /\ key \notin DOMAIN given[t]
    <3>1. UNCHANGED at /\ dpc' = [dpc EXCEPT ![t] = GetOf(dpc[t])]
      BY <1>0, <1>1, <2>4 DEF LoopIn
    <3>2. \/ dpc[t] = "buildin" /\ dpc'[t] = "buildget"
          \/ dpc[t] = "mergein" /\ dpc'[t] = "mergeget"
      BY <2>1, <3>1 DEF LockTypes, Loop, GetOf
    <3>3. Fills(t)' /\ Finds(t)'
      BY <1>0, <2>1, <2>4, <3>1, <3>2 DEF Fills, Finds, Filling
    <3>4. Follows(p)'
      BY <1>0, <2>1, <3>1, <3>2, MergeFollows, ReadGrows DEF Follows, Filling
    <3> QED BY <2>2, <3>3, <3>4
  <2>5. CASE at[t] <= Len(Mapping) /\ ~(key \in DOMAIN config[p] /\ key \notin DOMAIN given[t])
    <3>1. at' = [at EXCEPT ![t] = @ + 1] /\ UNCHANGED dpc
      BY <1>0, <1>1, <2>5 DEF LoopIn
    <3>2. at'[t] = at[t] + 1 /\ dpc'[t] = dpc[t] /\ dpc[t] \in {"buildin", "mergein"}
      BY <1>0, <2>1, <3>1 DEF DefaultTypes, Loop
    <3>3. Fills(t)' /\ Finds(t)'
      BY <1>0, <2>1, <3>2 DEF Fills, Finds, Filling
    <3>4. Read(t)' = Read(t) \cup {key}
      BY <1>0, <3>2, ReadGrows
    <3>5. ASSUME dpc[t] = "buildin", ~Dirty(p), ~mayBeStale[p]
          PROVE  /\ DOMAIN merged[t] \subseteq Read(t)'
                 /\ Agree(merged[t], config[p], Read(t)')
      <4>1. key \notin DOMAIN config[p]
        BY <1>0, <2>5, <3>5 DEF Fills, Filling
      <4>2. DOMAIN merged[t] \subseteq Read(t) /\ Agree(merged[t], config[p], Read(t))
        BY <1>0, <3>5 DEF Follows, Filling
      <4>3. GetDefault(merged[t], key) = GetDefault(config[p], key)
        BY <4>1, <4>2 DEF Agree, GetDefault
      <4> QED BY <3>4, <4>2, <4>3 DEF Agree
    <3>6. Follows(p)'
      BY <1>0, <2>1, <3>2, <3>5, MergeFollows DEF Filling
    <3> QED BY <2>2, <3>3, <3>6
  <2> QED BY <1>0, <2>3, <2>4, <2>5
<1>2. CASE LoopGet(t)
  <2>1. UNCHANGED <<config, cache, given, changed, mayBeStale>> /\ dpc[t] \in {"buildget", "mergeget"}
    BY <1>2 DEF LoopGet
  <2>2. at[t] <= Len(Mapping) /\ key \in Keys /\ (key \in DOMAIN config[p] \/ t \in changed)
        /\ failed[t] = None
    BY <1>0, <2>1 DEF Finds, Keys, Filling
  <2>3. CASE key \in DOMAIN config[p]
    <3> DEFINE value == config[p][key]
               old == merged[t]
               new == Put(old, key, value)
    <3>1. /\ merged' = [merged EXCEPT ![t] = new]
          /\ at' = [at EXCEPT ![t] = @ + 1] /\ dpc' = [dpc EXCEPT ![t] = InOf(dpc[t])]
          /\ UNCHANGED <<cacheLock, failed>>
      BY <1>2, <2>3 DEF LoopGet
    <3>2. /\ at'[t] = at[t] + 1 /\ merged'[t] = new
          /\ \/ dpc[t] = "buildget" /\ dpc'[t] = "buildin"
             \/ dpc[t] = "mergeget" /\ dpc'[t] = "mergein"
      BY <1>0, <2>1, <3>1 DEF DefaultTypes, LockTypes, InOf
    <3>3. value \in Values
      BY <1>0, <2>3, DictFacts
    <3>4. ASSUME dpc[t] = "buildget"
          PROVE  /\ new \in Dicts /\ DOMAIN new = DOMAIN old \cup {key}
                 /\ GetDefault(new, key) = value
                 /\ \A k : k # key => GetDefault(new, k) = GetDefault(old, k)
      <4>1. old \in Dicts /\ key \in Keys
        BY <1>0, <2>2, <3>4 DEF Fills, Filling
      <4> HIDE DEF key, value, old
      <4>2. new \in Dicts /\ DOMAIN new = DOMAIN old \cup {key}
        BY <3>3, <4>1, PutFacts
      <4>3. GetDefault(new, key) = value
        BY DEF Put, GetDefault
      <4>4. \A k : k # key => GetDefault(new, k) = GetDefault(old, k)
        BY DEF Put, GetDefault
      <4> QED BY <4>2, <4>3, <4>4
    <3> HIDE DEF new
    <3>5. Read(t)' = Read(t) \cup {key}
      BY <1>0, <3>2, ReadGrows
    <3>6. Fills(t)' /\ Finds(t)'
      BY <1>0, <2>1, <2>2, <3>1, <3>2, <3>4 DEF Fills, Finds, Filling
    <3>7. ASSUME dpc[t] = "buildget", ~Dirty(p), ~mayBeStale[p]
          PROVE  DOMAIN new \subseteq Read(t)' /\ Agree(new, config[p], Read(t)')
      <4>1. DOMAIN merged[t] \subseteq Read(t) /\ Agree(merged[t], config[p], Read(t))
        BY <1>0, <3>7 DEF Follows, Filling
      <4>2. GetDefault(config[p], key) = value
        BY <2>3 DEF GetDefault
      <4> HIDE DEF key, value
      <4> QED BY <3>4, <3>5, <3>7, <4>1, <4>2 DEF Agree
    <3>8. Follows(p)'
      BY <1>0, <2>1, <3>2, <3>7, MergeFollows DEF Filling
    <3>9. DefaultTypes'
      <4>1. at' \in [Threads -> Nat \ {0}]
        BY <1>0, <3>1 DEF DefaultTypes
      <4> QED BY <1>0, <2>1, <3>1, <4>1 DEF DefaultTypes
    <3> QED BY <3>6, <3>8, <3>9
  <2>4. CASE key \notin DOMAIN config[p]
    <3>1. /\ failed' = [failed EXCEPT ![t] = "KeyError"] /\ dpc' = [dpc EXCEPT ![t] = "merged"]
          /\ UNCHANGED <<merged, at>>
      BY <1>2, <2>4 DEF LoopGet
    <3>2. dpc'[t] = "merged" /\ failed'[t] = "KeyError" /\ t \in changed
      BY <1>0, <2>2, <2>4, <3>1 DEF DefaultTypes, LockTypes
    <3>3. Fills(t)' /\ Finds(t)'
      BY <2>1, <3>2 DEF Fills, Finds, Filling
    <3>4. Follows(p)'
      BY <1>0, <2>1, <3>2, MergeFollows DEF Filling
    <3>5. DefaultTypes'
      BY <1>0, <2>1, <3>1 DEF DefaultTypes
    <3> QED BY <3>3, <3>4, <3>5
  <2> QED BY <2>3, <2>4
<1> QED BY <1>1, <1>2

(* The last read of the cache finds it, or was told of the change.         *)
LEMMA ReturnFollows ==
  ASSUME LockTypes, DefaultsInv, NEW t \in Threads, ReturnCache(t)
  PROVE  Follows(ProcOf[t])' /\ Fills(t)' /\ Finds(t)' /\ DefaultTypes'
<1> USE GlobalSessionAssumption DEF DGoto
<1> DEFINE p == ProcOf[t]
<1>0. DefaultTypes /\ Follows(p) /\ p \in Procs /\ Finds(t) /\ MergeStep(t)
  BY DEF DefaultsInv, MergeStep
<1>1. /\ UNCHANGED <<config, cache, given, at, changed, mayBeStale>>
      /\ dpc[t] = "return" /\ dpc'[t] = "merged"
  BY DEF ReturnCache, LockTypes
<1>2. DefaultTypes' /\ (failed'[t] = None \/ (failed'[t] = "TypeError" /\ t \in changed))
  <2>1. CASE cache[p] # None
    BY <1>0, <1>1, <2>1 DEF ReturnCache, DefaultTypes, Finds
  <2>2. CASE cache[p] = None
    BY <1>0, <1>1, <2>2 DEF ReturnCache, DefaultTypes, Finds
  <2> QED BY <2>1, <2>2
<1>3. Fills(t)' /\ Finds(t)'
  BY <1>1, <1>2 DEF Fills, Finds, Filling
<1>4. Follows(p)'
  BY <1>0, <1>1, MergeFollows DEF Filling
<1> QED BY <1>2, <1>3, <1>4

(* Every step of the defaults keeps the invariant about them.              *)
LEMMA MoveDefaults ==
  ASSUME LockTypes, DefaultsInv, NEW t \in Threads, DefaultsMove(t)
  PROVE  DefaultsInv'
<1>1. Follows(ProcOf[t])' /\ Fills(t)' /\ Finds(t)' /\ DefaultTypes'
  BY BeginFollows, SetterFollows, EndsFollow, LoopFollows, ReturnFollows
  DEF DefaultsMove, MergeStep
<1>2. ASSUME NEW u \in Threads PROVE Fills(u)' /\ Finds(u)'
  <2>1. CASE u = t
    BY <1>1, <2>1
  <2>2. CASE u # t
    BY <2>2, OthersFill, OthersFind DEF DefaultsInv
  <2> QED BY <2>1, <2>2
<1>3. ASSUME NEW p \in Procs PROVE Follows(p)'
  <2>1. CASE p = ProcOf[t]
    BY <1>1, <2>1
  <2>2. CASE p # ProcOf[t]
    BY <2>2, FollowsElsewhere DEF DefaultsInv
  <2> QED BY <2>1, <2>2
<1> QED BY <1>1, <1>2, <1>3 DEF DefaultsInv

(* A child starts with the defaults and the cache of its parent, and with  *)
(* no change of its own under way; the parent's are remembered in          *)
(* mayBeStale.                                                             *)
LEMMA ForkFollows ==
  ASSUME SessionInv, LockInv, DefaultsInv, NEW t \in Threads, NEW q \in Procs,
         Fork(t, q), ForkDefaults(t, q)
  PROVE  DefaultsInv'
<1> DEFINE p == ProcOf[t]
<1> USE GlobalSessionAssumption
<1>1. p \in Procs /\ p # q /\ DefaultTypes
  BY DEF Fork, DefaultsInv
<1>2. UNCHANGED <<dpc, given, at, merged, failed, changed>>
  BY DEF ForkDefaults
<1>3. /\ config' = [config EXCEPT ![q] = config[p]] /\ cache' = [cache EXCEPT ![q] = cache[p]]
      /\ cacheLock' = [cacheLock EXCEPT ![q] = cacheLock[p]]
      /\ mayBeStale' = [mayBeStale EXCEPT ![q] =
           mayBeStale[p] \/ (cache[p] # None /\ Setting(p) # {})]
  BY DEF ForkDefaults
<1>4. \A u \in ThreadsOf(q) : dpc[u] = "idle"
  BY DEF Fork, LockInv, HoldersAreBorn, ThreadsOf
<1>5. DefaultTypes'
  BY <1>1, <1>2, <1>3 DEF DefaultTypes
<1>6. ASSUME NEW u \in Threads PROVE Fills(u)' /\ Finds(u)'
  <2>1. CASE ProcOf[u] = q
    <3>1. dpc'[u] = "idle"
      BY <1>2, <1>4, <2>1 DEF ThreadsOf
    <3> QED BY <3>1 DEF Fills, Finds, Filling
  <2>2. CASE ProcOf[u] # q
    <3>1. /\ config'[ProcOf[u]] = config[ProcOf[u]] /\ cache'[ProcOf[u]] = cache[ProcOf[u]]
          /\ cacheLock'[ProcOf[u]] = cacheLock[ProcOf[u]]
      BY <1>1, <1>3, <2>2 DEF DefaultTypes, LockInv, LockTypes
    <3>2. Fills(u) /\ Finds(u)
      BY DEF DefaultsInv
    <3> QED BY <1>2, <3>1, <3>2 DEF Fills, Finds
  <2> QED BY <2>1, <2>2
<1>7. Follows(q)'
  <2>1. /\ config'[q] = config[p] /\ cache'[q] = cache[p]
        /\ ~mayBeStale'[q] => ~mayBeStale[p] /\ (cache[p] = None \/ Setting(p) = {})
    BY <1>1, <1>3 DEF DefaultTypes
  <2>2. Setting(p) = {} => ~Dirty(p)
    BY DEF Setting, Dirty
  <2>3. Follows(p)
    BY <1>1 DEF DefaultsInv
  <2>4. ThreadsOf(q)' = ThreadsOf(q)
    BY DEF ThreadsOf
  <2>5. ~mayBeStale'[q] /\ cache'[q] # None => Agree(cache'[q], config'[q], Keys)
    BY <2>1, <2>2, <2>3 DEF Follows
  <2> QED BY <1>2, <1>4, <2>4, <2>5 DEF Follows, Filling, Agree, GetDefault
<1>8. ASSUME NEW r \in Procs, r # q PROVE Follows(r)'
  <2>1. config'[r] = config[r] /\ cache'[r] = cache[r] /\ mayBeStale'[r] = mayBeStale[r]
    BY <1>1, <1>3, <1>8 DEF DefaultTypes
  <2>2. (Dirty(r)' <=> Dirty(r)) /\ ThreadsOf(r)' = ThreadsOf(r)
        /\ \A u \in ThreadsOf(r) : Read(u)' = Read(u)
    BY <1>2 DEF Dirty, ThreadsOf, Read
  <2>3. Follows(r)
    BY DEF DefaultsInv
  <2> QED BY <1>2, <2>1, <2>2, <2>3 DEF Follows, Agree, GetDefault
<1> QED BY <1>5, <1>6, <1>7, <1>8 DEF DefaultsInv

(* At first there is no cache and nobody is in a call.                     *)
LEMMA InitDefaults == DefaultsInit => DefaultsInv
<1> SUFFICES ASSUME DefaultsInit PROVE DefaultsInv
  OBVIOUS
<1> USE GlobalSessionAssumption
<1>1. ImportDefaults \in Dicts
  <2>1. ImportDefaults \in [DOMAIN ImportDefaults -> Values]
    BY DefaultsAssumption DEF Values
  <2> QED BY <2>1, DefaultsAssumption DEF Dicts
<1>2. DefaultTypes
  BY <1>1 DEF DefaultsInit, DefaultTypes
<1>3. \A t \in Threads : Fills(t) /\ Finds(t)
  BY DEF DefaultsInit, Fills, Finds, Filling
<1>4. \A p \in Procs : Follows(p)
  BY DEF DefaultsInit, Follows, Filling, ThreadsOf
<1> QED BY <1>2, <1>3, <1>4 DEF DefaultsInv

(* Every step of the program keeps the invariant about the defaults.       *)
LEMMA NextDefaults == SessionInv /\ LockInv /\ DefaultsInv /\ [Next]_vars => DefaultsInv'
<1> SUFFICES ASSUME SessionInv, LockInv, DefaultsInv, [Next]_vars PROVE DefaultsInv'
  OBVIOUS
<1>1. ASSUME UNCHANGED defaultsVars PROVE DefaultsInv'
  <2>1. UNCHANGED <<config, cache, cacheLock, dpc, given, at, merged, failed, changed, mayBeStale>>
    BY <1>1 DEF defaultsVars
  <2>2. DefaultTypes'
    BY <2>1 DEF DefaultsInv, DefaultTypes
  <2>3. \A t \in Threads : Fills(t)' /\ Finds(t)'
    BY <2>1 DEF DefaultsInv, Fills, Finds
  <2>4. \A p \in Procs : Follows(p)'
    BY <2>1 DEF DefaultsInv, Follows, Dirty, Agree, GetDefault, Read, ThreadsOf
  <2> QED BY <2>2, <2>3, <2>4 DEF DefaultsInv
<1>2. LockTypes
  BY DEF LockInv
<1>3. CASE UNCHANGED vars \/ Stop \/ \E p \in Procs : ExitProcess(p)
  BY <1>1, <1>3 DEF vars, Stop, ExitProcess
<1>4. ASSUME NEW t \in Threads, ThreadStep(t) PROVE DefaultsInv'
  <2>1. DefaultsMove(t) \/ UNCHANGED defaultsVars
    BY <1>4 DEF ThreadStep, RequestMerge, RequestSend, AsyncSend, DefaultsMove
  <2> QED BY <1>1, <1>2, <2>1, MoveDefaults
<1>5. ASSUME NEW t \in Threads,
             \/ \E kw \in Menu[t].request : Request(t, kw)
             \/ \E kw \in Menu[t].async : AsyncRequest(t, kw)
             \/ \E items \in Menu[t].set : Set(t, items)
             \/ Reset(t) \/ CloseGlobal(t)
      PROVE  DefaultsInv'
  <2>1. DefaultsMove(t) \/ UNCHANGED defaultsVars
    BY <1>5 DEF Request, AsyncRequest, Set, Reset, CloseGlobal, DefaultsMove
  <2> QED BY <1>1, <1>2, <2>1, MoveDefaults
<1>6. ASSUME NEW t \in Threads, NEW q \in Procs, ForkProcess(t, q) PROVE DefaultsInv'
  BY <1>6, ForkFollows DEF ForkProcess
<1> QED BY <1>3, <1>4, <1>5, <1>6 DEF Next

(* The bound on the number of calls is kept.                               *)
LEMMA NextCalls == calls \in 0..MaxCalls /\ [Next]_vars => (calls \in 0..MaxCalls)'
<1> SUFFICES ASSUME calls \in 0..MaxCalls, [Next]_vars PROVE calls' \in 0..MaxCalls
  OBVIOUS
<1>1. calls' = calls \/ (calls < MaxCalls /\ calls' = calls + 1)
  <2>1. CASE UNCHANGED vars \/ Stop \/ \E p \in Procs : ExitProcess(p)
    BY <2>1 DEF vars, Stop, ExitProcess, apiVars
  <2>2. ASSUME NEW t \in Threads, ThreadStep(t) PROVE calls' = calls
    BY <2>2 DEF ThreadStep, RequestMerge, RequestSend, AsyncSend, apiVars
  <2>3. ASSUME NEW t \in Threads,
               \/ \E kw \in Menu[t].request : Request(t, kw)
               \/ \E kw \in Menu[t].async : AsyncRequest(t, kw)
               \/ \E items \in Menu[t].set : Set(t, items)
               \/ Reset(t) \/ CloseGlobal(t)
               \/ \E q \in Procs : ForkProcess(t, q)
        PROVE  calls < MaxCalls /\ calls' = calls + 1
    BY <2>3 DEF Request, AsyncRequest, Set, Reset, CloseGlobal, ForkProcess, Begins, Idle
  <2> QED BY <2>1, <2>2, <2>3 DEF Next
<1> QED BY <1>1, ApiAssumption

-----------------------------------------------------------------------------
(* Both invariants hold in every behaviour of the module-level functions.  *)
THEOREM ApiInvariance == Spec => [](SessionInv /\ LockInv)
<1>1. Init => SessionInv /\ LockInv
  BY InitSession, InitLock DEF Init
<1>2. (SessionInv /\ LockInv) /\ [Next]_vars => (SessionInv /\ LockInv)'
  BY NextIsGlobal, NextSession, NextLock
<1> QED BY <1>1, <1>2, PTL DEF Spec

(* get_global_session gives no caller a session that another process       *)
(* created, for any number of threads racing through the unlocked reset of *)
(* a child, and for children of children.                                  *)
THEOREM SessionsAreOwn == Spec => []ChildHasItsOwnSession
<1>1. SessionInv => ChildHasItsOwnSession
  BY DEF SessionInv
<1> QED BY <1>1, ApiInvariance, PTL

(* _global_lock and _cache_lock are given back on every path out of their  *)
(* blocks, exceptions included; a thread can find one without a holder in  *)
(* its process only if the process was forked while the lock was held.     *)
THEOREM LocksComeBack == Spec => []LocksAreGivenBack
<1>1. LockInv => LocksAreGivenBack
  BY DEF LockInv
<1> QED BY <1>1, ApiInvariance, PTL

-----------------------------------------------------------------------------
(* At first there is no session, and nobody is in a call.                  *)
LEMMA InitOpen == GlobalInit => OpenInv /\ ResetsCounted
<1> SUFFICES ASSUME GlobalInit PROVE OpenInv /\ ResetsCounted
  OBVIOUS
<1> USE GlobalSessionAssumption DEF GlobalInit
<1>1. HoldersHold /\ Serials /\ NothingBeforeAdoption /\ Undisturbed
  BY DEF HoldersHold, Serials, NothingBeforeAdoption, Undisturbed, ThreadsOf
<1>2. ClosedIsForgotten
  BY DEF ClosedIsForgotten, ThreadsOf
<1>3. Lost(Root) = {}
  BY DEF Lost
<1>4. ResetsCounted
  BY <1>3 DEF ResetsCounted, ThreadsOf
<1> QED BY <1>1, <1>2, <1>4 DEF OpenInv

(* The invariants about open sessions hold in every behaviour.             *)
THEOREM OpenInvariance == Spec => [](OpenInv /\ ResetsCounted)
<1>1. Init => OpenInv /\ ResetsCounted
  BY InitOpen DEF Init
<1>2. SessionInv /\ SessionInv' /\ (OpenInv /\ ResetsCounted) /\ [Next]_vars =>
        (OpenInv /\ ResetsCounted)'
  BY NextIsGlobal, NextOpen, NextCounted
<1>3. Spec => []SessionInv
  BY ApiInvariance, PTL
<1> QED BY <1>1, <1>2, <1>3, PTL DEF Spec

(* The invariant about the defaults, and the bound on the calls, too.      *)
THEOREM DefaultsInvariance == Spec => [](DefaultsInv /\ calls \in 0..MaxCalls)
<1>1. Init => DefaultsInv /\ calls \in 0..MaxCalls
  BY InitDefaults, ApiAssumption DEF Init
<1>2. (SessionInv /\ LockInv) /\ (DefaultsInv /\ calls \in 0..MaxCalls) /\ [Next]_vars =>
        (DefaultsInv /\ calls \in 0..MaxCalls)'
  BY NextDefaults, NextCalls
<1> QED BY <1>1, <1>2, ApiInvariance, PTL DEF Spec

(* However many threads race through get_global_session and                *)
(* close_global_session, the process that imported the package leaves no   *)
(* session open that nobody can close; a child leaves fewer than it has    *)
(* threads, in the unlocked reset of its parent's session.                 *)
THEOREM SessionsKept == Spec => []NoSessionLost
<1>1. SessionInv /\ OpenInv /\ ResetsCounted => NoSessionLost
  BY CountBounds
<1> QED BY <1>1, ApiInvariance, OpenInvariance, PTL

(* Whatever set_default, reset_defaults and racing fills of the cache do,  *)
(* the cache of _merge_defaults holds the defaults once they are done, but *)
(* for the three ways in which it can be left behind: a set_default that   *)
(* raises, a change that ends during a fill, a fork during a change.       *)
THEOREM CacheCurrent == Spec => []CacheIsCurrent
<1>1. SessionInv /\ LockInv /\ DefaultsInv /\ calls \in 0..MaxCalls => CacheIsCurrent
  <2> SUFFICES ASSUME SessionInv, LockInv, DefaultsInv, calls \in 0..MaxCalls
               PROVE  CacheIsCurrent
    OBVIOUS
  <2>1. TypeOK
    <3>1. DefaultTypes
      BY DEF DefaultsInv
    <3>2. ASSUME NEW p \in Procs
          PROVE  DOMAIN config[p] \subseteq Keys /\ (cache[p] # None => DOMAIN cache[p] \subseteq Keys)
      BY <3>1, DictFacts DEF DefaultTypes
    <3> QED BY <3>1, <3>2 DEF TypeOK, SessionInv, LockInv, LockTypes, DefaultTypes
  <2>2. ASSUME NEW p \in Procs, Setting(p) = {}, ~mayBeStale[p], cache[p] # None
        PROVE  \A k \in Keys : GetDefault(cache[p], k) = GetDefault(config[p], k)
    <3>1. ~Dirty(p)
      BY <2>2 DEF Setting, Dirty
    <3> QED BY <2>2, <3>1 DEF DefaultsInv, Follows, Agree
  <2> QED BY <2>1, <2>2 DEF CacheIsCurrent
<1> QED BY <1>1, ApiInvariance, DefaultsInvariance, PTL

(* A module-level call fails before it sends anything only if another      *)
(* thread changed the defaults, or closed or dropped the session, while it *)
(* was under way.                                                          *)
THEOREM FailuresExplained == Spec => []FailsOnlyIfDisturbed
<1>1. SessionInv /\ OpenInv /\ DefaultsInv => FailsOnlyIfDisturbed
  <2> SUFFICES ASSUME SessionInv, OpenInv, DefaultsInv, NEW t \in Threads,
                      dpc[t] = "merged", Outcome(t) # "sent"
               PROVE  IF Outcome(t) \in {"KeyError", "TypeError"} THEN t \in changed
                      ELSE t \in disturbed
    BY DEF FailsOnlyIfDisturbed
  <2>1. failed[t] = None \/ (failed[t] \in {"KeyError", "TypeError"} /\ t \in changed)
    BY DEF DefaultsInv, Finds
  <2>2. gpc[t] = "have" /\ t \notin disturbed => got[t] # None /\ got[t] \notin closed[ProcOf[t]]
    BY DEF OpenInv, Undisturbed
  <2>3. None \notin {"KeyError", "TypeError"}
    BY DefaultsAssumption
  <2> QED BY <2>1, <2>2, <2>3 DEF Outcome
<1> QED BY <1>1, ApiInvariance, OpenInvariance, DefaultsInvariance, PTL
=============================================================================
