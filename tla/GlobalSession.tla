---------------------------- MODULE GlobalSession ----------------------------
(***************************************************************************)
(* The global session of cycletls/_global.py: get_global_session with its  *)
(* double-checked lock and its check for a forked child,                   *)
(* close_global_session, and the cleanup at exit.  Every read and write of *)
(* the module's globals outside the lock is a step of its own.  A fork     *)
(* copies the memory of the process as it is, a held lock included, and    *)
(* only the thread that forked goes on in the child.                       *)
(***************************************************************************)
EXTENDS Naturals, FiniteSets

CONSTANTS Procs,     \* the processes
          Root,      \* the process that imported the package
          Threads,
          ProcOf,    \* the process of each thread
          None

ASSUME GlobalSessionAssumption ==
  /\ Root \in Procs
  /\ ProcOf \in [Threads -> Procs]
  /\ None \notin Procs /\ None \notin Threads /\ IsFiniteSet(Threads)
  /\ None \notin Procs \X (Nat \ {0})

VARIABLES
  process,     \* "unborn", "running" or "exited"
  session,     \* _global_session in the memory of each process
  globalLock,  \* the thread that holds _global_lock
  parentPid,   \* _parent_pid
  cleanup,     \* _cleanup_registered
  closed,      \* the sessions whose _closed is set, in the memory of each process
  made,        \* how many sessions each process created
  gpc, got,    \* where a thread is, and the session it was given
  disturbed    \* the threads during whose call another thread closed or dropped the session

sessionVars == <<process, session, globalLock, parentPid, cleanup, closed, made,
                 gpc, got, disturbed>>

(* A session is the process that created it and a serial number.           *)
Sessions == Procs \X (Nat \ {0})
ThreadsOf(p) == {t \in Threads : ProcOf[t] = p}

GlobalInit ==
  /\ process = [p \in Procs |-> IF p = Root THEN "running" ELSE "unborn"]
  /\ session = [p \in Procs |-> None]
  /\ globalLock = [p \in Procs |-> None]
  /\ parentPid = [p \in Procs |-> Root]
  /\ cleanup = [p \in Procs |-> FALSE]
  /\ closed = [p \in Procs |-> {}]
  /\ made = [p \in Procs |-> 0]
  /\ gpc = [t \in Threads |-> "idle"]
  /\ got = [t \in Threads |-> None]
  /\ disturbed = {}

Goto(t, l) == gpc' = [gpc EXCEPT ![t] = l]

(* t closed or dropped the session: the other calls of its process see it. *)
Disturb(t) ==
  disturbed' = disturbed \cup {u \in ThreadsOf(ProcOf[t]) \ {t} : gpc[u] # "idle"}

-----------------------------------------------------------------------------
(* get_global_session *)
Get(t) ==
  LET p == ProcOf[t]
      closing == \E u \in ThreadsOf(p) : gpc[u] = "forget"
  IN  /\ process[p] = "running" /\ gpc[t] = "idle"
      /\ Goto(t, "pid")
      /\ disturbed' = IF closing THEN disturbed \cup {t} ELSE disturbed \ {t}
      /\ UNCHANGED <<process, session, globalLock, parentPid, cleanup, closed, made, got>>

CheckPid(t) ==
  /\ gpc[t] = "pid"
  /\ Goto(t, IF parentPid[ProcOf[t]] # ProcOf[t] THEN "reset" ELSE "look")
  /\ UNCHANGED <<process, session, globalLock, parentPid, cleanup, closed, made, got, disturbed>>

(* As ResetSession below, taking over the process id and not dropping the  *)
(* session.                                                                *)
ResetPidOnly(t) ==
  /\ gpc[t] = "reset"
  /\ parentPid' = [parentPid EXCEPT ![ProcOf[t]] = ProcOf[t]]
  /\ Goto(t, "adopt")
  /\ Disturb(t)
  /\ UNCHANGED <<process, session, globalLock, cleanup, closed, made, got>>

(* In a forked child the parent's session is dropped, not closed; then the *)
(* process id is the child's.  Neither write takes the lock.               *)
ResetSession(t) ==
  /\ gpc[t] = "reset"
  /\ session' = [session EXCEPT ![ProcOf[t]] = None]
  /\ Goto(t, "adopt")
  /\ Disturb(t)
  /\ UNCHANGED <<process, globalLock, parentPid, cleanup, closed, made, got>>

AdoptPid(t) ==
  /\ gpc[t] = "adopt"
  /\ parentPid' = [parentPid EXCEPT ![ProcOf[t]] = ProcOf[t]]
  /\ Goto(t, "look")
  /\ UNCHANGED <<process, session, globalLock, cleanup, closed, made, got, disturbed>>

Look(t) ==
  /\ gpc[t] = "look"
  /\ Goto(t, IF session[ProcOf[t]] = None THEN "lock" ELSE "take")
  /\ UNCHANGED <<process, session, globalLock, parentPid, cleanup, closed, made, got, disturbed>>

LockGlobal(t, from, to) ==
  /\ gpc[t] = from
  /\ globalLock[ProcOf[t]] = None
  /\ globalLock' = [globalLock EXCEPT ![ProcOf[t]] = t]
  /\ Goto(t, to)
  /\ UNCHANGED <<process, session, parentPid, cleanup, closed, made, got, disturbed>>

(* As Create below, without the second look at the session.                *)
CreateUnchecked(t) ==
  LET p == ProcOf[t]
  IN  /\ gpc[t] = "create"
      /\ made' = [made EXCEPT ![p] = @ + 1]
      /\ session' = [session EXCEPT ![p] = <<p, made'[p]>>]
      /\ cleanup' = [cleanup EXCEPT ![p] = TRUE]
      /\ globalLock' = [globalLock EXCEPT ![p] = None]
      /\ Goto(t, "take")
      /\ UNCHANGED <<process, parentPid, closed, got, disturbed>>

(* The second check, the new session and the registration of the cleanup,  *)
(* all under the lock.                                                     *)
Create(t) ==
  LET p == ProcOf[t]
  IN  /\ gpc[t] = "create"
      /\ \/ /\ session[p] = None
            /\ made' = [made EXCEPT ![p] = @ + 1]
            /\ session' = [session EXCEPT ![p] = <<p, made'[p]>>]
            /\ cleanup' = [cleanup EXCEPT ![p] = TRUE]
         \/ session[p] # None /\ UNCHANGED <<made, session, cleanup>>
      /\ globalLock' = [globalLock EXCEPT ![p] = None]
      /\ Goto(t, "take")
      /\ UNCHANGED <<process, parentPid, closed, got, disturbed>>

(* return _global_session reads the global once more.                      *)
Take(t) ==
  /\ gpc[t] = "take"
  /\ got' = [got EXCEPT ![t] = session[ProcOf[t]]]
  /\ Goto(t, "have")
  /\ UNCHANGED <<process, session, globalLock, parentPid, cleanup, closed, made, disturbed>>

(* The caller is done with the session it was given.                       *)
Release(t) ==
  /\ gpc[t] = "have"
  /\ Goto(t, "idle")
  /\ got' = [got EXCEPT ![t] = None]
  /\ disturbed' = disturbed \ {t}
  /\ UNCHANGED <<process, session, globalLock, parentPid, cleanup, closed, made>>

-----------------------------------------------------------------------------
(* close_global_session *)
Close(t) ==
  /\ process[ProcOf[t]] = "running" /\ gpc[t] = "idle"
  /\ session[ProcOf[t]] # None
  /\ Goto(t, "closelock")
  /\ UNCHANGED <<process, session, globalLock, parentPid, cleanup, closed, made, got, disturbed>>

CloseSession(t) ==
  LET p == ProcOf[t]
  IN  /\ gpc[t] = "closing"
      /\ \/ /\ session[p] # None
            /\ closed' = [closed EXCEPT ![p] = @ \cup {session[p]}]
            /\ Goto(t, "forget")
            /\ Disturb(t)
            /\ UNCHANGED globalLock
         \/ /\ session[p] = None
            /\ globalLock' = [globalLock EXCEPT ![p] = None]
            /\ Goto(t, "idle")
            /\ UNCHANGED <<closed, disturbed>>
      /\ UNCHANGED <<process, session, parentPid, cleanup, made, got>>

(* As Forget below, without giving back the lock.                          *)
ForgetLocked(t) ==
  /\ gpc[t] = "forget"
  /\ session' = [session EXCEPT ![ProcOf[t]] = None]
  /\ Goto(t, "idle")
  /\ Disturb(t)
  /\ UNCHANGED <<process, globalLock, parentPid, cleanup, closed, made, got>>

(* As Forget below, keeping the closed session as the global one.          *)
ForgetNothing(t) ==
  LET p == ProcOf[t]
  IN  /\ gpc[t] = "forget"
      /\ globalLock' = [globalLock EXCEPT ![p] = None]
      /\ Goto(t, "idle")
      /\ Disturb(t)
      /\ UNCHANGED <<process, session, parentPid, cleanup, closed, made, got>>

Forget(t) ==
  LET p == ProcOf[t]
  IN  /\ gpc[t] = "forget"
      /\ session' = [session EXCEPT ![p] = None]
      /\ globalLock' = [globalLock EXCEPT ![p] = None]
      /\ Goto(t, "idle")
      /\ Disturb(t)
      /\ UNCHANGED <<process, parentPid, cleanup, closed, made, got>>

-----------------------------------------------------------------------------
(* os.fork() in thread t of process p: the child q starts from p's memory. *)
Fork(t, q) ==
  LET p == ProcOf[t]
      copy(f) == [f EXCEPT ![q] = f[p]]
  IN  /\ process[p] = "running" /\ gpc[t] = "idle" /\ process[q] = "unborn"
      /\ process' = [process EXCEPT ![q] = "running"]
      /\ session' = copy(session)
      /\ globalLock' = copy(globalLock)
      /\ parentPid' = copy(parentPid)
      /\ cleanup' = copy(cleanup)
      /\ closed' = copy(closed)
      /\ UNCHANGED <<made, gpc, got, disturbed>>

(* The end of a process: atexit runs _cleanup_global_session, without the  *)
(* lock, once the threads are done.                                        *)
Exit(p) ==
  /\ process[p] = "running"
  /\ \A t \in ThreadsOf(p) : gpc[t] = "idle"
  /\ process' = [process EXCEPT ![p] = "exited"]
  /\ \/ /\ cleanup[p] /\ session[p] # None
        /\ closed' = [closed EXCEPT ![p] = @ \cup {session[p]}]
        /\ session' = [session EXCEPT ![p] = None]
     \/ /\ ~(cleanup[p] /\ session[p] # None)
        /\ UNCHANGED <<closed, session>>
  /\ UNCHANGED <<globalLock, parentPid, cleanup, made, gpc, got, disturbed>>

(* What a thread does by itself once it has called.                        *)
SessionStep(t) ==
  \/ CheckPid(t) \/ ResetSession(t) \/ AdoptPid(t) \/ Look(t)
  \/ LockGlobal(t, "lock", "create") \/ Create(t) \/ Take(t)
  \/ LockGlobal(t, "closelock", "closing") \/ CloseSession(t) \/ Forget(t)

GlobalNext ==
  \/ \E t \in Threads : Get(t) \/ SessionStep(t) \/ Release(t) \/ Close(t)
  \/ \E t \in Threads, q \in Procs : Fork(t, q)
  \/ \E p \in Procs : Exit(p)

GlobalSpec == GlobalInit /\ [][GlobalNext]_sessionVars

-----------------------------------------------------------------------------
GlobalTypeOK ==
  /\ process \in [Procs -> {"unborn", "running", "exited"}]
  /\ session \in [Procs -> Sessions \cup {None}]
  /\ globalLock \in [Procs -> Threads \cup {None}]
  /\ parentPid \in [Procs -> Procs]
  /\ cleanup \in [Procs -> BOOLEAN]
  /\ closed \in [Procs -> SUBSET Sessions]
  /\ made \in [Procs -> Nat]
  /\ gpc \in [Threads -> {"idle", "pid", "reset", "adopt", "look", "lock", "create",
                          "take", "have", "closelock", "closing", "forget"}]
  /\ got \in [Threads -> Sessions \cup {None}]
  /\ disturbed \subseteq Threads

(* "Fork-safe (creates new session in child processes)": a caller is never *)
(* given a session that another process created, however the threads of a  *)
(* child race through the check of the process id, which takes no lock.    *)
ChildHasItsOwnSession ==
  \A t \in Threads : got[t] # None => got[t][1] = ProcOf[t]

(* Sessions that were created in p, are still open and can no longer be    *)
(* closed, as nothing refers to them.                                      *)
Lost(p) == {<<p, n>> : n \in 1..made[p]} \ (closed[p] \cup {session[p]})

(* Racing first calls create one session, and close_global_session and the *)
(* exit close it: none is left open behind.  The exception is the unlocked *)
(* reset in a forked child: every thread of it but one can drop a session  *)
(* that a faster thread has just created.                                  *)
NoSessionLost ==
  /\ Lost(Root) = {}
  /\ \A p \in Procs \ {Root} :
       Lost(p) # {} => Cardinality(Lost(p)) < Cardinality(ThreadsOf(p))
=============================================================================
