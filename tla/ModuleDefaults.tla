--------------------------- MODULE ModuleDefaults ---------------------------
(***************************************************************************)
(* The defaults of cycletls/_config.py: set_default, reset_defaults,       *)
(* get_default and _merge_defaults with its cache for calls without        *)
(* options.  Only the fill of the cache takes _cache_lock; every other     *)
(* access to _config and _merged_cache is a step of its own.               *)
(***************************************************************************)
EXTENDS Naturals, Sequences, TLC, GlobalSession

CONSTANTS Mapping,     \* the parameters, in the order of _CONFIG_TO_PARAM_MAPPING
          Valid,       \* for each of them the values _validate_config lets pass
          ImportDefaults  \* what the package sets when it is imported

Keys == {Mapping[i] : i \in 1..Len(Mapping)}

ASSUME DefaultsAssumption ==
  /\ Mapping \in Seq(DOMAIN Valid)
  /\ DOMAIN ImportDefaults \subseteq Keys
  /\ ImportDefaults = [k \in DOMAIN ImportDefaults |-> ImportDefaults[k]]
  /\ \A k \in DOMAIN ImportDefaults : ImportDefaults[k] \in Valid[k]
  /\ None \notin {"ValueError", "KeyError", "TypeError"}
  /\ \A K \in SUBSET Keys : None \notin [K -> UNION {Valid[k] : k \in Keys}]

VARIABLES
  config,      \* _config
  cache,       \* _merged_cache
  cacheLock,   \* the thread that holds _cache_lock
  dpc,         \* where a thread is
  given,       \* the options of its call, or what it sets: a sequence of pairs
  at,          \* its position in the loop over Mapping, or over what it sets
  merged,      \* the dictionary it is building, or was given
  failed,      \* the exception that ended its set_default or merge
  changed,     \* the threads during whose merge the defaults were changed
  mayBeStale   \* the cache may be older than the defaults: see SetOne, Invalidate
               \* and ForkDefaults

defaultsVars == <<config, cache, cacheLock, dpc, given, at, merged, failed,
                  changed, mayBeStale>>

Empty == [k \in {} |-> None]

(* d[key] = value *)
Put(d, key, value) ==
  [k \in DOMAIN d \cup {key} |-> IF k = key THEN value ELSE d[k]]

(* get_default, and cycletls.default_<key> through __getattr__.            *)
GetDefault(c, key) == IF key \in DOMAIN c THEN c[key] ELSE None

DefaultsInit ==
  /\ config = [p \in Procs |-> ImportDefaults]
  /\ cache = [p \in Procs |-> None]
  /\ cacheLock = [p \in Procs |-> None]
  /\ dpc = [t \in Threads |-> "idle"]
  /\ given = [t \in Threads |-> Empty]
  /\ at = [t \in Threads |-> 1]
  /\ merged = [t \in Threads |-> Empty]
  /\ failed = [t \in Threads |-> None]
  /\ changed = {}
  /\ mayBeStale = [p \in Procs |-> FALSE]

DGoto(t, l) == dpc' = [dpc EXCEPT ![t] = l]

Building(p) == {t \in ThreadsOf(p) : cacheLock[p] = t /\ dpc[t] \in {"buildin", "buildget", "store"}}
Setting(p) == {t \in ThreadsOf(p) : dpc[t] \in {"set", "reset", "invalidate"}}

-----------------------------------------------------------------------------
Change(p) ==
  changed' = changed \cup {t \in ThreadsOf(p) : dpc[t] # "idle" /\ t \notin Setting(p)}

(* set_default and reset_defaults                                          *)
SetDefault(t, items) ==
  /\ dpc[t] = "idle"
  /\ DGoto(t, "set")
  /\ given' = [given EXCEPT ![t] = items]
  /\ at' = [at EXCEPT ![t] = 1]
  /\ failed' = [failed EXCEPT ![t] = None]
  /\ UNCHANGED <<config, cache, cacheLock, merged, changed, mayBeStale>>

(* One round of the loop: an unknown option or an invalid value raises and *)
(* leaves the earlier ones set and the cache as it is.                     *)
SetOne(t) ==
  LET p == ProcOf[t]
      key == given[t][at[t]][1]
      value == given[t][at[t]][2]
      known == key \in Keys /\ value \in Valid[key]
  IN  /\ dpc[t] = "set" /\ at[t] <= Len(given[t])
      /\ \/ /\ known
            /\ config' = [config EXCEPT ![p] = Put(@, key, value)]
            /\ Change(p)
            /\ at' = [at EXCEPT ![t] = @ + 1]
            /\ UNCHANGED <<dpc, given, failed, mayBeStale>>
         \/ /\ ~known
            /\ failed' = [failed EXCEPT ![t] = "ValueError"]
            /\ mayBeStale' = [mayBeStale EXCEPT
                 ![p] = @ \/ (at[t] > 1 /\ (cache[p] # None \/ Building(p) # {}))]
            /\ DGoto(t, "idle")
            /\ given' = [given EXCEPT ![t] = Empty]
            /\ at' = [at EXCEPT ![t] = 1]
            /\ UNCHANGED <<config, changed>>
      /\ UNCHANGED <<cache, cacheLock, merged>>

ResetDefaults(t) ==
  /\ dpc[t] = "idle"
  /\ DGoto(t, "reset")
  /\ failed' = [failed EXCEPT ![t] = None]
  /\ UNCHANGED <<config, cache, cacheLock, given, at, merged, changed, mayBeStale>>

Clear(t) ==
  /\ dpc[t] = "reset"
  /\ config' = [config EXCEPT ![ProcOf[t]] = Empty]
  /\ Change(ProcOf[t])
  /\ DGoto(t, "invalidate")
  /\ UNCHANGED <<cache, cacheLock, given, at, merged, failed, mayBeStale>>

Sets(t) == \/ dpc[t] = "invalidate"
           \/ dpc[t] = "set" /\ at[t] > Len(given[t])

(* As Invalidate below, leaving the cache.                                 *)
KeepCache(t) ==
  /\ Sets(t)
  /\ DGoto(t, "idle")
  /\ given' = [given EXCEPT ![t] = Empty]
  /\ at' = [at EXCEPT ![t] = 1]
  /\ UNCHANGED <<config, cache, cacheLock, merged, failed, changed, mayBeStale>>

(* The last step of both drops the cache, without the lock: a thread that  *)
(* is filling it stores what it has read before.                           *)
Invalidate(t) ==
  LET p == ProcOf[t]
  IN  /\ Sets(t)
      /\ cache' = [cache EXCEPT ![p] = None]
      /\ mayBeStale' = [mayBeStale EXCEPT ![p] = Building(p) # {}]
      /\ Change(p)
      /\ DGoto(t, "idle")
      /\ given' = [given EXCEPT ![t] = Empty]
      /\ at' = [at EXCEPT ![t] = 1]
      /\ UNCHANGED <<config, cacheLock, merged, failed>>

-----------------------------------------------------------------------------
(* _merge_defaults(kwargs) *)
Merge(t, kwargs) ==
  LET p == ProcOf[t]
  IN  /\ dpc[t] = "idle"
      /\ given' = [given EXCEPT ![t] = kwargs]
      /\ at' = [at EXCEPT ![t] = 1]
      /\ merged' = [merged EXCEPT ![t] = IF config[p] = Empty THEN kwargs ELSE Empty]
      /\ failed' = [failed EXCEPT ![t] = None]
      /\ changed' = changed \ {t}
      /\ DGoto(t, IF config[p] = Empty THEN "merged"
                  ELSE IF kwargs = Empty THEN "look" ELSE "mergein")
      /\ UNCHANGED <<config, cache, cacheLock, mayBeStale>>

LookInCache(t) ==
  /\ dpc[t] = "look"
  /\ DGoto(t, IF cache[ProcOf[t]] # None THEN "return" ELSE "lock")
  /\ UNCHANGED <<config, cache, cacheLock, given, at, merged, failed, changed, mayBeStale>>

LockCache(t) ==
  LET p == ProcOf[t]
  IN  /\ dpc[t] = "lock"
      /\ cacheLock[p] = None
      /\ cacheLock' = [cacheLock EXCEPT ![p] = t]
      /\ DGoto(t, "check")
      /\ UNCHANGED <<config, cache, given, at, merged, failed, changed, mayBeStale>>

CheckAgain(t) ==
  /\ dpc[t] = "check"
  /\ DGoto(t, IF cache[ProcOf[t]] = None THEN "buildin" ELSE "return")
  /\ UNCHANGED <<config, cache, cacheLock, given, at, merged, failed, changed, mayBeStale>>

Loop == {"buildin", "mergein"}
GetOf(l) == IF l = "buildin" THEN "buildget" ELSE "mergeget"
InOf(l) == IF l = "buildget" THEN "buildin" ELSE "mergein"
EndOf(l) == IF l = "buildin" THEN "store" ELSE "update"

(* The loop over the mapping: "if config_key in _config", then the read.   *)
LoopIn(t) ==
  LET key == Mapping[at[t]]
      wanted == key \in DOMAIN config[ProcOf[t]] /\ key \notin DOMAIN given[t]
  IN  /\ dpc[t] \in Loop
      /\ \/ at[t] > Len(Mapping) /\ DGoto(t, EndOf(dpc[t])) /\ UNCHANGED at
         \/ at[t] <= Len(Mapping) /\ wanted /\ DGoto(t, GetOf(dpc[t])) /\ UNCHANGED at
         \/ at[t] <= Len(Mapping) /\ ~wanted /\ at' = [at EXCEPT ![t] = @ + 1] /\ UNCHANGED dpc
      /\ UNCHANGED <<config, cache, cacheLock, given, merged, failed, changed, mayBeStale>>

Unlock(t, p) == cacheLock' = IF cacheLock[p] = t THEN [cacheLock EXCEPT ![p] = None] ELSE cacheLock

(* A reset in between makes the read a KeyError, which leaves the with     *)
(* statement of the cache.                                                 *)
LoopGet(t) ==
  LET p == ProcOf[t]
      key == Mapping[at[t]]
  IN  /\ dpc[t] \in {"buildget", "mergeget"}
      /\ \/ /\ key \in DOMAIN config[p]
            /\ merged' = [merged EXCEPT ![t] = Put(@, key, config[p][key])]
            /\ at' = [at EXCEPT ![t] = @ + 1]
            /\ DGoto(t, InOf(dpc[t]))
            /\ UNCHANGED <<cacheLock, failed>>
         \/ /\ key \notin DOMAIN config[p]
            /\ failed' = [failed EXCEPT ![t] = "KeyError"]
            /\ Unlock(t, p)
            /\ DGoto(t, "merged")
            /\ UNCHANGED <<merged, at>>
      /\ UNCHANGED <<config, cache, given, changed, mayBeStale>>

(* result.update(kwargs) *)
Update(t) ==
  /\ dpc[t] = "update"
  /\ merged' = [merged EXCEPT ![t] = given[t] @@ @]
  /\ DGoto(t, "merged")
  /\ UNCHANGED <<config, cache, cacheLock, given, at, failed, changed, mayBeStale>>

(* As Store below, keeping the result to itself.                           *)
StoreNothing(t) ==
  /\ dpc[t] = "store"
  /\ DGoto(t, "return")
  /\ UNCHANGED <<config, cache, cacheLock, given, at, merged, failed, changed, mayBeStale>>

Store(t) ==
  /\ dpc[t] = "store"
  /\ cache' = [cache EXCEPT ![ProcOf[t]] = merged[t]]
  /\ DGoto(t, "return")
  /\ UNCHANGED <<config, cacheLock, given, at, merged, failed, changed, mayBeStale>>

(* return _merged_cache reads the global once more: None is a TypeError    *)
(* once the caller unpacks it.                                             *)
ReturnCache(t) ==
  LET p == ProcOf[t]
  IN  /\ dpc[t] = "return"
      /\ \/ cache[p] # None /\ merged' = [merged EXCEPT ![t] = cache[p]] /\ UNCHANGED failed
         \/ cache[p] = None /\ failed' = [failed EXCEPT ![t] = "TypeError"] /\ UNCHANGED merged
      /\ Unlock(t, p)
      /\ DGoto(t, "merged")
      /\ UNCHANGED <<config, cache, given, at, changed, mayBeStale>>

MergeDone(t) ==
  /\ dpc[t] = "merged"
  /\ DGoto(t, "idle")
  /\ given' = [given EXCEPT ![t] = Empty]
  /\ at' = [at EXCEPT ![t] = 1]
  /\ merged' = [merged EXCEPT ![t] = Empty]
  /\ failed' = [failed EXCEPT ![t] = None]
  /\ changed' = changed \ {t}
  /\ UNCHANGED <<config, cache, cacheLock, mayBeStale>>

(* The child's memory after a fork.  A change that another thread was in   *)
(* the middle of does not go on there, and leaves the child's cache as it  *)
(* is.                                                                     *)
ForkDefaults(t, q) ==
  LET p == ProcOf[t]
      copy(f) == [f EXCEPT ![q] = f[p]]
  IN  /\ dpc[t] = "idle"
      /\ config' = copy(config)
      /\ cache' = copy(cache)
      /\ cacheLock' = copy(cacheLock)
      /\ mayBeStale' = [mayBeStale EXCEPT ![q] =
           mayBeStale[p] \/ (cache[p] # None /\ Setting(p) # {})]
      /\ UNCHANGED <<dpc, given, at, merged, failed, changed>>

MergeStep(t) ==
  \/ LookInCache(t) \/ LockCache(t) \/ CheckAgain(t) \/ LoopIn(t) \/ LoopGet(t)
  \/ Update(t) \/ Store(t) \/ ReturnCache(t)

SetterStep(t) == SetOne(t) \/ Clear(t) \/ Invalidate(t)
=============================================================================
