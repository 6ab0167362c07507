---------------------------- MODULE RoundTripper ----------------------------
(***************************************************************************)
(* One roundTripper of golang/roundtripper.go, shared by the requests of   *)
(* one pooled client: the caches of transports and of pre-dialled          *)
(* connections, the mutex per address, the lock over dialling, and         *)
(* CloseIdleConnections as its users in golang/index.go call it.           *)
(*                                                                         *)
(* A request is a chain of RoundTrip calls (hops: the URL and what it      *)
(* redirects to).  URLs have no explicit port, so that getDialTLSAddr maps *)
(* http://h and https://h to the same key.  The inner transports (fhttp)   *)
(* are external: they reuse a connection of their own or dial one.         *)
(***************************************************************************)
EXTENDS Integers, Sequences

CONSTANTS
  Reqs,       \* the requests made on this client
  Addrs,      \* the keys host:443
  Hops,       \* request -> sequence of [addr, scheme]
  Modes,      \* who may use it: "do" (Do with reuse), "service"
              \* (dispatcherAsync with reuse), "private" (no reuse: one request)
  AutoRetry,  \* a failed handshake is tried once more with another hello
  MaxClears,  \* bound: calls of clearAllConnections
  MaxConns,   \* bound: connections that exist at a time
  MaxTrans    \* bound: transports that exist at a time

Cids == 1..MaxConns
Tids == 1..MaxTrans
None == 0

ASSUME RoundTripperAssumption ==
  /\ Hops \in [Reqs -> Seq([addr : Addrs, scheme : {"http", "https"}])]
  /\ \A r \in Reqs : Hops[r] # <<>>
  /\ Modes \subseteq {"do", "private", "service"}
  /\ AutoRetry \in BOOLEAN
  /\ MaxClears \in Nat /\ MaxConns \in Nat /\ MaxTrans \in Nat
  /\ None \notin Reqs

VARIABLES
  trans,    \* rt.cachedTransports
  cached,   \* rt.cachedConnections
  kind,     \* what each transport is
  drained,  \* the transport was told to keep no idle connection
  conn,     \* connections: state, hello, the transport that got it, hand-outs;
            \* a closed one is forgotten (NoConn)
  lock,     \* the request that holds rt.Mutex
  mutex,    \* the holder of each address mutex
  pc,       \* where each request is
  hop,      \* its current hop
  tr,       \* the local variable transport
  cn,       \* the connection it uses
  outcome,  \* how the request ended
  clears,   \* calls of clearAllConnections so far
  mode      \* who uses this client, for all its life

useVars   == <<clears, mode>>
cacheVars == <<trans, cached, kind, drained, conn>>
lockVars  == <<lock, mutex>>
reqVars   == <<pc, hop, tr, cn, outcome>>
vars == <<cacheVars, lockVars, reqVars, useVars>>

NoConn == [st |-> "none", hello |-> "none", owner |-> None, handed |-> 0]

Init ==
  /\ trans = [a \in Addrs |-> None]
  /\ cached = [a \in Addrs |-> None]
  /\ kind = [t \in Tids |-> "none"]
  /\ drained = [t \in Tids |-> FALSE]
  /\ conn = [i \in Cids |-> NoConn]
  /\ lock = None
  /\ mutex = [a \in Addrs |-> None]
  /\ pc = [r \in Reqs |-> "idle"]
  /\ hop = [r \in Reqs |-> 1]
  /\ tr = [r \in Reqs |-> None]
  /\ cn = [r \in Reqs |-> None]
  /\ outcome = [r \in Reqs |-> "none"]
  /\ clears = 0
  /\ mode \in Modes

\* getDialTLSAddr of the current hop.
Addr(r) == Hops[r][hop[r]].addr
Scheme(r) == Hops[r][hop[r]].scheme

Goto(r, l) == pc' = [pc EXCEPT ![r] = l]
Finish(r, o) == Goto(r, "finish") /\ outcome' = [outcome EXCEPT ![r] = o]

InUse(i) == \E r \in Reqs : cn[r] = i

\* An identifier nothing refers to can stand for a new object.
FreeConns == {i \in Cids : /\ conn[i].st # "open"
                           /\ ~InUse(i)
                           /\ \A a \in Addrs : cached[a] # i}
FreeTrans == {t \in Tids : /\ \A a \in Addrs : trans[a] # t
                           /\ \A r \in Reqs : tr[r] # t
                           /\ \A i \in Cids : conn[i].st = "open" => conn[i].owner # t}
NewConn(i) == i \in FreeConns /\ \A j \in FreeConns : i <= j
NewTrans(t) == t \in FreeTrans /\ \A u \in FreeTrans : t <= u

-----------------------------------------------------------------------------
(* RoundTrip and getTransport.                                             *)

\* Do / dispatcherAsync call client.Do; a client built outside the pool serves
\* one request.
Start(r) ==
  /\ pc[r] = "idle"
  /\ mode = "private" => \A s \in Reqs : pc[s] = "idle"
  /\ Goto(r, "lookup")
  /\ UNCHANGED <<cacheVars, lockVars, hop, tr, cn, outcome, useVars>>

\* `if _, ok := rt.cachedTransports[addr]; !ok`, without a lock.
Lookup(r) ==
  /\ pc[r] = "lookup"
  /\ Goto(r, IF trans[Addr(r)] # None THEN "use"
             ELSE IF Scheme(r) = "http" THEN "plain" ELSE "get")
  /\ UNCHANGED <<cacheVars, lockVars, hop, tr, cn, outcome, useVars>>

\* The http case of getTransport stores a plain transport, without a lock.
StorePlain(r) ==
  /\ pc[r] = "plain"
  /\ \E t \in Tids :
       /\ NewTrans(t)
       /\ trans' = [trans EXCEPT ![Addr(r)] = t]
       /\ kind' = [kind EXCEPT ![t] = "plain"]
       /\ drained' = [drained EXCEPT ![t] = FALSE]
  /\ Goto(r, "use")
  /\ UNCHANGED <<cached, conn, lockVars, hop, tr, cn, outcome, useVars>>

AddressLock(r) ==
  /\ pc[r] = "get"
  /\ mutex[Addr(r)] = None
  /\ mutex' = [mutex EXCEPT ![Addr(r)] = r]
  /\ Goto(r, "recheck")
  /\ UNCHANGED <<cacheVars, lock, hop, tr, cn, outcome, useVars>>

\* Mutation: no second test once the address mutex is held.
RecheckSkipped(r) ==
  /\ pc[r] = "recheck"
  /\ Goto(r, "dial")
  /\ UNCHANGED <<cacheVars, lockVars, hop, tr, cn, outcome, useVars>>

Recheck(r) ==
  /\ pc[r] = "recheck"
  /\ \/ /\ trans[Addr(r)] # None
        /\ mutex' = [mutex EXCEPT ![Addr(r)] = None]
        /\ Goto(r, "use")
     \/ /\ trans[Addr(r)] = None
        /\ Goto(r, "dial")
        /\ UNCHANGED mutex
  /\ UNCHANGED <<cacheVars, lock, hop, tr, cn, outcome, useVars>>

\* `transport := rt.cachedTransports[addr]`, read again without a lock; the
\* RoundTrip call on a nil interface panics.
Use(r) ==
  /\ pc[r] = "use"
  /\ \/ /\ trans[Addr(r)] # None
        /\ tr' = [tr EXCEPT ![r] = trans[Addr(r)]]
        /\ Goto(r, "roundtrip")
        /\ UNCHANGED outcome
     \/ /\ trans[Addr(r)] = None
        /\ Finish(r, "panic")
        /\ UNCHANGED tr
  /\ UNCHANGED <<cacheVars, lockVars, hop, cn, useVars>>

-----------------------------------------------------------------------------
(* The inner transport's RoundTrip.                                        *)

\* Open connections of the transport that the request may share or take.
Reusable(r) ==
  {i \in Cids : /\ conn[i].st = "open"
                /\ conn[i].owner = tr[r]
                /\ conn[i].hello = "raw" <=> Scheme(r) = "http"
                /\ kind[tr[r]] = "h2" \/ ~InUse(i)}

Reuse(r) ==
  /\ pc[r] = "roundtrip"
  /\ ~(kind[tr[r]] = "h2" /\ Scheme(r) = "http")
  /\ \E i \in Reusable(r) : cn' = [cn EXCEPT ![r] = i]
  /\ drained' = [drained EXCEPT ![tr[r]] = FALSE]
  /\ Goto(r, "exchange")
  /\ UNCHANGED <<trans, cached, kind, conn, lockVars, hop, tr, outcome, useVars>>

\* The dial callback of a TLS transport is dialTLS.
NeedDial(r) ==
  /\ pc[r] = "roundtrip"
  /\ Reusable(r) = {}
  /\ kind[tr[r]] \in {"h1", "h2"}
  /\ Scheme(r) = "https"
  /\ drained' = [drained EXCEPT ![tr[r]] = FALSE]
  /\ Goto(r, "dial")
  /\ UNCHANGED <<trans, cached, kind, conn, lockVars, hop, tr, cn, outcome, useVars>>

\* A plain transport dials by itself: a raw connection for http, the library's
\* own TLS hello for https; so does a TLS transport that is given an http URL.
PlainDial(r) ==
  /\ pc[r] = "roundtrip"
  /\ Reusable(r) = {}
  /\ kind[tr[r]] = "plain" \/ (kind[tr[r]] = "h1" /\ Scheme(r) = "http")
  /\ \E i \in Cids :
       /\ NewConn(i)
       /\ conn' = [conn EXCEPT ![i] = [st |-> "open", owner |-> tr[r], handed |-> 1,
                                       hello |-> IF Scheme(r) = "http" THEN "raw" ELSE "std"]]
       /\ cn' = [cn EXCEPT ![r] = i]
  /\ drained' = [drained EXCEPT ![tr[r]] = FALSE]
  /\ Goto(r, "exchange")
  /\ UNCHANGED <<trans, cached, kind, lockVars, hop, tr, outcome, useVars>>

\* An HTTP/2 transport refuses http URLs; a dial or the context may fail.
RoundTripFails(r) ==
  /\ pc[r] = "roundtrip"
  /\ Finish(r, "error")
  /\ UNCHANGED <<cacheVars, lockVars, hop, tr, cn, useVars>>

-----------------------------------------------------------------------------
(* dialTLS: by getTransport (no transport chosen yet: tr[r] = None) to     *)
(* learn the protocol, or by the transport tr[r] that needs a connection.  *)

Predial(r) == tr[r] = None

\* getTransport gives the address mutex back, whatever dialTLS returned.
LeavePredial(r) ==
  mutex' = IF Predial(r) THEN [mutex EXCEPT ![Addr(r)] = None] ELSE mutex

\* A connection that becomes idle stays open unless nothing may: HTTP/2 is the
\* one that ignores DisableKeepAlives and the drained mark.
Idle(t, c) ==
  IF kind[t] # "h2" /\ (mode = "private" \/ drained[t]) THEN NoConn ELSE c

\* dialTLS returns a connection.  getTransport drops it; a transport owns it,
\* also when its request gave up meanwhile (HTTP/2 requests wait for the dial).
Returned(r, i, c) ==
  LET got == [st |-> c.st, hello |-> c.hello, owner |-> tr[r], handed |-> c.handed + 1]
  IN \/ /\ Predial(r)
        /\ conn' = [conn EXCEPT ![i] = got]
        /\ Goto(r, "use")
        /\ UNCHANGED <<cn, outcome>>
     \/ /\ ~Predial(r)
        /\ conn' = [conn EXCEPT ![i] = got]
        /\ cn' = [cn EXCEPT ![r] = i]
        /\ Goto(r, "exchange")
        /\ UNCHANGED outcome
     \/ /\ ~Predial(r)
        /\ kind[tr[r]] = "h1"
        /\ conn' = [conn EXCEPT ![i] = Idle(tr[r], got)]
        /\ Finish(r, "error")
        /\ UNCHANGED cn

\* Dial, hello or handshake failed; a raw connection without a hello is left to
\* the garbage collector.
DialError(r) ==
  /\ Finish(r, "error")
  /\ LeavePredial(r)
  /\ lock' = None
  /\ UNCHANGED <<cacheVars, hop, tr, cn, useVars>>

\* Mutation: the cached connection is handed out and stays cached.
DialBeginKeeping(r) ==
  /\ pc[r] = "dial"
  /\ lock = None
  /\ \/ /\ cached[Addr(r)] # None
        /\ Returned(r, cached[Addr(r)], conn[cached[Addr(r)]])
        /\ LeavePredial(r)
        /\ UNCHANGED <<cached, lock>>
     \/ /\ cached[Addr(r)] = None
        /\ lock' = r
        /\ Goto(r, "dialing")
        /\ UNCHANGED <<cached, conn, cn, mutex, outcome>>
  /\ UNCHANGED <<trans, kind, drained, hop, tr, useVars>>

\* Under rt.Lock: the cached connection, if any, is handed out and forgotten.
DialBegin(r) ==
  /\ pc[r] = "dial"
  /\ lock = None
  /\ \/ /\ cached[Addr(r)] # None
        /\ Returned(r, cached[Addr(r)], conn[cached[Addr(r)]])
        /\ cached' = [cached EXCEPT ![Addr(r)] = None]
        /\ LeavePredial(r)
        /\ UNCHANGED lock
     \/ /\ cached[Addr(r)] = None
        /\ lock' = r
        /\ Goto(r, "dialing")
        /\ UNCHANGED <<cached, conn, cn, mutex, outcome>>
  /\ UNCHANGED <<trans, kind, drained, hop, tr, useVars>>

\* A connection fresh from a handshake with the configured fingerprint.
Shaken == [st |-> "open", hello |-> "ja3", owner |-> None, handed |-> 0]

\* Mutation: the connection is cached, the transport made for it is not.
CacheBothHalf(r, i) ==
  /\ conn' = [conn EXCEPT ![i] = Shaken]
  /\ cached' = [cached EXCEPT ![Addr(r)] = i]
  /\ IF Predial(r) THEN Goto(r, "use") /\ UNCHANGED outcome
                   ELSE Finish(r, "sentinel")
  /\ UNCHANGED <<trans, kind, drained, cn>>

\* The transport for the negotiated protocol and the connection are cached and
\* the sentinel errProtocolNegotiated is returned, which getTransport expects
\* and a transport passes on as an error.
CacheBoth(r, i) ==
  /\ \E t \in Tids :
       /\ NewTrans(t)
       /\ trans' = [trans EXCEPT ![Addr(r)] = t]
       /\ \E k \in {"h1", "h2"} : kind' = [kind EXCEPT ![t] = k]
       /\ drained' = [drained EXCEPT ![t] = FALSE]
  /\ conn' = [conn EXCEPT ![i] = Shaken]
  /\ cached' = [cached EXCEPT ![Addr(r)] = i]
  /\ IF Predial(r) THEN Goto(r, "use") /\ UNCHANGED outcome
                   ELSE Finish(r, "sentinel")
  /\ UNCHANGED cn

\* The handshake succeeded: with a transport in the cache the connection is
\* simply returned.
Negotiated(r) ==
  /\ \E i \in Cids :
       /\ NewConn(i)
       /\ \/ /\ trans[Addr(r)] # None
             /\ Returned(r, i, Shaken)
             /\ UNCHANGED <<trans, cached, kind, drained>>
          \/ /\ trans[Addr(r)] = None
             /\ CacheBoth(r, i)
  /\ LeavePredial(r)
  /\ lock' = None
  /\ UNCHANGED <<hop, tr, useVars>>

Handshake(r) == pc[r] = "dialing" /\ Negotiated(r)

HandshakeFails(r) ==
  /\ pc[r] = "dialing"
  /\ \/ DialError(r)
     \/ /\ AutoRetry
        /\ Goto(r, "retrying")
        /\ UNCHANGED <<cacheVars, lockVars, hop, tr, cn, outcome, useVars>>

\* Mutation: the retry dials through dialTLS again, whose lock it holds.
RetryLocked(r) ==
  /\ pc[r] = "retrying"
  /\ lock = None
  /\ Negotiated(r) \/ DialError(r)

\* retryWithTLS13CompatibleCurves / retryWithOriginalTLS12JA3.
Retry(r) ==
  /\ pc[r] = "retrying"
  /\ Negotiated(r) \/ DialError(r)

-----------------------------------------------------------------------------
(* The exchange, the next hop, and the end of the request.                 *)

\* Mutation: one hop is followed after the last.
RespondOnePast(r) ==
  /\ pc[r] = "exchange"
  /\ conn[cn[r]].st = "open"
  /\ conn' = [conn EXCEPT ![cn[r]] = Idle(tr[r], @)]
  /\ cn' = [cn EXCEPT ![r] = None]
  /\ tr' = [tr EXCEPT ![r] = None]
  /\ IF hop[r] <= Len(Hops[r])
       THEN Goto(r, "lookup") /\ hop' = [hop EXCEPT ![r] = @ + 1] /\ UNCHANGED outcome
       ELSE Finish(r, "ok") /\ UNCHANGED hop
  /\ UNCHANGED <<trans, cached, kind, drained, lockVars, useVars>>

\* The connection goes back to its transport; client.Do follows the redirect,
\* or Do / dispatcherAsync re-issue a request whose redirect had no Location.
Respond(r) ==
  /\ pc[r] = "exchange"
  /\ conn[cn[r]].st = "open"
  /\ conn' = [conn EXCEPT ![cn[r]] = Idle(tr[r], @)]
  /\ cn' = [cn EXCEPT ![r] = None]
  /\ tr' = [tr EXCEPT ![r] = None]
  /\ IF hop[r] < Len(Hops[r])
       THEN Goto(r, "lookup") /\ hop' = [hop EXCEPT ![r] = @ + 1] /\ UNCHANGED outcome
       ELSE Finish(r, "ok") /\ UNCHANGED hop
  /\ UNCHANGED <<trans, cached, kind, drained, lockVars, useVars>>

\* Timeout or reset: an HTTP/1 connection is closed, of an HTTP/2 connection
\* only the stream ends.
ExchangeFails(r) ==
  /\ pc[r] = "exchange"
  /\ conn' = [conn EXCEPT ![cn[r]] = IF kind[tr[r]] = "h2" THEN @ ELSE NoConn]
  /\ cn' = [cn EXCEPT ![r] = None]
  /\ Finish(r, "error")
  /\ UNCHANGED <<trans, cached, kind, drained, lockVars, hop, tr, useVars>>

\* The server closes a connection: its transport notices unless it is in use,
\* nobody does while it waits in the cache.
PeerCloses(i) ==
  /\ conn[i].st = "open"
  /\ conn' = [conn EXCEPT ![i] = IF InUse(i) \/ @.owner = None THEN [@ EXCEPT !.st = "dead"]
                                                             ELSE NoConn]
  /\ UNCHANGED <<trans, cached, kind, drained, lockVars, reqVars, useVars>>

\* Mutation: the raw connections are dropped without being closed.
CloseIdleConnectionsUnclosed(keep) ==
  LET evicted == {trans[a] : a \in Addrs \ keep} \ {None}
      idle(i) == conn[i].owner \in evicted /\ ~InUse(i)
  IN /\ lock = None
     /\ conn' = [i \in Cids |->
                   IF idle(i) THEN NoConn ELSE conn[i]]
     /\ drained' = [t \in Tids |-> drained[t] \/ t \in evicted]
     /\ trans' = [a \in Addrs |-> IF a \in keep THEN trans[a] ELSE None]
     /\ cached' = [a \in Addrs |-> IF a \in keep THEN cached[a] ELSE None]
     /\ UNCHANGED kind

\* Mutation: only the transports are evicted.
CloseIdleConnectionsHalf(keep) ==
  LET evicted == {trans[a] : a \in Addrs \ keep} \ {None}
      idle(i) == conn[i].owner \in evicted /\ ~InUse(i)
  IN /\ lock = None
     /\ conn' = [i \in Cids |->
                   IF idle(i) THEN NoConn ELSE conn[i]]
     /\ drained' = [t \in Tids |-> drained[t] \/ t \in evicted]
     /\ trans' = [a \in Addrs |-> IF a \in keep THEN trans[a] ELSE None]
     /\ UNCHANGED <<cached, kind>>

\* Every transport but the kept one closes what is idle and is forgotten, and
\* every cached connection but the kept one is closed.
CloseIdleConnections(keep) ==
  LET evicted == {trans[a] : a \in Addrs \ keep} \ {None}
      waiting == {cached[a] : a \in Addrs \ keep}
      idle(i) == conn[i].owner \in evicted /\ ~InUse(i)
  IN /\ lock = None
     /\ conn' = [i \in Cids |->
                   IF i \in waiting \/ idle(i) THEN NoConn ELSE conn[i]]
     /\ drained' = [t \in Tids |-> drained[t] \/ t \in evicted]
     /\ trans' = [a \in Addrs |-> IF a \in keep THEN trans[a] ELSE None]
     /\ cached' = [a \in Addrs |-> IF a \in keep THEN cached[a] ELSE None]
     /\ UNCHANGED kind

\* dispatcherAsync keeps host:443 for https URLs but host:80, which is no key
\* here, for http ones.
Kept(r) == IF Hops[r][1].scheme = "https" THEN {Hops[r][1].addr} ELSE {}

\* The deferred function of Do / dispatcherAsync, also after a panic.
End(r) ==
  /\ pc[r] = "finish"
  /\ CASE mode = "do"      -> UNCHANGED cacheVars
       [] mode = "private" -> CloseIdleConnections({})
       [] mode = "service" -> CloseIdleConnections(Kept(r))
  /\ tr' = [tr EXCEPT ![r] = None]
  /\ Goto(r, "ended")
  /\ UNCHANGED <<lockVars, hop, cn, outcome, useVars>>

\* clearAllConnections, from CycleTLS.Close, for the clients of the pool.
ClearAll ==
  /\ mode # "private"
  /\ clears < MaxClears
  /\ CloseIdleConnections({})
  /\ clears' = clears + 1
  /\ UNCHANGED <<lockVars, reqVars, mode>>

-----------------------------------------------------------------------------
Progress(r) ==
  \/ Lookup(r) \/ StorePlain(r) \/ AddressLock(r) \/ Recheck(r) \/ Use(r)
  \/ Reuse(r) \/ NeedDial(r) \/ PlainDial(r) \/ RoundTripFails(r)
  \/ DialBegin(r) \/ Handshake(r) \/ HandshakeFails(r) \/ Retry(r)
  \/ Respond(r) \/ ExchangeFails(r) \/ End(r)

Next ==
  \/ \E r \in Reqs : Start(r) \/ Progress(r)
  \/ \E i \in Cids : PeerCloses(i)
  \/ ClearAll

Spec == Init /\ [][Next]_vars

\* Goroutines are scheduled and every dial, handshake and exchange ends (the
\* request's context has a deadline).  Weak fairness is enough for the mutexes:
\* finitely many requests take them finitely often.
Fairness == \A r \in Reqs : WF_vars(Progress(r))

FairSpec == Spec /\ Fairness

-----------------------------------------------------------------------------
TypeOK ==
  /\ trans \in [Addrs -> Tids \cup {None}]
  /\ cached \in [Addrs -> Cids \cup {None}]
  /\ kind \in [Tids -> {"none", "plain", "h1", "h2"}]
  /\ drained \in [Tids -> BOOLEAN]
  /\ conn \in [Cids -> [st : {"none", "open", "dead"},
                        hello : {"none", "raw", "std", "ja3"},
                        owner : Tids \cup {None}, handed : Nat]]
  /\ lock \in Reqs \cup {None}
  /\ mutex \in [Addrs -> Reqs \cup {None}]
  /\ pc \in [Reqs -> {"idle", "lookup", "plain", "get", "recheck", "use", "roundtrip",
                      "dial", "dialing", "retrying", "exchange", "finish", "ended"}]
  /\ hop \in [Reqs -> Nat] /\ \A r \in Reqs : hop[r] \in 1..Len(Hops[r])
  /\ tr \in [Reqs -> Tids \cup {None}]
  /\ cn \in [Reqs -> Cids \cup {None}]
  /\ outcome \in [Reqs -> {"none", "ok", "error", "sentinel", "panic"}]
  /\ clears \in 0..MaxClears
  /\ mode \in Modes

(* "Hand a cached connection to the transport exactly once": no connection *)
(* comes out of dialTLS twice, and what waits in the cache has not come    *)
(* out yet, in whatever order requests, redials, server closes and         *)
(* CloseIdleConnections happen.                                            *)
HandedOverOnce ==
  /\ \A i \in Cids : conn[i].handed <= 1
  /\ \A a \in Addrs : cached[a] # None => conn[cached[a]].handed = 0

(* A pre-dialled connection waits only beside the transport it was         *)
(* negotiated for: evicting and creating always treat them together.       *)
CachedHasTransport ==
  \A a \in Addrs : cached[a] # None => trans[a] # None /\ kind[trans[a]] # "none"

(* CloseIdleConnections, run by one request as it ends, never closes the   *)
(* connection another request is using.                                    *)
InUseStaysOpen ==
  \A r \in Reqs : pc[r] = "exchange" => conn[cn[r]].st \in {"open", "dead"}

(* No connection is lost: an open one waits in the cache, is in use, or    *)
(* belongs to a transport that is cached, where it can be reused or        *)
(* closed.                                                                 *)
NoLostConnection ==
  \A i \in Cids : conn[i].st = "open" =>
    \E a \in Addrs : cached[a] = i \/ (trans[a] # None /\ conn[i].owner = trans[a])

(* The transport is there when RoundTrip reads it again, and the internal  *)
(* errProtocolNegotiated never reaches a caller.                           *)
CleanOutcome ==
  \A r \in Reqs : outcome[r] \notin {"panic", "sentinel"}

(* With enable_connection_reuse=False a request "closes it when the        *)
(* response completes": whatever hops, retries and failures it went        *)
(* through, no connection stays open behind it.                            *)
PrivateLeavesNothing ==
  mode = "private" /\ (\A r \in Reqs : pc[r] \in {"idle", "ended"})
    => \A i \in Cids : conn[i].st # "open"

(* Every request ends: the address mutex and the lock over dialling are    *)
(* taken in one order and given back on every path, the retries included.  *)
EveryRequestEnds == \A r \in Reqs : (pc[r] = "lookup") ~> (pc[r] = "ended")
=============================================================================
