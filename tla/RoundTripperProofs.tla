------------------------- MODULE RoundTripperProofs -------------------------
(***************************************************************************)
(* Proofs about RoundTripper for any requests, hosts, redirect chains,     *)
(* modes of use and bounds: pre-dialled connections are handed over once   *)
(* and only beside their transport, and no connection in use is closed by  *)
(* CloseIdleConnections or by another request.                             *)
(***************************************************************************)
EXTENDS RoundTripper, TLAPS

(* What waits in the cache: one connection per address, never handed out,  *)
(* beside a transport; what has an owner has been handed out.              *)
Caches ==
  /\ \A a, b \in Addrs : a # b /\ cached[a] # None => cached[a] # cached[b]
  /\ \A a \in Addrs : cached[a] # None => conn[cached[a]].st # "none"
  /\ \A a \in Addrs : trans[a] # None => kind[trans[a]] # "none"
  /\ \A i \in Cids : conn[i].owner # None => conn[i].handed = 1

(* Who uses a connection: it belongs to the user's transport, and only an  *)
(* HTTP/2 connection has several users.                                    *)
Users ==
  /\ \A r \in Reqs : pc[r] = "roundtrip" => tr[r] # None
  /\ \A r \in Reqs : cn[r] # None <=> pc[r] = "exchange"
  /\ \A r \in Reqs : cn[r] # None => /\ tr[r] # None
                                     /\ conn[cn[r]].owner = tr[r]
  /\ \A r, s \in Reqs : r # s /\ cn[r] # None /\ cn[r] = cn[s] => kind[tr[r]] = "h2"

(* The inductive invariant.                                                *)
TripInv ==
  TypeOK /\ Caches /\ Users /\ HandedOverOnce /\ CachedHasTransport /\ InUseStaysOpen

(* A new roundTripper satisfies the invariant.                             *)
LEMMA InitTrip == Init => TripInv
<1> SUFFICES ASSUME Init PROVE TripInv
  OBVIOUS
<1>1. TypeOK
  BY RoundTripperAssumption DEF Init, TypeOK, NoConn, None
<1>2. Caches /\ Users /\ HandedOverOnce /\ CachedHasTransport /\ InUseStaysOpen
  BY DEF Init, Caches, Users, HandedOverOnce, CachedHasTransport, InUseStaysOpen, NoConn, None
<1> QED BY <1>1, <1>2 DEF TripInv

-----------------------------------------------------------------------------
(* Every hop of a request has an address and a scheme.                     *)
LEMMA AddrType ==
  ASSUME TypeOK, NEW r \in Reqs
  PROVE  Addr(r) \in Addrs /\ Scheme(r) \in {"http", "https"}
<1> DEFINE Target == [addr : Addrs, scheme : {"http", "https"}]
<1>1. Hops \in [Reqs -> Seq(Target)]
  BY RoundTripperAssumption
<1>2. hop[r] \in 1..Len(Hops[r])
  BY DEF TypeOK
<1>3. Hops[r][hop[r]] \in Target
  <2> HIDE DEF Target
  <2> QED BY <1>1, <1>2
<1> QED BY <1>3 DEF Addr, Scheme

(* What waits in the cache is used by nobody.                              *)
LEMMA CachedNotUsed ==
  ASSUME TripInv, NEW a \in Addrs, cached[a] # None, NEW s \in Reqs
  PROVE  cached[a] \in Cids /\ cn[s] # cached[a]
<1>1. cached[a] \in Cids /\ conn[cached[a]].handed = 0
  BY DEF TripInv, TypeOK, HandedOverOnce
<1>2. cn[s] # None => conn[cn[s]].handed = 1
  BY DEF TripInv, TypeOK, Users, Caches
<1> QED BY <1>1, <1>2

(* A step of one request keeps the facts about users if it leaves the      *)
(* others' connections alone and its own new connection is its own.        *)
LEMMA UsersStep ==
  ASSUME TypeOK, Users, InUseStaysOpen, NEW r \in Reqs,
         \A s \in Reqs \ {r} : cn'[s] = cn[s] /\ pc'[s] = pc[s] /\ tr'[s] = tr[s],
         \A s \in Reqs \ {r} : cn[s] # None =>
            /\ conn'[cn[s]].owner = tr[s]
            /\ conn'[cn[s]].st \in {"open", "dead"}
            /\ kind'[tr[s]] = kind[tr[s]],
         pc'[r] = "roundtrip" => tr'[r] # None,
         cn'[r] # None <=> pc'[r] = "exchange",
         cn'[r] # None => /\ tr'[r] # None
                          /\ conn'[cn'[r]].owner = tr'[r]
                          /\ conn'[cn'[r]].st \in {"open", "dead"},
         \A s \in Reqs \ {r} : cn'[r] # None /\ cn[s] = cn'[r] => kind'[tr'[r]] = "h2"
  PROVE  Users' /\ InUseStaysOpen'
<1>1. \A q \in Reqs : /\ pc'[q] = "roundtrip" => tr'[q] # None
                      /\ cn'[q] # None <=> pc'[q] = "exchange"
                      /\ cn'[q] # None => /\ tr'[q] # None
                                          /\ conn'[cn'[q]].owner = tr'[q]
                                          /\ conn'[cn'[q]].st \in {"open", "dead"}
  BY DEF Users, InUseStaysOpen
<1>2. ASSUME NEW p \in Reqs, NEW q \in Reqs, p # q, cn'[p] # None, cn'[p] = cn'[q]
      PROVE  kind'[tr'[p]] = "h2"
  <2>1. CASE p = r
    BY <1>2, <2>1
  <2>2. CASE q = r
    <3>1. tr'[p] = tr'[q]
      BY <1>1, <1>2
    <3>2. cn[p] = cn'[r] /\ cn'[r] # None
      BY <1>2, <2>2
    <3> QED BY <1>2, <2>2, <3>1, <3>2
  <2>3. CASE p # r /\ q # r
    <3>1. cn[p] # None /\ cn[p] = cn[q] /\ tr'[p] = tr[p] /\ kind'[tr[p]] = kind[tr[p]]
      BY <1>2, <2>3
    <3>2. kind[tr[p]] = "h2"
      BY <1>2, <3>1 DEF Users
    <3> QED BY <3>1, <3>2
  <2> QED BY <2>1, <2>2, <2>3
<1> QED BY <1>1, <1>2 DEF Users, InUseStaysOpen

(* Steps that touch neither caches nor connections.                        *)
LEMMA LookupTrip ==
  ASSUME TripInv, NEW r \in Reqs,
         Start(r) \/ Lookup(r) \/ AddressLock(r) \/ Recheck(r) \/ Use(r) \/ RoundTripFails(r)
  PROVE  TripInv'
<1> USE DEF TripInv, useVars
<1>1. TypeOK'
  <2>1. CASE Start(r) \/ Lookup(r)
    BY <2>1 DEF TypeOK, Start, Lookup, Goto, cacheVars, lockVars
  <2>2. CASE AddressLock(r)
    <3>1. mutex' \in [Addrs -> Reqs \cup {None}]
      BY <2>2 DEF TypeOK, AddressLock
    <3> QED BY <2>2, <3>1 DEF TypeOK, AddressLock, Goto, cacheVars
  <2>5. CASE Recheck(r)
    BY <2>5 DEF TypeOK, Recheck, Goto, cacheVars, lockVars
  <2>3. CASE Use(r)
    <3>1. trans[Addr(r)] \in Tids \cup {None}
      BY AddrType DEF TypeOK
    <3>2. tr' \in [Reqs -> Tids \cup {None}]
      BY <2>3, <3>1 DEF TypeOK, Use
    <3>3. UNCHANGED <<trans, cached, kind, drained, conn, lock, mutex, hop, cn, clears, mode>>
      BY <2>3 DEF Use, cacheVars, lockVars
    <3>4. /\ pc' = [pc EXCEPT ![r] = "roundtrip"] \/ pc' = [pc EXCEPT ![r] = "finish"]
          /\ outcome' = outcome \/ outcome' = [outcome EXCEPT ![r] = "panic"]
      BY <2>3 DEF Use, Goto, Finish
    <3>5. /\ pc' \in [Reqs -> {"idle", "lookup", "plain", "get", "recheck", "use", "roundtrip",
                             "dial", "dialing", "retrying", "exchange", "finish", "ended"}]
          /\ outcome' \in [Reqs -> {"none", "ok", "error", "sentinel", "panic"}]
      BY <3>4 DEF TypeOK
    <3> QED BY <3>2, <3>3, <3>5 DEF TypeOK
  <2>4. CASE RoundTripFails(r)
    BY <2>4 DEF TypeOK, RoundTripFails, Goto, Finish, cacheVars, lockVars
  <2> QED BY <2>1, <2>2, <2>3, <2>4, <2>5
<1>2. Caches' /\ HandedOverOnce' /\ CachedHasTransport'
  BY DEF Caches, HandedOverOnce, CachedHasTransport, Start, Lookup, AddressLock, Recheck, Use,
         RoundTripFails, cacheVars
<1>3. Users' /\ InUseStaysOpen'
  <2>1. UNCHANGED <<cn, conn, kind>> /\ pc[r] # "exchange" /\ pc'[r] # "exchange"
    BY DEF TypeOK, Start, Lookup, AddressLock, Recheck, Use, RoundTripFails, Goto, Finish, cacheVars
  <2>2. pc'[r] = "roundtrip" => tr'[r] # None
    BY DEF TypeOK, Start, Lookup, AddressLock, Recheck, Use, RoundTripFails, Goto, Finish
  <2>3. \A s \in Reqs \ {r} : pc'[s] = pc[s] /\ tr'[s] = tr[s]
    BY DEF TypeOK, Start, Lookup, AddressLock, Recheck, Use, RoundTripFails, Goto, Finish
  <2>4. \A s \in Reqs \ {r} : cn[s] # None =>
            /\ conn'[cn[s]].owner = tr[s]
            /\ conn'[cn[s]].st \in {"open", "dead"}
            /\ kind'[tr[s]] = kind[tr[s]]
    BY <2>1 DEF Users, InUseStaysOpen
  <2>5. cn'[r] = None
    BY <2>1 DEF Users
  <2> QED BY <2>1, <2>2, <2>3, <2>4, <2>5, UsersStep
<1> QED BY <1>1, <1>2, <1>3

(* The inner transport takes a connection of its own, or asks for one.     *)
LEMMA ReuseTrip ==
  ASSUME TripInv, NEW r \in Reqs, Reuse(r)
  PROVE  TripInv'
<1> USE DEF TripInv, useVars
<1>1. PICK i \in Reusable(r) : cn' = [cn EXCEPT ![r] = i]
  BY DEF Reuse
<1>2. i \in Cids /\ conn[i].st = "open" /\ conn[i].owner = tr[r] /\ (kind[tr[r]] = "h2" \/ ~InUse(i))
  BY <1>1 DEF Reusable
<1>3. UNCHANGED <<trans, cached, kind, conn, lock, mutex, hop, tr, outcome, clears, mode>>
  BY DEF Reuse, lockVars
<1>4. pc' = [pc EXCEPT ![r] = "exchange"] /\ tr[r] # None
  BY DEF Reuse, Goto, Users
<1>5. TypeOK'
  BY <1>1, <1>2, <1>3, <1>4 DEF TypeOK, Reuse
<1>6. Caches' /\ HandedOverOnce' /\ CachedHasTransport'
  BY <1>3 DEF Caches, HandedOverOnce, CachedHasTransport
<1>7. Users' /\ InUseStaysOpen'
  <2>1. \A s \in Reqs \ {r} : cn'[s] = cn[s] /\ pc'[s] = pc[s] /\ tr'[s] = tr[s]
    BY <1>1, <1>3, <1>4 DEF TypeOK
  <2>2. \A s \in Reqs \ {r} : cn[s] # None =>
            /\ conn'[cn[s]].owner = tr[s]
            /\ conn'[cn[s]].st \in {"open", "dead"}
            /\ kind'[tr[s]] = kind[tr[s]]
    BY <1>3 DEF Users, InUseStaysOpen
  <2>3. pc'[r] = "exchange" /\ cn'[r] = i /\ cn'[r] # None /\ tr'[r] = tr[r]
    BY <1>1, <1>2, <1>3, <1>4 DEF TypeOK, Cids, None
  <2>4. \A s \in Reqs \ {r} : cn'[r] # None /\ cn[s] = cn'[r] => kind'[tr'[r]] = "h2"
    BY <1>2, <1>3, <2>3 DEF InUse
  <2> QED BY <1>2, <1>3, <1>4, <2>1, <2>2, <2>3, <2>4, UsersStep
<1> QED BY <1>5, <1>6, <1>7

(* The transport has no connection to reuse and calls dialTLS.             *)
LEMMA NeedDialTrip ==
  ASSUME TripInv, NEW r \in Reqs, NeedDial(r)
  PROVE  TripInv'
<1> USE DEF TripInv, useVars
<1>1. /\ UNCHANGED <<trans, cached, kind, conn, lock, mutex, hop, tr, cn, outcome, clears, mode>>
      /\ pc' = [pc EXCEPT ![r] = "dial"] /\ pc[r] = "roundtrip"
      /\ drained' = [drained EXCEPT ![tr[r]] = FALSE]
  BY DEF NeedDial, Goto, lockVars
<1>2. TypeOK'
  BY <1>1 DEF TypeOK
<1>3. Caches' /\ HandedOverOnce' /\ CachedHasTransport'
  BY <1>1 DEF Caches, HandedOverOnce, CachedHasTransport
<1>4. \A s \in Reqs : pc[s] = "exchange" <=> pc'[s] = "exchange"
  BY <1>1 DEF TypeOK
<1>5. \A s \in Reqs : pc'[s] = "roundtrip" => pc[s] = "roundtrip"
  BY <1>1 DEF TypeOK
<1>6. Users' /\ InUseStaysOpen'
  BY <1>1, <1>4, <1>5 DEF Users, InUseStaysOpen
<1> QED BY <1>2, <1>3, <1>6

(* A new connection for a request leaves every other one alone.            *)
LEMMA FreshConn ==
  ASSUME TripInv, NEW i \in Cids, NewConn(i)
  PROVE  /\ \A a \in Addrs : cached[a] # i
         /\ \A s \in Reqs : cn[s] # i
BY DEF NewConn, FreeConns, InUse

(* The transport dials by itself.                                          *)
LEMMA PlainDialTrip ==
  ASSUME TripInv, NEW r \in Reqs, PlainDial(r)
  PROVE  TripInv'
<1> USE DEF TripInv, useVars
<1>1. PICK i \in Cids :
        /\ NewConn(i)
        /\ conn' = [conn EXCEPT ![i] = [st |-> "open", owner |-> tr[r], handed |-> 1,
                                        hello |-> IF Scheme(r) = "http" THEN "raw" ELSE "std"]]
        /\ cn' = [cn EXCEPT ![r] = i]
  BY DEF PlainDial
<1>2. (\A a \in Addrs : cached[a] # i) /\ (\A s \in Reqs : cn[s] # i)
  BY <1>1, FreshConn
<1>3. /\ UNCHANGED <<trans, cached, kind, lock, mutex, hop, tr, outcome, clears, mode>>
      /\ pc' = [pc EXCEPT ![r] = "exchange"] /\ tr[r] # None
      /\ drained' = [drained EXCEPT ![tr[r]] = FALSE]
  BY DEF PlainDial, Goto, Users, lockVars
<1>4. TypeOK'
  BY <1>1, <1>3 DEF TypeOK
<1>5. Caches' /\ HandedOverOnce' /\ CachedHasTransport'
  BY <1>1, <1>2, <1>3 DEF TypeOK, Caches, HandedOverOnce, CachedHasTransport
<1>6. Users' /\ InUseStaysOpen'
  <2>1. \A s \in Reqs \ {r} : cn'[s] = cn[s] /\ pc'[s] = pc[s] /\ tr'[s] = tr[s]
    BY <1>1, <1>3 DEF TypeOK
  <2>2. \A s \in Reqs \ {r} : cn[s] # None =>
            /\ conn'[cn[s]].owner = tr[s]
            /\ conn'[cn[s]].st \in {"open", "dead"}
            /\ kind'[tr[s]] = kind[tr[s]]
    BY <1>1, <1>2, <1>3 DEF TypeOK, Users, InUseStaysOpen
  <2>3. pc'[r] = "exchange" /\ cn'[r] = i /\ cn'[r] # None /\ tr'[r] = tr[r]
        /\ conn'[i].owner = tr[r] /\ conn'[i].st = "open"
    BY <1>1, <1>3 DEF TypeOK, Cids, None
  <2> QED BY <1>2, <1>3, <2>1, <2>2, <2>3, UsersStep
<1> QED BY <1>4, <1>5, <1>6

(* A new transport is nobody's yet.                                        *)
LEMMA FreshTrans ==
  ASSUME TripInv, NEW t \in Tids, NewTrans(t)
  PROVE  /\ \A s \in Reqs : tr[s] # t
         /\ \A k : \A s \in Reqs : [kind EXCEPT ![t] = k][tr[s]] = kind[tr[s]] \/ tr[s] = None
         /\ t # None
BY DEF NewTrans, FreeTrans, TripInv, TypeOK, Tids, None

(* The http case of getTransport.                                          *)
LEMMA StorePlainTrip ==
  ASSUME TripInv, NEW r \in Reqs, StorePlain(r)
  PROVE  TripInv'
<1> USE DEF TripInv, useVars
<1>1. PICK t \in Tids : /\ NewTrans(t)
                        /\ trans' = [trans EXCEPT ![Addr(r)] = t]
                        /\ kind' = [kind EXCEPT ![t] = "plain"]
                        /\ drained' = [drained EXCEPT ![t] = FALSE]
  BY DEF StorePlain
<1>2. /\ UNCHANGED <<cached, conn, lock, mutex, hop, tr, cn, outcome, clears, mode>>
      /\ pc' = [pc EXCEPT ![r] = "use"] /\ pc[r] = "plain"
  BY DEF StorePlain, Goto, lockVars
<1>3. t # None /\ \A s \in Reqs : tr[s] # None => kind'[tr[s]] = kind[tr[s]]
  BY <1>1, FreshTrans
<1>4. TypeOK'
  BY <1>1, <1>2, AddrType DEF TypeOK
<1>5. \A a \in Addrs : trans'[a] # None => kind'[trans'[a]] # "none"
  BY <1>1, AddrType DEF TypeOK, Caches
<1>6. Caches' /\ HandedOverOnce'
  BY <1>2, <1>5 DEF Caches, HandedOverOnce
<1>7. \A a \in Addrs : trans[a] # None => trans'[a] # None
  BY <1>1, <1>3, AddrType DEF TypeOK
<1>8. CachedHasTransport'
  BY <1>2, <1>5, <1>7 DEF CachedHasTransport
<1>9. \A s \in Reqs : /\ pc[s] = "exchange" <=> pc'[s] = "exchange"
                      /\ pc'[s] = "roundtrip" => pc[s] = "roundtrip"
  BY <1>2 DEF TypeOK
<1>10. Users' /\ InUseStaysOpen'
  BY <1>2, <1>3, <1>9 DEF Users, InUseStaysOpen
<1> QED BY <1>4, <1>6, <1>8, <1>10

-----------------------------------------------------------------------------
(* The address mutex stays a mutex of requests.                            *)
LEMMA MutexType ==
  ASSUME TypeOK, NEW r \in Reqs, LeavePredial(r)
  PROVE  mutex' \in [Addrs -> Reqs \cup {None}]
BY AddrType DEF TypeOK, LeavePredial

(* dialTLS, the retries included, returns an error.                        *)
LEMMA DialErrorTrip ==
  ASSUME TripInv, NEW r \in Reqs, pc[r] \in {"dialing", "retrying"}, DialError(r)
  PROVE  TripInv'
<1> USE DEF TripInv, useVars
<1>1. /\ UNCHANGED <<trans, cached, kind, drained, conn, hop, tr, cn, clears, mode>>
      /\ pc' = [pc EXCEPT ![r] = "finish"] /\ outcome' = [outcome EXCEPT ![r] = "error"]
      /\ lock' = None
  BY DEF DialError, Finish, Goto, cacheVars
<1>2. TypeOK'
  BY <1>1, MutexType DEF TypeOK, DialError
<1>3. Caches' /\ HandedOverOnce' /\ CachedHasTransport'
  BY <1>1 DEF Caches, HandedOverOnce, CachedHasTransport
<1>4. \A s \in Reqs : /\ pc[s] = "exchange" <=> pc'[s] = "exchange"
                      /\ pc'[s] = "roundtrip" => pc[s] = "roundtrip"
  BY <1>1 DEF TypeOK
<1>5. Users' /\ InUseStaysOpen'
  BY <1>1, <1>4 DEF Users, InUseStaysOpen
<1> QED BY <1>2, <1>3, <1>5

(* dialTLS returns a connection that was handed to nobody before, is used  *)
(* by nobody, and is not in the cache any more.                            *)
LEMMA ReturnedTrip ==
  ASSUME TripInv, NEW r \in Reqs, pc[r] \in {"dial", "dialing", "retrying"},
         NEW i \in Cids, NEW c,
         c \in [st : {"open", "dead"}, hello : {"none", "raw", "std", "ja3"},
                owner : {None}, handed : {0}],
         \A s \in Reqs : cn[s] # i,
         Returned(r, i, c),
         cached' \in [Addrs -> Cids \cup {None}],
         \A a \in Addrs : cached'[a] # i /\ cached'[a] \in {cached[a], None},
         UNCHANGED <<trans, kind, drained, hop, tr, clears, mode>>,
         lock' = None,
         mutex' \in [Addrs -> Reqs \cup {None}]
  PROVE  TripInv'
<1> DEFINE got == [st |-> c.st, hello |-> c.hello, owner |-> tr[r], handed |-> c.handed + 1]
<1> USE DEF TripInv, useVars
<1>1. /\ got \in [st : {"open", "dead"}, hello : {"none", "raw", "std", "ja3"},
                  owner : Tids \cup {None}, handed : {1}]
      /\ got.owner = tr[r]
  <2>1. tr[r] \in Tids \cup {None} /\ c.st \in {"open", "dead"} /\ c.handed = 0
        /\ c.hello \in {"none", "raw", "std", "ja3"}
    BY DEF TypeOK
  <2> QED BY <2>1
<1> HIDE DEF got
<1>2. PICK d \in {got, NoConn} : conn' = [conn EXCEPT ![i] = d]
  BY DEF Returned, Idle, got
<1>3. d.handed <= 1 /\ (d.owner # None => d.handed = 1)
  BY <1>1, <1>2 DEF NoConn
<1>4. d \in [st : {"none", "open", "dead"}, hello : {"none", "raw", "std", "ja3"},
             owner : Tids \cup {None}, handed : Nat]
  BY <1>1, <1>2 DEF NoConn, None
<1>5. \/ /\ pc' = [pc EXCEPT ![r] = "use"] /\ UNCHANGED <<cn, outcome>>
      \/ /\ pc' = [pc EXCEPT ![r] = "exchange"] /\ cn' = [cn EXCEPT ![r] = i]
         /\ d = got /\ tr[r] # None /\ UNCHANGED outcome
      \/ /\ pc' = [pc EXCEPT ![r] = "finish"] /\ outcome' = [outcome EXCEPT ![r] = "error"]
         /\ UNCHANGED cn
  <2>1. [conn EXCEPT ![i] = d][i] = d /\ [conn EXCEPT ![i] = got][i] = got
    BY DEF TypeOK
  <2> QED BY <1>2, <2>1 DEF Returned, Goto, Finish, Predial, got
<1>6. TypeOK'
  <2>1. conn' \in [Cids -> [st : {"none", "open", "dead"}, hello : {"none", "raw", "std", "ja3"},
                            owner : Tids \cup {None}, handed : Nat]]
    BY <1>2, <1>4 DEF TypeOK
  <2> DEFINE PC == {"idle", "lookup", "plain", "get", "recheck", "use", "roundtrip",
                    "dial", "dialing", "retrying", "exchange", "finish", "ended"}
             Out == {"none", "ok", "error", "sentinel", "panic"}
  <2>2. {"use", "exchange", "finish"} \subseteq PC /\ "error" \in Out
    OBVIOUS
  <2>3. pc \in [Reqs -> PC] /\ cn \in [Reqs -> Cids \cup {None}] /\ outcome \in [Reqs -> Out]
    BY DEF TypeOK
  <2>4. pc' \in [Reqs -> PC] /\ cn' \in [Reqs -> Cids \cup {None}] /\ outcome' \in [Reqs -> Out]
    <3> HIDE DEF PC, Out
    <3> QED BY <1>5, <2>2, <2>3
  <2> QED BY <2>1, <2>4 DEF TypeOK
<1>7. Caches' /\ HandedOverOnce' /\ CachedHasTransport'
  BY <1>2, <1>3 DEF TypeOK, Caches, HandedOverOnce, CachedHasTransport
<1>8. \A s \in Reqs \ {r} : cn'[s] = cn[s] /\ pc'[s] = pc[s] /\ tr'[s] = tr[s]
  BY <1>5 DEF TypeOK
<1>9. \A s \in Reqs \ {r} : cn[s] # None =>
            /\ conn'[cn[s]].owner = tr[s]
            /\ conn'[cn[s]].st \in {"open", "dead"}
            /\ kind'[tr[s]] = kind[tr[s]]
  BY <1>2 DEF TypeOK, Users, InUseStaysOpen
<1>10. cn[r] = None
  BY DEF Users
<1>11. pc'[r] # "roundtrip" /\ (cn'[r] # None <=> pc'[r] = "exchange")
       /\ (cn'[r] # None => cn'[r] = i /\ tr'[r] # None /\ conn'[i] = got)
  BY <1>2, <1>5, <1>10 DEF TypeOK, Cids, None
<1>12. Users' /\ InUseStaysOpen'
  BY <1>1, <1>8, <1>9, <1>11, UsersStep
<1> QED BY <1>6, <1>7, <1>12

(* The start of dialTLS: the cached connection is handed out, or the lock  *)
(* is kept for the dial.                                                   *)
LEMMA DialBeginTrip ==
  ASSUME TripInv, NEW r \in Reqs, DialBegin(r)
  PROVE  TripInv'
<1> DEFINE a == Addr(r)
           i == cached[a]
<1> USE DEF TripInv, useVars
<1>0. a \in Addrs
  BY AddrType
<1>1. CASE cached[Addr(r)] # None
  <2>1. /\ Returned(r, i, conn[i])
        /\ cached' = [cached EXCEPT ![a] = None]
        /\ lock' = None
        /\ UNCHANGED <<trans, kind, drained, hop, tr, clears, mode>>
        /\ pc[r] = "dial"
    BY <1>1 DEF DialBegin
  <2>2. mutex' \in [Addrs -> Reqs \cup {None}]
    BY <1>1, MutexType DEF DialBegin
  <2>3. i \in Cids /\ \A s \in Reqs : cn[s] # i
    BY <1>0, <1>1, CachedNotUsed
  <2>4. conn[i] \in [st : {"open", "dead"}, hello : {"none", "raw", "std", "ja3"},
                     owner : {None}, handed : {0}]
    <3>1. conn[i].st # "none" /\ conn[i].handed = 0 /\ conn[i].owner = None
      BY <1>0, <1>1, <2>3 DEF Caches, HandedOverOnce
    <3>2. conn[i] \in [st : {"none", "open", "dead"}, hello : {"none", "raw", "std", "ja3"},
                       owner : Tids \cup {None}, handed : Nat]
      BY <2>3 DEF TypeOK
    <3> HIDE DEF i
    <3> QED BY <3>1, <3>2
  <2>5. /\ cached' \in [Addrs -> Cids \cup {None}]
        /\ \A b \in Addrs : cached'[b] # i /\ cached'[b] \in {cached[b], None}
    BY <1>0, <1>1, <2>1 DEF TypeOK, Caches
  <2> HIDE DEF i, a
  <2> QED BY <2>1, <2>2, <2>3, <2>4, <2>5, ReturnedTrip
<1>2. CASE cached[Addr(r)] = None
  <2>1. /\ UNCHANGED <<trans, cached, kind, drained, conn, mutex, hop, tr, cn, outcome, clears, mode>>
        /\ pc' = [pc EXCEPT ![r] = "dialing"] /\ pc[r] = "dial" /\ lock' = r
    BY <1>2 DEF DialBegin, Goto
  <2>2. TypeOK'
    BY <2>1 DEF TypeOK
  <2>3. Caches' /\ HandedOverOnce' /\ CachedHasTransport'
    BY <2>1 DEF Caches, HandedOverOnce, CachedHasTransport
  <2>4. \A s \in Reqs : /\ pc[s] = "exchange" <=> pc'[s] = "exchange"
                        /\ pc'[s] = "roundtrip" => pc[s] = "roundtrip"
    BY <2>1 DEF TypeOK
  <2>5. Users' /\ InUseStaysOpen'
    BY <2>1, <2>4 DEF Users, InUseStaysOpen
  <2> QED BY <2>2, <2>3, <2>5
<1> QED BY <1>1, <1>2

(* The handshake succeeded and transport and connection are cached.        *)
LEMMA CacheBothTrip ==
  ASSUME TripInv, NEW r \in Reqs, pc[r] \in {"dialing", "retrying"},
         NEW i \in Cids, NewConn(i), trans[Addr(r)] = None, CacheBoth(r, i),
         UNCHANGED <<hop, tr, clears, mode>>,
         lock' = None,
         mutex' \in [Addrs -> Reqs \cup {None}]
  PROVE  TripInv'
<1> DEFINE a == Addr(r)
<1> USE DEF TripInv, useVars
<1>0. a \in Addrs
  BY AddrType
<1>1. PICK t \in Tids, k \in {"h1", "h2"} :
        /\ NewTrans(t)
        /\ trans' = [trans EXCEPT ![a] = t]
        /\ kind' = [kind EXCEPT ![t] = k]
        /\ drained' = [drained EXCEPT ![t] = FALSE]
  BY DEF CacheBoth
<1>2. /\ conn' = [conn EXCEPT ![i] = Shaken]
      /\ cached' = [cached EXCEPT ![a] = i]
      /\ UNCHANGED cn
      /\ \/ pc' = [pc EXCEPT ![r] = "use"] /\ UNCHANGED outcome
         \/ pc' = [pc EXCEPT ![r] = "finish"] /\ outcome' = [outcome EXCEPT ![r] = "sentinel"]
  BY DEF CacheBoth, Goto, Finish
<1> HIDE DEF a
<1>3. t # None /\ \A s \in Reqs : tr[s] # None => kind'[tr[s]] = kind[tr[s]]
  BY <1>1, FreshTrans
<1>4. (\A b \in Addrs : cached[b] # i) /\ (\A s \in Reqs : cn[s] # i)
  BY FreshConn
<1>5. Shaken \in [st : {"none", "open", "dead"}, hello : {"none", "raw", "std", "ja3"},
                  owner : Tids \cup {None}, handed : Nat]
  BY DEF Shaken
<1>6. TypeOK'
  <2>1. trans' \in [Addrs -> Tids \cup {None}] /\ cached' \in [Addrs -> Cids \cup {None}]
    BY <1>0, <1>1, <1>2 DEF TypeOK
  <2>2. kind' \in [Tids -> {"none", "plain", "h1", "h2"}] /\ drained' \in [Tids -> BOOLEAN]
    BY <1>1 DEF TypeOK
  <2>3. conn' \in [Cids -> [st : {"none", "open", "dead"}, hello : {"none", "raw", "std", "ja3"},
                            owner : Tids \cup {None}, handed : Nat]]
    BY <1>2, <1>5 DEF TypeOK
  <2>4. /\ pc' \in [Reqs -> {"idle", "lookup", "plain", "get", "recheck", "use", "roundtrip",
                             "dial", "dialing", "retrying", "exchange", "finish", "ended"}]
        /\ outcome' \in [Reqs -> {"none", "ok", "error", "sentinel", "panic"}]
    BY <1>2 DEF TypeOK
  <2> QED BY <1>2, <2>1, <2>2, <2>3, <2>4 DEF TypeOK
<1>7. \A b \in Addrs : trans'[b] # None => kind'[trans'[b]] # "none"
  BY <1>0, <1>1 DEF TypeOK, Caches
<1>8. Caches' /\ HandedOverOnce'
  <2>1. \A b \in Addrs : cached'[b] # None =>
          conn'[cached'[b]].handed = 0 /\ conn'[cached'[b]].st # "none"
    BY <1>0, <1>2, <1>4 DEF TypeOK, Caches, HandedOverOnce, Shaken
  <2>2. \A j \in Cids : conn'[j].handed <= 1 /\ (conn'[j].owner # None => conn'[j].handed = 1)
    BY <1>2 DEF TypeOK, Caches, HandedOverOnce, Shaken
  <2>3. \A b, c \in Addrs : b # c /\ cached'[b] # None => cached'[b] # cached'[c]
    BY <1>0, <1>2, <1>4 DEF TypeOK, Caches
  <2> QED BY <1>7, <2>1, <2>2, <2>3 DEF Caches, HandedOverOnce
<1>9. \A b \in Addrs : cached'[b] # None => trans'[b] # None
  BY <1>0, <1>1, <1>2, <1>3 DEF TypeOK, CachedHasTransport
<1>10. CachedHasTransport'
  BY <1>7, <1>9 DEF CachedHasTransport
<1>11. \A s \in Reqs : /\ pc[s] = "exchange" <=> pc'[s] = "exchange"
                       /\ pc'[s] = "roundtrip" => pc[s] = "roundtrip"
  BY <1>2 DEF TypeOK
<1>12. \A s \in Reqs : cn[s] # None => conn'[cn[s]] = conn[cn[s]]
  BY <1>2, <1>4 DEF TypeOK
<1>13. Users' /\ InUseStaysOpen'
  BY <1>2, <1>3, <1>11, <1>12 DEF Users, InUseStaysOpen
<1> QED BY <1>6, <1>8, <1>10, <1>13

(* The end of dialTLS, of the first attempt or of a retry.                 *)
LEMMA NegotiatedTrip ==
  ASSUME TripInv, NEW r \in Reqs, pc[r] \in {"dialing", "retrying"}, Negotiated(r)
  PROVE  TripInv'
<1>1. PICK i \in Cids :
        /\ NewConn(i)
        /\ \/ /\ trans[Addr(r)] # None
              /\ Returned(r, i, Shaken)
              /\ UNCHANGED <<trans, cached, kind, drained>>
           \/ /\ trans[Addr(r)] = None
              /\ CacheBoth(r, i)
  BY DEF Negotiated
<1>2. lock' = None /\ UNCHANGED <<hop, tr, clears, mode>>
  BY DEF Negotiated, useVars
<1>3. mutex' \in [Addrs -> Reqs \cup {None}]
  BY MutexType DEF Negotiated, TripInv
<1>4. CASE trans[Addr(r)] # None
  <2>1. (\A b \in Addrs : cached[b] # i) /\ (\A s \in Reqs : cn[s] # i)
    BY <1>1, FreshConn
  <2>2. Shaken \in [st : {"open", "dead"}, hello : {"none", "raw", "std", "ja3"},
                    owner : {None}, handed : {0}]
    BY DEF Shaken
  <2>3. cached' \in [Addrs -> Cids \cup {None}]
    BY <1>1, <1>4 DEF TripInv, TypeOK
  <2>4. \A b \in Addrs : cached'[b] # i /\ cached'[b] \in {cached[b], None}
    BY <1>1, <1>4, <2>1
  <2> QED BY <1>1, <1>2, <1>3, <1>4, <2>1, <2>2, <2>3, <2>4, ReturnedTrip
<1>5. CASE trans[Addr(r)] = None
  BY <1>1, <1>2, <1>3, <1>5, CacheBothTrip
<1> QED BY <1>4, <1>5

(* A failed handshake ends the dial or leads to the retry.                 *)
LEMMA HandshakeFailsTrip ==
  ASSUME TripInv, NEW r \in Reqs, HandshakeFails(r)
  PROVE  TripInv'
<1> USE DEF TripInv, useVars
<1>1. CASE DialError(r)
  BY <1>1, DialErrorTrip DEF HandshakeFails
<1>2. CASE /\ pc' = [pc EXCEPT ![r] = "retrying"] /\ pc[r] = "dialing"
           /\ UNCHANGED <<cacheVars, lockVars, hop, tr, cn, outcome, clears, mode>>
  <2>1. TypeOK'
    BY <1>2 DEF TypeOK, cacheVars, lockVars
  <2>2. Caches' /\ HandedOverOnce' /\ CachedHasTransport'
    BY <1>2 DEF Caches, HandedOverOnce, CachedHasTransport, cacheVars
  <2>3. \A s \in Reqs : /\ pc[s] = "exchange" <=> pc'[s] = "exchange"
                        /\ pc'[s] = "roundtrip" => pc[s] = "roundtrip"
    BY <1>2 DEF TypeOK
  <2>4. Users' /\ InUseStaysOpen'
    BY <1>2, <2>3 DEF Users, InUseStaysOpen, cacheVars
  <2> QED BY <2>1, <2>2, <2>4
<1> QED BY <1>1, <1>2 DEF HandshakeFails, Goto

-----------------------------------------------------------------------------
(* A request gives its connection back: nobody else used it, or it stays.  *)
LEMMA ReleasedTrip ==
  ASSUME TripInv, NEW r \in Reqs, pc[r] = "exchange", NEW d,
         d = conn[cn[r]] \/ (d = NoConn /\ kind[tr[r]] # "h2"),
         conn' = [conn EXCEPT ![cn[r]] = d],
         cn' = [cn EXCEPT ![r] = None],
         NEW l \in {"lookup", "finish"}, pc' = [pc EXCEPT ![r] = l],
         \A s \in Reqs \ {r} : tr'[s] = tr[s],
         UNCHANGED <<trans, cached, kind>>
  PROVE  /\ conn' \in [Cids -> [st : {"none", "open", "dead"},
                                hello : {"none", "raw", "std", "ja3"},
                                owner : Tids \cup {None}, handed : Nat]]
         /\ Caches' /\ Users' /\ HandedOverOnce' /\ CachedHasTransport' /\ InUseStaysOpen'
<1> USE DEF TripInv, useVars
<1>1. cn[r] \in Cids /\ cn[r] # None
  BY DEF Users, TypeOK
<1>2. d \in [st : {"none", "open", "dead"}, hello : {"none", "raw", "std", "ja3"},
             owner : Tids \cup {None}, handed : Nat]
  BY <1>1 DEF TypeOK, NoConn, None
<1>3. conn' \in [Cids -> [st : {"none", "open", "dead"}, hello : {"none", "raw", "std", "ja3"},
                          owner : Tids \cup {None}, handed : Nat]]
  BY <1>1, <1>2 DEF TypeOK
<1>4. d.handed <= 1 /\ (d.owner # None => d.handed = 1)
  BY <1>1 DEF Caches, HandedOverOnce, NoConn
<1>5. \A a \in Addrs : cached[a] # None => cached[a] \in Cids /\ cached[a] # cn[r]
  BY CachedNotUsed
<1>6. \A j \in Cids : j # cn[r] => conn'[j] = conn[j]
  BY DEF TypeOK
<1>7. Caches' /\ HandedOverOnce' /\ CachedHasTransport'
  <2>1. \A j \in Cids : conn'[j].handed <= 1 /\ (conn'[j].owner # None => conn'[j].handed = 1)
    BY <1>1, <1>4, <1>6 DEF TypeOK, Caches, HandedOverOnce
  <2>2. \A a \in Addrs : cached[a] # None => conn'[cached[a]] = conn[cached[a]]
    BY <1>5, <1>6
  <2> QED BY <2>1, <2>2 DEF Caches, HandedOverOnce, CachedHasTransport
<1>8. \A s \in Reqs \ {r} : cn[s] # None => conn'[cn[s]] = conn[cn[s]]
  <2> SUFFICES ASSUME NEW s \in Reqs \ {r}, cn[s] # None
               PROVE  conn'[cn[s]] = conn[cn[s]]
    OBVIOUS
  <2>1. CASE cn[s] = cn[r]
    <3>1. kind[tr[r]] = "h2"
      BY <1>1, <2>1 DEF Users
    <3> QED BY <1>1, <2>1, <3>1 DEF TypeOK
  <2>2. CASE cn[s] # cn[r]
    BY <1>6, <2>2 DEF TypeOK
  <2> QED BY <2>1, <2>2
<1>9. \A s \in Reqs \ {r} : cn'[s] = cn[s] /\ pc'[s] = pc[s] /\ tr'[s] = tr[s]
  BY DEF TypeOK
<1>10. \A s \in Reqs \ {r} : cn[s] # None =>
            /\ conn'[cn[s]].owner = tr[s]
            /\ conn'[cn[s]].st \in {"open", "dead"}
            /\ kind'[tr[s]] = kind[tr[s]]
  BY <1>8 DEF Users, InUseStaysOpen
<1>11. cn'[r] = None /\ pc'[r] \notin {"exchange", "roundtrip"}
  BY DEF TypeOK
<1>12. Users' /\ InUseStaysOpen'
  BY <1>9, <1>10, <1>11, UsersStep
<1> QED BY <1>3, <1>7, <1>12

(* The response is read: next hop or end.                                  *)
LEMMA RespondTrip ==
  ASSUME TripInv, NEW r \in Reqs, Respond(r)
  PROVE  TripInv'
<1> DEFINE d == Idle(tr[r], conn[cn[r]])
<1>1. d = conn[cn[r]] \/ (d = NoConn /\ kind[tr[r]] # "h2")
  BY DEF Idle
<1>2. /\ pc[r] = "exchange" /\ conn' = [conn EXCEPT ![cn[r]] = d]
      /\ cn' = [cn EXCEPT ![r] = None] /\ tr' = [tr EXCEPT ![r] = None]
      /\ UNCHANGED <<trans, cached, kind, drained, lock, mutex, clears, mode>>
  BY DEF Respond, lockVars, useVars
<1>3. PICK l \in {"lookup", "finish"} : pc' = [pc EXCEPT ![r] = l]
  BY DEF Respond, Goto, Finish
<1>4. \A s \in Reqs \ {r} : tr'[s] = tr[s]
  BY <1>2 DEF TripInv, TypeOK
<1> HIDE DEF d
<1>5. /\ conn' \in [Cids -> [st : {"none", "open", "dead"},
                             hello : {"none", "raw", "std", "ja3"},
                             owner : Tids \cup {None}, handed : Nat]]
      /\ Caches' /\ Users' /\ HandedOverOnce' /\ CachedHasTransport' /\ InUseStaysOpen'
  BY <1>1, <1>2, <1>3, <1>4, ReleasedTrip
<1>6. TypeOK'
  <2>1. hop' \in [Reqs -> Nat] /\ \A s \in Reqs : hop'[s] \in 1..Len(Hops[s])
    <3>1. Len(Hops[r]) \in Nat
      BY RoundTripperAssumption
    <3>2. \/ hop' = hop
          \/ hop[r] < Len(Hops[r]) /\ hop' = [hop EXCEPT ![r] = @ + 1]
      BY DEF Respond
    <3>3. hop \in [Reqs -> Nat] /\ \A s \in Reqs : hop[s] \in 1..Len(Hops[s])
      BY DEF TripInv, TypeOK
    <3>4. CASE hop[r] < Len(Hops[r]) /\ hop' = [hop EXCEPT ![r] = @ + 1]
      <4>1. hop'[r] = hop[r] + 1 /\ \A s \in Reqs \ {r} : hop'[s] = hop[s]
        BY <3>3, <3>4
      <4>2. hop'[r] \in 1..Len(Hops[r])
        BY <3>1, <3>3, <3>4, <4>1
      <4>3. hop' \in [Reqs -> Nat]
        BY <3>3, <3>4
      <4> QED BY <3>3, <4>1, <4>2, <4>3
    <3> QED BY <3>2, <3>3, <3>4
  <2>2. outcome' \in [Reqs -> {"none", "ok", "error", "sentinel", "panic"}]
    BY DEF Respond, Finish, TripInv, TypeOK
  <2>3. /\ cn' \in [Reqs -> Cids \cup {None}] /\ tr' \in [Reqs -> Tids \cup {None}]
        /\ pc' \in [Reqs -> {"idle", "lookup", "plain", "get", "recheck", "use", "roundtrip",
                             "dial", "dialing", "retrying", "exchange", "finish", "ended"}]
    BY <1>2, <1>3 DEF TripInv, TypeOK
  <2> QED BY <1>2, <1>5, <2>1, <2>2, <2>3 DEF TripInv, TypeOK
<1> QED BY <1>5, <1>6 DEF TripInv

(* The exchange fails.                                                     *)
LEMMA ExchangeFailsTrip ==
  ASSUME TripInv, NEW r \in Reqs, ExchangeFails(r)
  PROVE  TripInv'
<1> DEFINE d == IF kind[tr[r]] = "h2" THEN conn[cn[r]] ELSE NoConn
<1>1. d = conn[cn[r]] \/ (d = NoConn /\ kind[tr[r]] # "h2")
  OBVIOUS
<1>2. /\ pc[r] = "exchange" /\ conn' = [conn EXCEPT ![cn[r]] = d]
      /\ cn' = [cn EXCEPT ![r] = None] /\ pc' = [pc EXCEPT ![r] = "finish"]
      /\ outcome' = [outcome EXCEPT ![r] = "error"]
      /\ UNCHANGED <<trans, cached, kind, drained, lock, mutex, hop, tr, clears, mode>>
  BY DEF ExchangeFails, Finish, Goto, lockVars, useVars
<1> HIDE DEF d
<1>3. /\ conn' \in [Cids -> [st : {"none", "open", "dead"},
                             hello : {"none", "raw", "std", "ja3"},
                             owner : Tids \cup {None}, handed : Nat]]
      /\ Caches' /\ Users' /\ HandedOverOnce' /\ CachedHasTransport' /\ InUseStaysOpen'
  BY <1>1, <1>2, ReleasedTrip
<1>4. TypeOK'
  BY <1>2, <1>3 DEF TripInv, TypeOK
<1> QED BY <1>3, <1>4 DEF TripInv

(* The server closes a connection: one in use or in the cache stays, dead. *)
LEMMA PeerClosesTrip ==
  ASSUME TripInv, NEW i \in Cids, PeerCloses(i)
  PROVE  TripInv'
<1> USE DEF TripInv, useVars
<1> DEFINE d == IF InUse(i) \/ conn[i].owner = None THEN [conn[i] EXCEPT !.st = "dead"] ELSE NoConn
<1>1. conn' = [conn EXCEPT ![i] = d]
  BY DEF PeerCloses
<1>2. UNCHANGED <<trans, cached, kind, drained, lock, mutex, pc, hop, tr, cn, outcome, clears, mode>>
  BY DEF PeerCloses, lockVars, reqVars
<1>3. /\ d \in [st : {"none", "open", "dead"}, hello : {"none", "raw", "std", "ja3"},
                owner : Tids \cup {None}, handed : Nat]
      /\ d.handed <= 1 /\ (d.owner # None => d.handed = 1)
  <2>1. conn[i] \in [st : {"none", "open", "dead"}, hello : {"none", "raw", "std", "ja3"},
                     owner : Tids \cup {None}, handed : Nat]
    BY DEF TypeOK
  <2>2. conn[i].handed <= 1 /\ (conn[i].owner # None => conn[i].handed = 1)
    BY DEF Caches, HandedOverOnce
  <2>3. CASE d = NoConn
    <3> HIDE DEF d
    <3> QED BY <2>3 DEF NoConn, None
  <2>4. CASE d = [conn[i] EXCEPT !.st = "dead"]
    <3> HIDE DEF d
    <3> QED BY <2>1, <2>2, <2>4
  <2> QED BY <2>3, <2>4
<1>4. conn[i].owner = None => d.st = "dead" /\ d.handed = conn[i].handed
  BY DEF TypeOK
<1>5. InUse(i) => d.st = "dead" /\ d.owner = conn[i].owner
  BY DEF TypeOK
<1> HIDE DEF d
<1>6. TypeOK'
  BY <1>1, <1>2, <1>3 DEF TypeOK
<1>7. \A a \in Addrs : cached[a] # None => conn[cached[a]].owner = None
  BY DEF TypeOK, Caches, HandedOverOnce
<1>8. Caches' /\ HandedOverOnce' /\ CachedHasTransport'
  BY <1>1, <1>2, <1>3, <1>4, <1>7 DEF TypeOK, Caches, HandedOverOnce, CachedHasTransport
<1>9. \A s \in Reqs : cn[s] # None => /\ conn'[cn[s]].owner = conn[cn[s]].owner
                                      /\ conn'[cn[s]].st \in {"dead", conn[cn[s]].st}
  BY <1>1, <1>5 DEF TypeOK, InUse
<1>10. Users' /\ InUseStaysOpen'
  BY <1>2, <1>9 DEF Users, InUseStaysOpen
<1> QED BY <1>6, <1>8, <1>10

(* Evicting and closing: what is in use is not idle and does not wait, and *)
(* a kept connection is not one of those closed.                           *)
LEMMA CloseIdleTrip ==
  ASSUME TripInv, NEW keep, CloseIdleConnections(keep)
  PROVE  /\ trans' \in [Addrs -> Tids \cup {None}]
         /\ cached' \in [Addrs -> Cids \cup {None}]
         /\ drained' \in [Tids -> BOOLEAN]
         /\ conn' \in [Cids -> [st : {"none", "open", "dead"},
                                hello : {"none", "raw", "std", "ja3"},
                                owner : Tids \cup {None}, handed : Nat]]
         /\ kind' = kind
         /\ Caches' /\ HandedOverOnce' /\ CachedHasTransport'
         /\ \A s \in Reqs : cn[s] # None => conn'[cn[s]] = conn[cn[s]]
<1> USE DEF TripInv, useVars
<1> DEFINE evicted == {trans[a] : a \in Addrs \ keep} \ {None}
           waiting == {cached[a] : a \in Addrs \ keep}
           idle(i) == conn[i].owner \in evicted /\ ~InUse(i)
<1>1. /\ conn' = [i \in Cids |-> IF i \in waiting \/ idle(i) THEN NoConn ELSE conn[i]]
      /\ drained' = [t \in Tids |-> drained[t] \/ t \in evicted]
      /\ trans' = [a \in Addrs |-> IF a \in keep THEN trans[a] ELSE None]
      /\ cached' = [a \in Addrs |-> IF a \in keep THEN cached[a] ELSE None]
      /\ kind' = kind
  BY DEF CloseIdleConnections
<1>2. /\ trans' \in [Addrs -> Tids \cup {None}] /\ cached' \in [Addrs -> Cids \cup {None}]
      /\ drained' \in [Tids -> BOOLEAN]
  BY <1>1 DEF TypeOK
<1>3. \A i \in Cids : conn'[i] \in {conn[i], NoConn}
  BY <1>1
<1>4. NoConn \in [st : {"none", "open", "dead"}, hello : {"none", "raw", "std", "ja3"},
                  owner : Tids \cup {None}, handed : Nat]
  BY DEF NoConn
<1>5. conn' \in [Cids -> [st : {"none", "open", "dead"}, hello : {"none", "raw", "std", "ja3"},
                          owner : Tids \cup {None}, handed : Nat]]
  BY <1>1, <1>3, <1>4 DEF TypeOK
<1>6. \A s \in Reqs : cn[s] # None => conn'[cn[s]] = conn[cn[s]]
  <2> SUFFICES ASSUME NEW s \in Reqs, cn[s] # None PROVE conn'[cn[s]] = conn[cn[s]]
    OBVIOUS
  <2>1. cn[s] \in Cids /\ InUse(cn[s])
    BY DEF TypeOK, InUse
  <2>2. cn[s] \notin waiting
    BY CachedNotUsed
  <2> QED BY <1>1, <2>1, <2>2
<1>7. \A a \in Addrs : cached'[a] # None => /\ a \in keep /\ cached'[a] = cached[a]
                                            /\ trans'[a] = trans[a]
                                            /\ conn'[cached[a]] = conn[cached[a]]
  <2> SUFFICES ASSUME NEW a \in Addrs, cached'[a] # None
               PROVE  /\ a \in keep /\ cached'[a] = cached[a]
                      /\ trans'[a] = trans[a] /\ conn'[cached[a]] = conn[cached[a]]
    OBVIOUS
  <2>1. a \in keep /\ cached'[a] = cached[a] /\ trans'[a] = trans[a]
    BY <1>1
  <2>2. cached[a] \in Cids
    BY <2>1 DEF TypeOK
  <2>3. cached[a] \notin waiting
    BY <2>1 DEF Caches
  <2>4. conn[cached[a]].owner = None
    BY <2>1, <2>2 DEF Caches, HandedOverOnce
  <2> QED BY <1>1, <2>1, <2>2, <2>3, <2>4
<1>8. \A a \in Addrs : trans'[a] # None => trans'[a] = trans[a]
  BY <1>1
<1> HIDE DEF evicted, waiting, idle
<1>9. Caches' /\ HandedOverOnce' /\ CachedHasTransport'
  <2>1. \A i \in Cids : conn'[i].handed <= 1 /\ (conn'[i].owner # None => conn'[i].handed = 1)
    BY <1>3 DEF Caches, HandedOverOnce, NoConn
  <2>2. \A a \in Addrs : cached'[a] # None => /\ conn'[cached'[a]].st # "none"
                                              /\ conn'[cached'[a]].handed = 0
    BY <1>7 DEF Caches, HandedOverOnce
  <2>3. \A a, b \in Addrs : a # b /\ cached'[a] # None => cached'[a] # cached'[b]
    BY <1>7 DEF Caches
  <2>4. \A a \in Addrs : trans'[a] # None => kind'[trans'[a]] # "none"
    BY <1>1, <1>8 DEF Caches
  <2>5. CachedHasTransport'
    BY <1>1, <1>7 DEF CachedHasTransport
  <2> QED BY <2>1, <2>2, <2>3, <2>4, <2>5 DEF Caches, HandedOverOnce
<1> QED BY <1>1, <1>2, <1>5, <1>6, <1>9

(* The end of a request, in each mode of use.                              *)
LEMMA EndTrip ==
  ASSUME TripInv, NEW r \in Reqs, End(r)
  PROVE  TripInv'
<1> USE DEF TripInv, useVars
<1>1. /\ trans' \in [Addrs -> Tids \cup {None}]
      /\ cached' \in [Addrs -> Cids \cup {None}]
      /\ drained' \in [Tids -> BOOLEAN]
      /\ conn' \in [Cids -> [st : {"none", "open", "dead"},
                             hello : {"none", "raw", "std", "ja3"},
                             owner : Tids \cup {None}, handed : Nat]]
      /\ kind' = kind
      /\ Caches' /\ HandedOverOnce' /\ CachedHasTransport'
      /\ \A s \in Reqs : cn[s] # None => conn'[cn[s]] = conn[cn[s]]
  <2>1. CASE UNCHANGED cacheVars
    BY <2>1 DEF TypeOK, Caches, HandedOverOnce, CachedHasTransport, cacheVars
  <2>2. CASE CloseIdleConnections({})
    BY <2>2, CloseIdleTrip
  <2>3. CASE CloseIdleConnections(Kept(r))
    BY <2>3, CloseIdleTrip
  <2>4. mode \in {"do", "private", "service"}
    BY RoundTripperAssumption DEF TypeOK
  <2> QED BY <2>1, <2>2, <2>3, <2>4 DEF End
<1>2. /\ pc[r] = "finish" /\ pc' = [pc EXCEPT ![r] = "ended"]
      /\ tr' = [tr EXCEPT ![r] = None]
      /\ UNCHANGED <<lock, mutex, hop, cn, outcome, clears, mode>>
  BY DEF End, Goto, lockVars
<1>3. TypeOK'
  BY <1>1, <1>2 DEF TypeOK
<1>4. cn[r] = None
  BY <1>2 DEF Users
<1>5. \A s \in Reqs \ {r} : cn'[s] = cn[s] /\ pc'[s] = pc[s] /\ tr'[s] = tr[s]
  BY <1>2 DEF TypeOK
<1>6. \A s \in Reqs \ {r} : cn[s] # None =>
            /\ conn'[cn[s]].owner = tr[s]
            /\ conn'[cn[s]].st \in {"open", "dead"}
            /\ kind'[tr[s]] = kind[tr[s]]
  BY <1>1 DEF Users, InUseStaysOpen
<1>7. cn'[r] = None /\ pc'[r] = "ended"
  BY <1>2, <1>4 DEF TypeOK
<1>8. Users' /\ InUseStaysOpen'
  BY <1>5, <1>6, <1>7, UsersStep
<1> QED BY <1>1, <1>3, <1>8

(* clearAllConnections at any moment.                                      *)
LEMMA ClearAllTrip ==
  ASSUME TripInv, ClearAll
  PROVE  TripInv'
<1> USE DEF TripInv, useVars
<1>1. /\ CloseIdleConnections({}) /\ clears < MaxClears /\ clears' = clears + 1
      /\ UNCHANGED <<lock, mutex, pc, hop, tr, cn, outcome, mode>>
  BY DEF ClearAll, lockVars, reqVars
<1>2. /\ trans' \in [Addrs -> Tids \cup {None}]
      /\ cached' \in [Addrs -> Cids \cup {None}]
      /\ drained' \in [Tids -> BOOLEAN]
      /\ conn' \in [Cids -> [st : {"none", "open", "dead"},
                             hello : {"none", "raw", "std", "ja3"},
                             owner : Tids \cup {None}, handed : Nat]]
      /\ kind' = kind
      /\ Caches' /\ HandedOverOnce' /\ CachedHasTransport'
      /\ \A s \in Reqs : cn[s] # None => conn'[cn[s]] = conn[cn[s]]
  BY <1>1, CloseIdleTrip
<1>3. clears' \in 0..MaxClears
  BY <1>1, RoundTripperAssumption DEF TypeOK
<1>4. TypeOK'
  BY <1>1, <1>2, <1>3 DEF TypeOK
<1>5. Users' /\ InUseStaysOpen'
  BY <1>1, <1>2 DEF Users, InUseStaysOpen
<1> QED BY <1>2, <1>4, <1>5

(* Every step preserves the invariant.                                     *)
LEMMA StepTrip == TripInv /\ [Next]_vars => TripInv'
<1> SUFFICES ASSUME TripInv, [Next]_vars PROVE TripInv'
  OBVIOUS
<1>1. ASSUME NEW r \in Reqs, Start(r) \/ Progress(r)
      PROVE  TripInv'
  <2>1. CASE Start(r) \/ Lookup(r) \/ AddressLock(r) \/ Recheck(r) \/ Use(r) \/ RoundTripFails(r)
    BY <2>1, LookupTrip
  <2>2. CASE StorePlain(r)
    BY <2>2, StorePlainTrip
  <2>3. CASE Reuse(r)
    BY <2>3, ReuseTrip
  <2>4. CASE NeedDial(r)
    BY <2>4, NeedDialTrip
  <2>5. CASE PlainDial(r)
    BY <2>5, PlainDialTrip
  <2>6. CASE DialBegin(r)
    BY <2>6, DialBeginTrip
  <2>7. CASE Handshake(r)
    BY <2>7, NegotiatedTrip DEF Handshake
  <2>8. CASE HandshakeFails(r)
    BY <2>8, HandshakeFailsTrip
  <2>9. CASE Retry(r)
    BY <2>9, NegotiatedTrip, DialErrorTrip DEF Retry
  <2>10. CASE Respond(r)
    BY <2>10, RespondTrip
  <2>11. CASE ExchangeFails(r)
    BY <2>11, ExchangeFailsTrip
  <2>12. CASE End(r)
    BY <2>12, EndTrip
  <2> QED BY <1>1, <2>1, <2>2, <2>3, <2>4, <2>5, <2>6, <2>7, <2>8, <2>9, <2>10, <2>11, <2>12
          DEF Progress
<1>2. ASSUME NEW i \in Cids, PeerCloses(i) PROVE TripInv'
  BY <1>2, PeerClosesTrip
<1>3. CASE ClearAll
  BY <1>3, ClearAllTrip
<1>4. CASE UNCHANGED vars
  BY <1>4 DEF TripInv, TypeOK, Caches, Users, HandedOverOnce, CachedHasTransport, InUseStaysOpen,
              vars, cacheVars, lockVars, reqVars, useVars
<1> QED BY <1>1, <1>2, <1>3, <1>4 DEF Next

-----------------------------------------------------------------------------
(* The caches and the users of connections stay consistent in every state, *)
(* for any requests, redirect chains, mode of use and bounds.              *)
THEOREM TripInvariance == Spec => []TripInv
<1>1. Init => TripInv
  BY InitTrip
<1>2. TripInv /\ [Next]_vars => TripInv'
  BY StepTrip
<1> QED BY <1>1, <1>2, PTL DEF Spec

(* The state of the roundTripper keeps its shape.                          *)
THEOREM TypeCorrect == Spec => []TypeOK
<1>1. TripInv => TypeOK
  BY DEF TripInv
<1> QED BY <1>1, TripInvariance, PTL

(* "Hand a cached connection to the transport exactly once": dialTLS never *)
(* gives one connection to two callers.                                    *)
THEOREM OneHandOver == Spec => []HandedOverOnce
<1>1. TripInv => HandedOverOnce
  BY DEF TripInv
<1> QED BY <1>1, TripInvariance, PTL

(* A pre-dialled connection always waits beside its transport.             *)
THEOREM NeverWaitsAlone == Spec => []CachedHasTransport
<1>1. TripInv => CachedHasTransport
  BY DEF TripInv
<1> QED BY <1>1, TripInvariance, PTL

(* CloseIdleConnections, in whichever request or in clearAllConnections it *)
(* runs, closes no connection that some request is using; neither does a   *)
(* request that ends or fails.                                             *)
THEOREM UseIsSafe == Spec => []InUseStaysOpen
<1>1. TripInv => InUseStaysOpen
  BY DEF TripInv
<1> QED BY <1>1, TripInvariance, PTL
-----------------------------------------------------------------------------
(***************************************************************************)
(* A client that is never cleared under its requests: Do with reuse, https *)
(* URLs and no clearAllConnections, or a private client.  (Otherwise the   *)
(* lookups without a lock can be overtaken by an eviction.)                *)
(***************************************************************************)
OnlyHttps == \A r \in Reqs : \A n \in 1..Len(Hops[r]) : Hops[r][n].scheme = "https"

Calm == (mode = "do" /\ MaxClears = 0 /\ OnlyHttps) \/ mode = "private"

\* getTransport is in dialTLS to learn the protocol.
Learning(r) == pc[r] \in {"dial", "dialing", "retrying"} /\ Predial(r)

(* What a request knows of the cache: the transport it chose is the cached *)
(* one, one it was promised is there, and the holder of the address mutex  *)
(* is the only one who may store one.                                      *)
Sees(r) ==
  /\ tr[r] # None => tr[r] = trans[Addr(r)]
  /\ pc[r] \in {"idle", "lookup", "plain", "get", "recheck", "use", "ended"} => tr[r] = None
  /\ pc[r] = "use" => trans[Addr(r)] # None
  /\ pc[r] = "recheck" \/ Learning(r) => mutex[Addr(r)] = r
  /\ Learning(r) => trans[Addr(r)] = None
  /\ pc[r] = "plain" => mode = "private" /\ trans[Addr(r)] = None
  /\ outcome[r] \notin {"panic", "sentinel"}

\* A client built outside the pool serves one request.
OneUser == mode = "private" => \A r, s \in Reqs : pc[r] # "idle" /\ pc[s] # "idle" => r = s

CalmInv ==
  Calm => (\A r \in Reqs : Sees(r)) /\ OneUser /\ NoLostConnection /\ PrivateLeavesNothing

(* A request keeps seeing the cache truly through a step of another one    *)
(* that takes or gives back only mutexes of its own, and stores a          *)
(* transport only under such a mutex.                                      *)
LEMMA OthersSee ==
  ASSUME TripInv, NEW r \in Reqs, NEW s \in Reqs \ {r}, Sees(s),
         mode = "private" => pc[s] = "idle",
         pc'[s] = pc[s], tr'[s] = tr[s], hop'[s] = hop[s], outcome'[s] = outcome[s],
         mode' = mode,
         \A a \in Addrs : mutex'[a] = mutex[a] \/ mutex[a] \in {None, r},
         \A a \in Addrs : \/ trans'[a] = trans[a]
                          \/ mode = "private"
                          \/ (trans[a] = None /\ mutex[a] = r)
  PROVE  Sees(s)'
<1>1. Addr(s) \in Addrs
  BY AddrType DEF TripInv
<1>2. Addr(s)' = Addr(s) /\ (Learning(s)' <=> Learning(s))
  BY DEF Addr, Predial, Learning
<1>3. s # None /\ s # r
  BY RoundTripperAssumption
<1>4. CASE pc[s] = "idle"
  BY <1>4 DEF Sees, Learning
<1>5. CASE pc[s] # "idle"
  <2>1. \/ trans'[Addr(s)] = trans[Addr(s)]
        \/ trans[Addr(s)] = None /\ mutex[Addr(s)] = r
    BY <1>1, <1>5
  <2>2. mutex[Addr(s)] = s => /\ mutex'[Addr(s)] = s
                              /\ trans'[Addr(s)] = trans[Addr(s)]
    BY <1>1, <1>3, <2>1
  <2>3. trans[Addr(s)] # None => trans'[Addr(s)] = trans[Addr(s)]
    BY <2>1
  <2>4. pc[s] # "plain"
    BY <1>5 DEF Sees
  <2> QED BY <1>2, <2>2, <2>3, <2>4 DEF Sees
<1> QED BY <1>4, <1>5

(* A step of one request, but its first and its last, keeps the facts if   *)
(* the request itself sees the cache truly and no connection gets lost.    *)
LEMMA CalmMove ==
  ASSUME TripInv, CalmInv, Calm, NEW r \in Reqs, pc[r] # "idle",
         \A s \in Reqs \ {r} : /\ pc'[s] = pc[s] /\ tr'[s] = tr[s]
                               /\ hop'[s] = hop[s] /\ outcome'[s] = outcome[s],
         mode' = mode,
         \A a \in Addrs : mutex'[a] = mutex[a] \/ mutex[a] \in {None, r},
         \A a \in Addrs : \/ trans'[a] = trans[a]
                          \/ mode = "private"
                          \/ (trans[a] = None /\ mutex[a] = r),
         Sees(r)', pc'[r] \notin {"idle", "ended"}, NoLostConnection'
  PROVE  CalmInv'
<1>1. (\A s \in Reqs : Sees(s)) /\ OneUser
  BY DEF CalmInv
<1>2. ASSUME NEW s \in Reqs PROVE Sees(s)'
  <2>1. CASE s = r
    BY <2>1
  <2>2. CASE s # r
    <3>1. mode = "private" => pc[s] = "idle"
      BY <1>1, <2>2 DEF OneUser
    <3>2. Sees(s) /\ s \in Reqs \ {r}
      BY <1>1, <2>2
    <3> QED BY <3>1, <3>2, OthersSee
  <2> QED BY <2>1, <2>2
<1>3. OneUser'
  BY <1>1 DEF OneUser
<1>4. PrivateLeavesNothing'
  BY DEF PrivateLeavesNothing
<1> QED BY <1>2, <1>3, <1>4 DEF CalmInv

(* No connection is lost when each open one stays where it was or has a    *)
(* place in the new caches, and no cached transport is forgotten.          *)
LEMMA NothingLost ==
  ASSUME NoLostConnection,
         \A a \in Addrs : trans[a] # None => trans'[a] = trans[a],
         \A i \in Cids : conn'[i].st = "open" =>
           \/ /\ conn[i].st = "open" /\ conn'[i].owner = conn[i].owner
              /\ \A a \in Addrs : cached[a] = i => cached'[a] = i
           \/ \E a \in Addrs : cached'[a] = i \/ (trans'[a] # None /\ conn'[i].owner = trans'[a])
  PROVE  NoLostConnection'
<1> SUFFICES ASSUME NEW i \in Cids, conn'[i].st = "open"
             PROVE  \E a \in Addrs : cached'[a] = i \/ (trans'[a] # None /\ conn'[i].owner = trans'[a])
  BY DEF NoLostConnection
<1>1. CASE /\ conn[i].st = "open" /\ conn'[i].owner = conn[i].owner
           /\ \A a \in Addrs : cached[a] = i => cached'[a] = i
  <2>1. PICK a \in Addrs : cached[a] = i \/ (trans[a] # None /\ conn[i].owner = trans[a])
    BY <1>1 DEF NoLostConnection
  <2> QED BY <1>1, <2>1
<1> QED BY <1>1

(* The lookups, the inner transport and the ends of dialTLS that touch no  *)
(* cache: a request only moves on what it has seen under the mutex.        *)
LEMMA LookupCalm ==
  ASSUME TripInv, CalmInv, Calm, NEW r \in Reqs,
         Lookup(r) \/ AddressLock(r) \/ Recheck(r) \/ Use(r) \/ RoundTripFails(r)
  PROVE  CalmInv'
<1> USE DEF useVars
<1>0. TypeOK /\ Addr(r) \in Addrs /\ Sees(r) /\ NoLostConnection
  BY AddrType DEF TripInv, CalmInv
<1>1. UNCHANGED <<trans, cached, conn, hop, mode>> /\ pc[r] # "idle"
  BY DEF Lookup, AddressLock, Recheck, Use, RoundTripFails, cacheVars
<1>2. \A s \in Reqs \ {r} : /\ pc'[s] = pc[s] /\ tr'[s] = tr[s]
                            /\ hop'[s] = hop[s] /\ outcome'[s] = outcome[s]
  BY <1>0 DEF TypeOK, Lookup, AddressLock, Recheck, Use, RoundTripFails, Goto, Finish
<1>3. \A a \in Addrs : mutex'[a] = mutex[a] \/ mutex[a] \in {None, r}
  BY <1>0 DEF TypeOK, Lookup, AddressLock, Recheck, Use, RoundTripFails, Sees, lockVars
<1>4. NoLostConnection'
  BY <1>0, <1>1 DEF NoLostConnection
<1>5. Addr(r)' = Addr(r)
  BY <1>1 DEF Addr
<1>6. Sees(r)' /\ pc'[r] \notin {"idle", "ended"}
  <2>1. CASE Lookup(r)
    <3>1. Scheme(r) = "http" => mode = "private"
      <4>1. OnlyHttps => Scheme(r) = "https"
        BY <1>0 DEF OnlyHttps, Scheme, TypeOK
      <4> QED BY <4>1 DEF Calm
    <3>2. pc'[r] \in {"use", "plain", "get"} /\ tr'[r] = tr[r] /\ outcome'[r] = outcome[r]
          /\ (pc'[r] = "use" => trans[Addr(r)] # None)
          /\ (pc'[r] = "plain" => Scheme(r) = "http" /\ trans[Addr(r)] = None)
          /\ pc[r] = "lookup"
      BY <1>0, <2>1 DEF TypeOK, Lookup, Goto
    <3> QED BY <1>0, <1>1, <1>5, <3>1, <3>2 DEF Sees, Learning
  <2>2. CASE AddressLock(r)
    <3>1. pc[r] = "get" /\ pc'[r] = "recheck" /\ mutex'[Addr(r)] = r /\ tr'[r] = tr[r]
          /\ outcome'[r] = outcome[r]
      BY <1>0, <2>2 DEF TypeOK, AddressLock, Goto
    <3> QED BY <1>0, <1>1, <1>5, <3>1 DEF Sees, Learning
  <2>3. CASE Recheck(r)
    <3>1. /\ pc[r] = "recheck" /\ tr'[r] = tr[r] /\ outcome'[r] = outcome[r]
          /\ \/ trans[Addr(r)] # None /\ pc'[r] = "use"
             \/ trans[Addr(r)] = None /\ pc'[r] = "dial" /\ mutex' = mutex
      BY <1>0, <2>3 DEF TypeOK, Recheck, Goto
    <3> QED BY <1>0, <1>1, <1>5, <3>1 DEF Sees, Learning
  <2>4. CASE Use(r)
    <3>1. trans[Addr(r)] # None
      BY <1>0, <2>4 DEF Use, Sees
    <3>2. pc'[r] = "roundtrip" /\ tr'[r] = trans[Addr(r)] /\ outcome'[r] = outcome[r]
      BY <1>0, <2>4, <3>1 DEF TypeOK, Use, Goto
    <3> QED BY <1>0, <1>1, <1>5, <3>2 DEF Sees, Learning
  <2>5. CASE RoundTripFails(r)
    <3>1. pc'[r] = "finish" /\ tr'[r] = tr[r] /\ outcome'[r] = "error"
      BY <1>0, <2>5 DEF TypeOK, RoundTripFails, Goto, Finish
    <3> QED BY <1>0, <1>1, <1>5, <3>1 DEF Sees, Learning
  <2> QED BY <2>1, <2>2, <2>3, <2>4, <2>5
<1> QED BY <1>1, <1>2, <1>3, <1>4, <1>6, CalmMove

(* The inner transport: the one the request chose is the cached one, and   *)
(* so is the owner of the connection it dials by itself.                   *)
LEMMA InnerCalm ==
  ASSUME TripInv, CalmInv, Calm, NEW r \in Reqs,
         Reuse(r) \/ NeedDial(r) \/ PlainDial(r)
  PROVE  CalmInv'
<1> USE DEF useVars
<1>0. TypeOK /\ Addr(r) \in Addrs /\ Sees(r) /\ NoLostConnection
  BY AddrType DEF TripInv, CalmInv
<1>1. /\ UNCHANGED <<trans, cached, hop, tr, outcome, mutex, mode>> /\ pc[r] = "roundtrip"
      /\ pc' = [pc EXCEPT ![r] = "exchange"] \/ pc' = [pc EXCEPT ![r] = "dial"]
  BY DEF Reuse, NeedDial, PlainDial, Goto, lockVars
<1>2. \A s \in Reqs \ {r} : pc'[s] = pc[s]
  BY <1>0, <1>1 DEF TypeOK
<1>3. tr[r] # None /\ tr[r] = trans[Addr(r)]
  BY <1>0, <1>1 DEF TripInv, Users, Sees
<1>4. NoLostConnection'
  <2>1. CASE conn' = conn
    BY <1>0, <1>1, <2>1 DEF NoLostConnection
  <2>2. CASE PlainDial(r)
    <3>1. PICK i \in Cids :
            conn' = [conn EXCEPT ![i] = [st |-> "open", owner |-> tr[r], handed |-> 1,
                                         hello |-> IF Scheme(r) = "http" THEN "raw" ELSE "std"]]
      BY <2>2 DEF PlainDial
    <3>2. conn'[i].owner = tr[r] /\ \A j \in Cids \ {i} : conn'[j] = conn[j]
      BY <1>0, <3>1 DEF TypeOK
    <3>3. \A j \in Cids : conn'[j].st = "open" =>
           \/ /\ conn[j].st = "open" /\ conn'[j].owner = conn[j].owner
              /\ \A a \in Addrs : cached[a] = j => cached'[a] = j
           \/ \E a \in Addrs : cached'[a] = j \/ (trans'[a] # None /\ conn'[j].owner = trans'[a])
      BY <1>0, <1>1, <1>3, <3>2
    <3> QED BY <1>0, <1>1, <3>3, NothingLost
  <2> QED BY <2>1, <2>2 DEF Reuse, NeedDial
<1>5. Sees(r)'
  <2>1. Addr(r)' = Addr(r) /\ pc'[r] \in {"exchange", "dial"} /\ ~Learning(r)'
    BY <1>0, <1>1, <1>3 DEF Addr, TypeOK, Learning, Predial
  <2> QED BY <1>0, <1>1, <1>3, <2>1 DEF Sees
<1>6. pc'[r] \in {"exchange", "dial"}
  BY <1>0, <1>1 DEF TypeOK
<1> QED BY <1>1, <1>2, <1>4, <1>5, <1>6, CalmMove


(* The http case of getTransport: a private client's only request stores   *)
(* the transport it found missing.                                         *)
LEMMA StorePlainCalm ==
  ASSUME TripInv, CalmInv, Calm, NEW r \in Reqs, StorePlain(r)
  PROVE  CalmInv'
<1> USE DEF useVars
<1>0. TypeOK /\ Addr(r) \in Addrs /\ Sees(r) /\ NoLostConnection
  BY AddrType DEF TripInv, CalmInv
<1>1. PICK t \in Tids : NewTrans(t) /\ trans' = [trans EXCEPT ![Addr(r)] = t]
  BY DEF StorePlain
<1>2. /\ UNCHANGED <<cached, conn, hop, tr, outcome, mutex, mode>> /\ pc[r] = "plain"
      /\ pc' = [pc EXCEPT ![r] = "use"]
  BY DEF StorePlain, Goto, lockVars
<1>3. mode = "private" /\ trans[Addr(r)] = None /\ t # None
  BY <1>0, <1>1, <1>2, FreshTrans DEF Sees
<1>4. \A a \in Addrs : trans[a] # None => trans'[a] = trans[a]
  BY <1>0, <1>1, <1>3 DEF TypeOK
<1>5. NoLostConnection'
  BY <1>0, <1>2, <1>4, NothingLost
<1>6. Sees(r)' /\ pc'[r] = "use"
  <2>1. Addr(r)' = Addr(r) /\ pc'[r] = "use" /\ trans'[Addr(r)] = t /\ ~Learning(r)'
    BY <1>0, <1>1, <1>2 DEF Addr, TypeOK, Learning
  <2> QED BY <1>0, <1>2, <1>3, <2>1 DEF Sees
<1>7. \A s \in Reqs \ {r} : pc'[s] = pc[s]
  BY <1>0, <1>2 DEF TypeOK
<1> QED BY <1>2, <1>3, <1>5, <1>6, <1>7, CalmMove

-----------------------------------------------------------------------------
(* getTransport gives back the address mutex that it holds.                *)
LEMMA LeavesOwnMutex ==
  ASSUME TypeOK, NEW r \in Reqs, Sees(r), pc[r] \in {"dial", "dialing", "retrying"},
         LeavePredial(r)
  PROVE  \A a \in Addrs : mutex'[a] = mutex[a] \/ mutex[a] \in {None, r}
<1>1. Addr(r) \in Addrs
  BY AddrType
<1>2. CASE Predial(r)
  <2>1. mutex[Addr(r)] = r /\ mutex' = [mutex EXCEPT ![Addr(r)] = None]
    BY <1>2 DEF Sees, Learning, LeavePredial
  <2> QED BY <1>1, <2>1 DEF TypeOK
<1>3. CASE ~Predial(r)
  BY <1>3 DEF LeavePredial
<1> QED BY <1>2, <1>3

(* dialTLS fails, or goes on under the lock or to the retry.               *)
LEMMA DialErrorCalm ==
  ASSUME TripInv, CalmInv, Calm, NEW r \in Reqs, pc[r] \in {"dialing", "retrying"}, DialError(r)
  PROVE  CalmInv'
<1> USE DEF useVars
<1>0. TypeOK /\ Addr(r) \in Addrs /\ Sees(r) /\ NoLostConnection
  BY AddrType DEF TripInv, CalmInv
<1>1. /\ UNCHANGED <<trans, cached, conn, hop, tr, mode>>
      /\ pc' = [pc EXCEPT ![r] = "finish"] /\ outcome' = [outcome EXCEPT ![r] = "error"]
  BY DEF DialError, Finish, Goto, cacheVars
<1>2. \A a \in Addrs : mutex'[a] = mutex[a] \/ mutex[a] \in {None, r}
  BY <1>0, LeavesOwnMutex DEF DialError
<1>3. NoLostConnection'
  BY <1>0, <1>1 DEF NoLostConnection
<1>4. \A s \in Reqs \ {r} : pc'[s] = pc[s] /\ outcome'[s] = outcome[s]
  BY <1>0, <1>1 DEF TypeOK
<1>5. Sees(r)' /\ pc'[r] = "finish"
  <2>1. Addr(r)' = Addr(r) /\ pc'[r] = "finish" /\ outcome'[r] = "error" /\ ~Learning(r)'
    BY <1>0, <1>1 DEF Addr, TypeOK, Learning
  <2> QED BY <1>0, <1>1, <2>1 DEF Sees
<1> QED BY <1>1, <1>2, <1>3, <1>4, <1>5, CalmMove

(* The lock over dialling is kept, or the handshake is tried once more.    *)
LEMMA DialOnCalm ==
  ASSUME TripInv, CalmInv, Calm, NEW r \in Reqs, pc[r] \in {"dial", "dialing"},
         NEW l \in {"dialing", "retrying"}, pc' = [pc EXCEPT ![r] = l],
         UNCHANGED <<trans, cached, conn, hop, tr, outcome, mutex, mode>>
  PROVE  CalmInv'
<1>0. TypeOK /\ Addr(r) \in Addrs /\ Sees(r) /\ NoLostConnection
  BY AddrType DEF TripInv, CalmInv
<1>1. NoLostConnection'
  BY <1>0 DEF NoLostConnection
<1>2. \A s \in Reqs \ {r} : pc'[s] = pc[s]
  BY <1>0 DEF TypeOK
<1>3. Sees(r)' /\ pc'[r] \in {"dialing", "retrying"}
  <2>1. Addr(r)' = Addr(r) /\ pc'[r] \in {"dialing", "retrying"} /\ (Learning(r)' <=> Learning(r))
    BY <1>0 DEF Addr, TypeOK, Learning, Predial
  <2> QED BY <1>0, <2>1 DEF Sees
<1> QED BY <1>1, <1>2, <1>3, CalmMove

(* dialTLS returns a connection: only to the cached transport that asked   *)
(* for it, never to getTransport, which would drop it.                     *)
LEMMA ReturnedCalm ==
  ASSUME TripInv, CalmInv, Calm, NEW r \in Reqs, pc[r] \in {"dial", "dialing", "retrying"},
         NEW i \in Cids, NEW c, Returned(r, i, c),
         trans[Addr(r)] # None,
         \A a \in Addrs : cached'[a] = cached[a] \/ cached[a] = i,
         LeavePredial(r),
         UNCHANGED <<trans, hop, tr, mode>>
  PROVE  CalmInv'
<1> DEFINE got == [st |-> c.st, hello |-> c.hello, owner |-> tr[r], handed |-> c.handed + 1]
<1>0. TypeOK /\ Addr(r) \in Addrs /\ Sees(r) /\ NoLostConnection
  BY AddrType DEF TripInv, CalmInv
<1>1. ~Predial(r) /\ tr[r] # None /\ tr[r] = trans[Addr(r)]
  BY <1>0 DEF Sees, Learning, Predial
<1>2. \A a \in Addrs : mutex'[a] = mutex[a]
  BY <1>1 DEF LeavePredial
<1>3. got.owner = tr[r]
  OBVIOUS
<1>4. /\ conn' = [conn EXCEPT ![i] = got] \/ conn' = [conn EXCEPT ![i] = NoConn]
      /\ \/ pc' = [pc EXCEPT ![r] = "exchange"] /\ outcome' = outcome
         \/ pc' = [pc EXCEPT ![r] = "finish"] /\ outcome' = [outcome EXCEPT ![r] = "error"]
  BY <1>1 DEF Returned, Idle, Goto, Finish
<1> HIDE DEF got
<1>5. /\ \A j \in Cids \ {i} : conn'[j] = conn[j]
      /\ conn'[i].st = "open" => conn'[i].owner = tr[r]
  BY <1>0, <1>3, <1>4 DEF TypeOK, NoConn
<1>6. NoLostConnection'
  <2>1. \A j \in Cids : conn'[j].st = "open" =>
         \/ /\ conn[j].st = "open" /\ conn'[j].owner = conn[j].owner
            /\ \A a \in Addrs : cached[a] = j => cached'[a] = j
         \/ \E a \in Addrs : cached'[a] = j \/ (trans'[a] # None /\ conn'[j].owner = trans'[a])
    <3> SUFFICES ASSUME NEW j \in Cids, conn'[j].st = "open", j # i
                 PROVE  /\ conn[j].st = "open" /\ conn'[j].owner = conn[j].owner
                        /\ \A a \in Addrs : cached[a] = j => cached'[a] = j
      BY <1>0, <1>1, <1>5
    <3> QED BY <1>5
  <2> QED BY <1>0, <2>1, NothingLost
<1>7. \A s \in Reqs \ {r} : pc'[s] = pc[s] /\ outcome'[s] = outcome[s]
  BY <1>0, <1>4 DEF TypeOK
<1>8. Sees(r)' /\ pc'[r] \in {"exchange", "finish"}
  <2>1. Addr(r)' = Addr(r) /\ pc'[r] \in {"exchange", "finish"} /\ ~Learning(r)'
        /\ outcome'[r] \in {outcome[r], "error"}
    BY <1>0, <1>4 DEF Addr, TypeOK, Learning
  <2> QED BY <1>0, <1>1, <2>1 DEF Sees
<1> QED BY <1>2, <1>6, <1>7, <1>8, CalmMove

(* Transport and connection are cached: by getTransport, which holds the   *)
(* address mutex, and not under a transport, to which the sentinel would   *)
(* be an error.                                                            *)
LEMMA CacheBothCalm ==
  ASSUME TripInv, CalmInv, Calm, NEW r \in Reqs, pc[r] \in {"dialing", "retrying"},
         NEW i \in Cids, NewConn(i), trans[Addr(r)] = None, CacheBoth(r, i),
         LeavePredial(r),
         UNCHANGED <<hop, tr, mode>>
  PROVE  CalmInv'
<1>0. TypeOK /\ Addr(r) \in Addrs /\ Sees(r) /\ NoLostConnection
  BY AddrType DEF TripInv, CalmInv
<1>1. Predial(r) /\ tr[r] = None /\ mutex[Addr(r)] = r
  BY <1>0 DEF Sees, Learning, Predial
<1>2. PICK t \in Tids : NewTrans(t) /\ trans' = [trans EXCEPT ![Addr(r)] = t]
  BY DEF CacheBoth
<1>3. /\ conn' = [conn EXCEPT ![i] = Shaken]
      /\ cached' = [cached EXCEPT ![Addr(r)] = i]
      /\ pc' = [pc EXCEPT ![r] = "use"] /\ outcome' = outcome
  BY <1>1 DEF CacheBoth, Goto
<1>4. t # None
  BY <1>2, FreshTrans
<1>5. \A a \in Addrs : mutex'[a] = mutex[a] \/ mutex[a] \in {None, r}
  BY <1>0, LeavesOwnMutex
<1>6. \A a \in Addrs : trans'[a] = trans[a] \/ (trans[a] = None /\ mutex[a] = r)
  BY <1>0, <1>1, <1>2 DEF TypeOK
<1>7. cached[Addr(r)] = None
  BY <1>0 DEF TripInv, CachedHasTransport
<1>8. NoLostConnection'
  <2>1. \A a \in Addrs : trans[a] # None => trans'[a] = trans[a]
    BY <1>6
  <2>2. /\ cached'[Addr(r)] = i /\ \A a \in Addrs : a # Addr(r) => cached'[a] = cached[a]
        /\ \A j \in Cids : j # i => conn'[j] = conn[j]
    BY <1>0, <1>3 DEF TypeOK
  <2>3. \A j \in Cids : conn'[j].st = "open" =>
         \/ /\ conn[j].st = "open" /\ conn'[j].owner = conn[j].owner
            /\ \A a \in Addrs : cached[a] = j => cached'[a] = j
         \/ \E a \in Addrs : cached'[a] = j \/ (trans'[a] # None /\ conn'[j].owner = trans'[a])
    <3> SUFFICES ASSUME NEW j \in Cids, conn'[j].st = "open", j # i
                 PROVE  /\ conn[j].st = "open" /\ conn'[j].owner = conn[j].owner
                        /\ \A a \in Addrs : cached[a] = j => cached'[a] = j
      BY <1>0, <2>2
    <3>1. j # None
      BY DEF Cids, None
    <3> QED BY <1>7, <2>2, <3>1
  <2> QED BY <1>0, <2>1, <2>3, NothingLost
<1>9. \A s \in Reqs \ {r} : pc'[s] = pc[s]
  BY <1>0, <1>3 DEF TypeOK
<1>10. Sees(r)' /\ pc'[r] = "use"
  <2>1. Addr(r)' = Addr(r) /\ pc'[r] = "use" /\ ~Learning(r)' /\ trans'[Addr(r)] = t
    BY <1>0, <1>2, <1>3 DEF Addr, TypeOK, Learning
  <2> QED BY <1>0, <1>1, <1>3, <1>4, <2>1 DEF Sees
<1> QED BY <1>3, <1>5, <1>6, <1>8, <1>9, <1>10, CalmMove

(* The two ends of a handshake that succeeded.                             *)
LEMMA NegotiatedCalm ==
  ASSUME TripInv, CalmInv, Calm, NEW r \in Reqs, pc[r] \in {"dialing", "retrying"}, Negotiated(r)
  PROVE  CalmInv'
<1>1. PICK i \in Cids :
        /\ NewConn(i)
        /\ \/ /\ trans[Addr(r)] # None
              /\ Returned(r, i, Shaken)
              /\ UNCHANGED <<trans, cached, kind, drained>>
           \/ /\ trans[Addr(r)] = None
              /\ CacheBoth(r, i)
  BY DEF Negotiated
<1>2. LeavePredial(r) /\ UNCHANGED <<hop, tr, mode>>
  BY DEF Negotiated, useVars
<1>3. CASE trans[Addr(r)] # None
  <2>1. Returned(r, i, Shaken) /\ UNCHANGED <<trans, cached>>
    BY <1>1, <1>3
  <2> QED BY <1>2, <1>3, <2>1, ReturnedCalm
<1>4. CASE trans[Addr(r)] = None
  <2>1. CacheBoth(r, i)
    BY <1>1, <1>4
  <2> QED BY <1>1, <1>2, <1>4, <2>1, CacheBothCalm
<1> QED BY <1>3, <1>4

(* dialTLS, from its first test to its last retry.                         *)
LEMMA DialCalm ==
  ASSUME TripInv, CalmInv, Calm, NEW r \in Reqs,
         DialBegin(r) \/ Handshake(r) \/ HandshakeFails(r) \/ Retry(r)
  PROVE  CalmInv'
<1> USE DEF useVars
<1>0. TypeOK /\ Addr(r) \in Addrs
  BY AddrType DEF TripInv
<1>1. CASE DialBegin(r) /\ cached[Addr(r)] # None
  <2>1. /\ pc[r] = "dial" /\ Returned(r, cached[Addr(r)], conn[cached[Addr(r)]])
        /\ cached' = [cached EXCEPT ![Addr(r)] = None]
        /\ LeavePredial(r) /\ UNCHANGED <<trans, hop, tr, mode>>
    BY <1>1 DEF DialBegin
  <2>2. cached[Addr(r)] \in Cids /\ trans[Addr(r)] # None
    BY <1>0, <1>1 DEF TripInv, TypeOK, CachedHasTransport
  <2>3. \A a \in Addrs : cached'[a] = cached[a] \/ cached[a] = cached[Addr(r)]
    BY <1>0, <2>1 DEF TypeOK
  <2> QED BY <2>1, <2>2, <2>3, ReturnedCalm
<1>2. CASE DialBegin(r) /\ cached[Addr(r)] = None
  <2>1. /\ pc[r] = "dial" /\ pc' = [pc EXCEPT ![r] = "dialing"]
        /\ UNCHANGED <<trans, cached, conn, hop, tr, outcome, mutex, mode>>
    BY <1>2 DEF DialBegin, Goto
  <2> QED BY <2>1, DialOnCalm
<1>3. CASE Handshake(r)
  BY <1>3, NegotiatedCalm DEF Handshake
<1>4. CASE HandshakeFails(r)
  <2>1. CASE DialError(r)
    BY <1>4, <2>1, DialErrorCalm DEF HandshakeFails
  <2>2. CASE ~DialError(r)
    <3>1. /\ pc[r] = "dialing" /\ pc' = [pc EXCEPT ![r] = "retrying"]
          /\ UNCHANGED <<trans, cached, conn, hop, tr, outcome, mutex, mode>>
      BY <1>4, <2>2 DEF HandshakeFails, Goto, cacheVars, lockVars
    <3> QED BY <3>1, DialOnCalm
  <2> QED BY <2>1, <2>2
<1>5. CASE Retry(r)
  BY <1>5, NegotiatedCalm, DialErrorCalm DEF Retry
<1> QED BY <1>1, <1>2, <1>3, <1>4, <1>5


-----------------------------------------------------------------------------
(* A connection that a request gives back keeps its owner or is closed.    *)
LEMMA ReleaseCalm ==
  ASSUME TripInv, CalmInv, Calm, NEW r \in Reqs, Respond(r) \/ ExchangeFails(r)
  PROVE  CalmInv'
<1> USE DEF useVars
<1>0. TypeOK /\ Addr(r) \in Addrs /\ Sees(r) /\ NoLostConnection
  BY AddrType DEF TripInv, CalmInv
<1>1. /\ UNCHANGED <<trans, cached, mutex, mode>> /\ pc[r] = "exchange"
      /\ conn' = [conn EXCEPT ![cn[r]] = conn[cn[r]]] \/ conn' = [conn EXCEPT ![cn[r]] = NoConn]
  BY DEF Respond, ExchangeFails, Idle, lockVars
<1>2. NoLostConnection'
  <2>1. \A j \in Cids : conn'[j] \in {conn[j], NoConn}
    BY <1>0, <1>1 DEF TypeOK
  <2>2. \A j \in Cids : conn'[j].st = "open" => conn'[j] = conn[j]
    BY <2>1 DEF NoConn
  <2> QED BY <1>0, <1>1, <2>2, NothingLost
<1>3. CASE Respond(r)
  <2>1. /\ tr' = [tr EXCEPT ![r] = None]
        /\ \/ pc' = [pc EXCEPT ![r] = "lookup"] /\ hop' = [hop EXCEPT ![r] = @ + 1]
              /\ outcome' = outcome
           \/ pc' = [pc EXCEPT ![r] = "finish"] /\ hop' = hop
              /\ outcome' = [outcome EXCEPT ![r] = "ok"]
    BY <1>3 DEF Respond, Goto, Finish
  <2>2. \A s \in Reqs \ {r} : /\ pc'[s] = pc[s] /\ tr'[s] = tr[s]
                              /\ hop'[s] = hop[s] /\ outcome'[s] = outcome[s]
    BY <1>0, <2>1 DEF TypeOK
  <2>3. /\ pc'[r] \in {"lookup", "finish"} /\ tr'[r] = None
        /\ outcome'[r] \in {outcome[r], "ok"} /\ ~Learning(r)'
    BY <1>0, <2>1 DEF TypeOK, Learning
  <2>4. Sees(r)'
    BY <1>0, <2>3 DEF Sees
  <2> QED BY <1>1, <1>2, <2>2, <2>3, <2>4, CalmMove
<1>4. CASE ExchangeFails(r)
  <2>1. /\ UNCHANGED <<tr, hop>> /\ pc' = [pc EXCEPT ![r] = "finish"]
        /\ outcome' = [outcome EXCEPT ![r] = "error"]
    BY <1>4 DEF ExchangeFails, Goto, Finish
  <2>2. \A s \in Reqs \ {r} : pc'[s] = pc[s] /\ outcome'[s] = outcome[s]
    BY <1>0, <2>1 DEF TypeOK
  <2>3. pc'[r] = "finish" /\ outcome'[r] = "error" /\ ~Learning(r)' /\ Addr(r)' = Addr(r)
    BY <1>0, <2>1 DEF TypeOK, Learning, Addr
  <2>4. Sees(r)'
    BY <1>0, <1>1, <2>1, <2>3 DEF Sees
  <2> QED BY <1>1, <1>2, <2>1, <2>2, <2>3, <2>4, CalmMove
<1> QED BY <1>3, <1>4

(* A request starts: on a private client, the only one.                    *)
LEMMA StartCalm ==
  ASSUME TripInv, CalmInv, Calm, NEW r \in Reqs, Start(r)
  PROVE  CalmInv'
<1>1. TypeOK /\ (\A s \in Reqs : Sees(s)) /\ OneUser /\ NoLostConnection
  BY DEF TripInv, CalmInv
<1>2. /\ UNCHANGED <<trans, cached, conn, hop, tr, outcome, mutex, mode>>
      /\ pc[r] = "idle" /\ pc' = [pc EXCEPT ![r] = "lookup"]
      /\ mode = "private" => \A s \in Reqs : pc[s] = "idle"
  BY DEF Start, Goto, cacheVars, lockVars, useVars
<1>3. pc'[r] = "lookup" /\ \A s \in Reqs \ {r} : pc'[s] = pc[s]
  BY <1>1, <1>2 DEF TypeOK
<1>4. ASSUME NEW s \in Reqs PROVE Sees(s)'
  <2>1. Addr(s)' = Addr(s) /\ (Learning(s)' <=> Learning(s))
    BY <1>2, <1>3 DEF Addr, Learning, Predial
  <2>2. \/ pc'[s] = pc[s]
        \/ pc[s] = "idle" /\ pc'[s] = "lookup"
    BY <1>2, <1>3
  <2> QED BY <1>1, <1>2, <2>1, <2>2 DEF Sees
<1>5. OneUser'
  BY <1>2, <1>3 DEF OneUser
<1>6. NoLostConnection' /\ PrivateLeavesNothing'
  BY <1>1, <1>2, <1>3 DEF NoLostConnection, PrivateLeavesNothing
<1> QED BY <1>4, <1>5, <1>6 DEF CalmInv

(* The server closes a connection: fewer are open, and nobody moved.       *)
LEMMA PeerClosesCalm ==
  ASSUME TripInv, CalmInv, Calm, NEW i \in Cids, PeerCloses(i)
  PROVE  CalmInv'
<1>1. TypeOK /\ (\A s \in Reqs : Sees(s)) /\ OneUser /\ NoLostConnection /\ PrivateLeavesNothing
  BY DEF TripInv, CalmInv
<1>2. UNCHANGED <<trans, cached, mutex, pc, hop, tr, outcome, mode>>
  BY DEF PeerCloses, lockVars, reqVars, useVars
<1>3. \A j \in Cids : conn'[j].st = "open" => conn'[j] = conn[j]
  <2> DEFINE d == IF InUse(i) \/ conn[i].owner = None THEN [conn[i] EXCEPT !.st = "dead"] ELSE NoConn
  <2>1. conn' = [conn EXCEPT ![i] = d]
    BY DEF PeerCloses
  <2>2. d.st # "open"
    BY <1>1 DEF TypeOK, NoConn
  <2> HIDE DEF d
  <2> QED BY <1>1, <2>1, <2>2 DEF TypeOK
<1>4. NoLostConnection'
  BY <1>1, <1>2, <1>3, NothingLost
<1>5. \A s \in Reqs : Sees(s)'
  BY <1>1, <1>2 DEF Sees, Addr, Learning, Predial
<1>6. OneUser' /\ PrivateLeavesNothing'
  BY <1>1, <1>2, <1>3 DEF OneUser, PrivateLeavesNothing
<1> QED BY <1>4, <1>5, <1>6 DEF CalmInv

(* A request ends: a shared client keeps everything, a private one closes  *)
(* what its only request left, since nothing is in use any more and no     *)
(* connection was lost.                                                    *)
LEMMA EndCalm ==
  ASSUME TripInv, CalmInv, Calm, NEW r \in Reqs, End(r)
  PROVE  CalmInv'
<1> USE DEF useVars
<1>1. TypeOK /\ (\A s \in Reqs : Sees(s)) /\ OneUser /\ NoLostConnection /\ PrivateLeavesNothing
  BY DEF TripInv, CalmInv
<1>2. /\ pc[r] = "finish" /\ pc' = [pc EXCEPT ![r] = "ended"] /\ tr' = [tr EXCEPT ![r] = None]
      /\ UNCHANGED <<mutex, hop, cn, outcome, mode>>
  BY DEF End, Goto, lockVars
<1>3. /\ pc'[r] = "ended" /\ tr'[r] = None
      /\ \A s \in Reqs \ {r} : pc'[s] = pc[s] /\ tr'[s] = tr[s]
  BY <1>1, <1>2 DEF TypeOK
<1>4. \A a \in Addrs : trans'[a] = trans[a] \/ mode = "private"
  BY DEF End, Calm, cacheVars
<1>5. ASSUME NEW s \in Reqs PROVE Sees(s)'
  <2>1. CASE s = r
    BY <1>1, <1>2, <1>3, <2>1 DEF Sees, Learning
  <2>2. CASE s # r
    <3>1. mode = "private" => pc[s] = "idle"
      BY <1>1, <1>2, <2>2 DEF OneUser
    <3>2. Sees(s) /\ s \in Reqs \ {r}
      BY <1>1, <2>2
    <3> QED BY <1>2, <1>3, <1>4, <3>1, <3>2, OthersSee
  <2> QED BY <2>1, <2>2
<1>6. OneUser'
  BY <1>1, <1>2, <1>3 DEF OneUser
<1>7. NoLostConnection' /\ PrivateLeavesNothing'
  <2>1. CASE mode = "do"
    <3>1. UNCHANGED <<trans, cached, conn>>
      BY <2>1 DEF End, cacheVars
    <3> QED BY <1>1, <1>2, <2>1, <3>1 DEF NoLostConnection, PrivateLeavesNothing
  <2>2. CASE mode = "private"
    <3>1. CloseIdleConnections({})
      BY <2>2 DEF End
    <3>2. \A i \in Cids : ~InUse(i)
      <4> SUFFICES ASSUME NEW i \in Cids, NEW s \in Reqs, cn[s] = i PROVE FALSE
        BY DEF InUse
      <4>1. pc[s] = "exchange"
        BY DEF TripInv, Users, Cids, None
      <4> QED BY <1>1, <1>2, <2>2, <4>1 DEF OneUser
    <3>3. \A i \in Cids : conn'[i].st # "open"
      <4> SUFFICES ASSUME NEW i \in Cids, conn[i].st = "open" PROVE conn'[i] = NoConn
        BY <3>1 DEF CloseIdleConnections, NoConn
      <4>1. PICK a \in Addrs : cached[a] = i \/ (trans[a] # None /\ conn[i].owner = trans[a])
        BY <1>1 DEF NoLostConnection
      <4> QED BY <3>1, <3>2, <4>1 DEF CloseIdleConnections
    <3> QED BY <3>3 DEF NoLostConnection, PrivateLeavesNothing
  <2> QED BY <2>1, <2>2 DEF Calm
<1> QED BY <1>5, <1>6, <1>7 DEF CalmInv

(* A calm client stays calm: its user never changes, and nobody clears it. *)
LEMMA StaysCalm ==
  ASSUME TripInv, Calm', [Next]_vars
  PROVE  Calm /\ ~ClearAll
<1>1. mode' = mode
  BY DEF Next, Start, Progress, Lookup, StorePlain, AddressLock, Recheck, Use, Reuse, NeedDial,
         PlainDial, RoundTripFails, DialBegin, Handshake, HandshakeFails, DialError, Retry,
         Negotiated, Respond, ExchangeFails, End, PeerCloses, ClearAll, vars, useVars
<1>2. Calm
  BY <1>1 DEF Calm
<1>3. ~ClearAll
  BY <1>2 DEF ClearAll, Calm, TripInv, TypeOK
<1> QED BY <1>2, <1>3

(* Every step preserves the facts about a calm client.                     *)
LEMMA StepCalm == TripInv /\ CalmInv /\ [Next]_vars => CalmInv'
<1> SUFFICES ASSUME TripInv, CalmInv, [Next]_vars, Calm' PROVE CalmInv'
  BY DEF CalmInv
<1>0. Calm /\ ~ClearAll
  BY StaysCalm
<1>1. ASSUME NEW r \in Reqs, Start(r) \/ Progress(r)
      PROVE  CalmInv'
  <2>1. CASE Lookup(r) \/ AddressLock(r) \/ Recheck(r) \/ Use(r) \/ RoundTripFails(r)
    BY <1>0, <2>1, LookupCalm
  <2>2. CASE StorePlain(r)
    BY <1>0, <2>2, StorePlainCalm
  <2>3. CASE Reuse(r) \/ NeedDial(r) \/ PlainDial(r)
    BY <1>0, <2>3, InnerCalm
  <2>4. CASE DialBegin(r) \/ Handshake(r) \/ HandshakeFails(r) \/ Retry(r)
    BY <1>0, <2>4, DialCalm
  <2>5. CASE Respond(r) \/ ExchangeFails(r)
    BY <1>0, <2>5, ReleaseCalm
  <2>6. CASE Start(r)
    BY <1>0, <2>6, StartCalm
  <2>7. CASE End(r)
    BY <1>0, <2>7, EndCalm
  <2> QED BY <1>1, <2>1, <2>2, <2>3, <2>4, <2>5, <2>6, <2>7 DEF Progress
<1>2. ASSUME NEW i \in Cids, PeerCloses(i) PROVE CalmInv'
  BY <1>0, <1>2, PeerClosesCalm
<1>3. CASE UNCHANGED vars
  BY <1>3 DEF CalmInv, Calm, Sees, Learning, Predial, Addr, OneUser, NoLostConnection,
              PrivateLeavesNothing, vars, cacheVars, lockVars, reqVars, useVars
<1> QED BY <1>0, <1>1, <1>2, <1>3 DEF Next

(* The facts about a calm client hold in every state.                      *)
LEMMA CalmInvariance == Spec => []CalmInv
<1>1. Init => CalmInv
  <2> SUFFICES ASSUME Init PROVE CalmInv
    OBVIOUS
  <2>1. \A r \in Reqs : Sees(r)
    BY DEF Init, Sees, Learning
  <2>2. OneUser
    BY DEF Init, OneUser
  <2>3. \A i \in Cids : conn[i].st # "open"
    BY DEF Init, NoConn
  <2> QED BY <2>1, <2>2, <2>3 DEF CalmInv, NoLostConnection, PrivateLeavesNothing
<1>2. TripInv /\ CalmInv /\ [Next]_vars => CalmInv'
  BY StepCalm
<1> QED BY <1>1, <1>2, TripInvariance, PTL DEF Spec

(* With enable_connection_reuse=False no connection stays open behind the  *)
(* request: for any redirect chain over http and https, any retries,       *)
(* failures and server closes.                                             *)
THEOREM PrivateSafe == Spec => []PrivateLeavesNothing
<1>1. CalmInv => PrivateLeavesNothing
  BY DEF CalmInv, Calm, PrivateLeavesNothing
<1> QED BY <1>1, CalmInvariance, PTL

(* A client of the pool used by Do for https URLs, and not cleared while   *)
(* it is in use, loses no connection: each open one waits in the cache or  *)
(* belongs to a cached transport, however the requests interleave.         *)
THEOREM ConnectionsKept ==
  ASSUME Modes \subseteq {"do", "private"}, MaxClears = 0, OnlyHttps
  PROVE  Spec => []NoLostConnection
<1>1. TripInv /\ CalmInv => NoLostConnection
  BY DEF CalmInv, Calm, TripInv, TypeOK
<1> QED BY <1>1, TripInvariance, CalmInvariance, PTL

(* On such a client RoundTrip always finds the transport that getTransport *)
(* promised, and errProtocolNegotiated never becomes a caller's error.     *)
THEOREM OutcomesClean ==
  ASSUME Modes \subseteq {"do", "private"}, MaxClears = 0, OnlyHttps
  PROVE  Spec => []CleanOutcome
<1>1. TripInv /\ CalmInv => CleanOutcome
  BY DEF CalmInv, Calm, Sees, CleanOutcome, TripInv, TypeOK
<1> QED BY <1>1, TripInvariance, CalmInvariance, PTL
=============================================================================
