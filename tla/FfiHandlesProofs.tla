-------------------------- MODULE FfiHandlesProofs --------------------------
(***************************************************************************)
(* Proofs about the users of cgo handles, for any calls, objects, threads  *)
(* and streams: a caller is given its own answer, and what the server sent *)
(* unless reads raced (AnswersSafe); what stays behind in Go's tables and  *)
(* in C memory is what the properties name (LeftoversSafe); and Go panics  *)
(* only after calls overlapped, reads among them, or a failed WebSocket    *)
(* was read on (PanicSafe).                                                *)
(*                                                                         *)
(* The invariant has a part for the calls (PolledInv) and one for the      *)
(* connection objects (StreamInv); the handles they take are disjoint, so  *)
(* that neither disturbs the other.                                        *)
(***************************************************************************)
EXTENDS FfiHandles, FiniteSetTheorems, TLAPS

(* Where a thread can be in a method.                                      *)
Labels == {"idle", "connect", "sethandle", "setconnected", "send", "writing",
           "read", "reading", "close", "closing", "free", "forget", "forgotten"}

(* An entry of Go's tables.                                                *)
Conns == [obj : Objects, sent : Seq(STRING), read : Nat, closed : BOOLEAN,
          writers : SUBSET Threads, failed : Nat, raced : BOOLEAN, in : BOOLEAN]

(* What receive and next_event return.                                     *)
Nothing == ""
Torn == "garbled"
Texts == STRING \cup {Nothing, Torn}

(* The types of what connection objects, threads and tables hold.          *)
StreamTypes ==
  /\ issued \in Nat
  /\ panicked \in BOOLEAN
  /\ pyHandle \in [Objects -> 1..issued \cup {None}]
  /\ connected \in [Objects -> BOOLEAN]
  /\ DOMAIN conns \subseteq 1..issued
  /\ conns \in [DOMAIN conns -> Conns]
  /\ pc \in [Threads -> Labels]
  /\ on \in [Threads -> Objects \cup {None}]
  /\ h \in [Threads -> 0..issued]
  /\ got \in [DOMAIN conns -> Seq(Texts)]
  /\ overlap \subseteq Objects
  /\ lapses \in [Objects -> Nat]
  /\ ops \in Nat

(* The labels at which a thread has a handle of its own.                   *)
HasHandle == {"sethandle", "setconnected", "writing", "reading", "closing", "free"}

(* A thread's handle, and the one an object refers to, belong to that      *)
(* object; an entry that is in the table has a valid handle, which is none *)
(* of a polled call.                                                       *)
Handles ==
  /\ \A t \in Threads : pc[t] # "idle" => on[t] \in Objects
  /\ \A t \in Threads : pc[t] \in HasHandle =>
       h[t] \in DOMAIN conns /\ conns[h[t]].obj = on[t]
  /\ \A o \in Objects : pyHandle[o] # None =>
       pyHandle[o] \in DOMAIN conns /\ conns[pyHandle[o]].obj = o
  /\ \A k \in DOMAIN conns : conns[k].in => k \in valid
  /\ DOMAIN results \cap DOMAIN conns = {}

(* g is what was read of a stream, n messages of it, by one thread at a    *)
(* time; over means closed.                                                *)
Follows(g, stream, n, over) ==
  /\ n <= Len(stream)
  /\ n <= Len(g)
  /\ \A i \in 1..n : g[i] = stream[i]
  /\ \A i \in (n + 1)..Len(g) : g[i] = Nothing
  /\ Len(g) > n => over \/ (IF n < Len(stream) THEN stream[n + 1] ELSE None) = "end"
ReadSoFar(k) ==
  /\ conns[k].read <= Len(conns[k].sent)
  /\ ~conns[k].raced => Follows(got[k], conns[k].sent, conns[k].read, conns[k].closed)
AllRead == \A k \in DOMAIN conns : ReadSoFar(k)

(* Who writes to a connection is in wsSend or wsClose with its handle.     *)
Writers ==
  \A k \in DOMAIN conns : \A t \in conns[k].writers :
    pc[t] \in {"writing", "closing"} /\ h[t] = k

(* The methods that must not overlap on an object.                         *)
Busy == Connecting \cup Writing

(* Two threads busy with one object were noted, and a thread that connects *)
(* has an object that is not connected.                                    *)
Overlaps ==
  /\ \A t, u \in Threads :
       t # u /\ on[t] = on[u] /\ pc[t] \in Busy /\ pc[u] \in Busy => on[t] \in overlap
  /\ \A t \in Threads :
       pc[t] \in Connecting /\ on[t] \notin overlap => ~connected[on[t]]

(* Where calls on its object did not overlap, a thread that opens or       *)
(* closes a connection has it to itself: the handle is in the table until  *)
(* the thread frees it, and is the one the object refers to.               *)
Keeps(t) ==
  on[t] \notin overlap =>
    /\ pc[t] \in {"sethandle", "setconnected", "closing", "free"} => InTable(h[t])
    /\ pc[t] \in {"setconnected", "closing", "free"} => pyHandle[on[t]] = h[t]
    /\ pc[t] = "forget" => ~InTable(pyHandle[on[t]])
    /\ pc[t] = "forgotten" => pyHandle[on[t]] = None

(* A connected object refers to an entry, unless close() is about to       *)
(* forget it.                                                              *)
Refers(o) ==
  o \notin overlap /\ connected[o] =>
    \/ InTable(pyHandle[o])
    \/ \E t \in Threads : on[t] = o /\ pc[t] \in {"forget", "forgotten"}

OneOwner ==
  /\ \A t \in Threads : Keeps(t)
  /\ \A o \in Objects : Refers(o)

(* The entries of an object, those the object or a thread still knows of,  *)
(* and the rest, which nobody will ever free.                              *)
Left(o) == {k \in DOMAIN conns : conns[k].obj = o /\ conns[k].in}
Holders(o) ==
  {t \in Threads : on[t] = o /\ pc[t] \in {"sethandle", "setconnected", "closing", "free"}}
Accounted(o) == (IF connected[o] THEN {pyHandle[o]} ELSE {}) \cup {h[t] : t \in Holders(o)}
Stray(o) == Left(o) \ Accounted(o)
(* There are no more of the rest than streams that ended.                  *)
StrayCounted ==
  \A o \in Objects \ overlap : IsFiniteSet(Stray(o)) /\ Cardinality(Stray(o)) <= lapses[o]

(* The invariant of the connection objects.                                *)
StreamInv ==
  /\ StreamTypes /\ Handles /\ Writers
  /\ AllRead
  /\ Overlaps /\ OneOwner /\ PanicNeedsMisuse
  /\ StrayCounted

(* Where a polled call can be while its entry is in the table.             *)
Polling == {"check", "sleep", "TimeoutError", "CancelledError"}

(* The entries of the table belong to calls that poll or gave up, under    *)
(* the handle that the call was given, and no two calls share a handle.    *)
Entries ==
  /\ \A r, q \in Requests : handle[r] = handle[q] /\ handle[r] # 0 => r = q
  /\ \A k \in DOMAIN results :
       /\ results[k] \in [request : Requests, ready : BOOLEAN]
       /\ handle[results[k].request] = k
       /\ rpc[results[k].request] \in Polling

(* A C string waits only for the copy that frees it, and what a call has   *)
(* or returns is its own answer.                                           *)
Calls ==
  /\ \A r \in Requests : r \in buffers => rpc[r] = "copy"
  /\ \A r \in Requests :
       KindOf[r] = "polled" /\ rpc[r] \in {"copy", "unpack", "returned"} => answers[r] = r
  /\ \A r \in Requests : rpc[r] = "returned" => answers[r] = Answer(r)
  /\ gather = "returned" => \A r \in Gathered : rpc[r] = "returned"

(* PolledTypeOK in parts.                                                  *)
LibType == lib = None \/ \E files \in Installs : Found(files) # {} /\ lib = FirstFound(files)
FlagsType == flags \in [{"sync", "async"} -> {None, TRUE, FALSE}]
CallTypes ==
  /\ rpc \in [Requests -> Ends \cup {"idle", "entered", "check", "sleep", "copy", "unpack"}]
  /\ handle \in [Requests -> 0..issued]
  /\ DOMAIN results \subseteq valid
  /\ buffers \subseteq Requests
  /\ answers \in [Requests -> Requests \cup {None, "empty"}]
  /\ gather \in {"idle", "waiting", "returned", "raised"}

(* The invariant of the calls without a pipe.                              *)
PolledInv ==
  /\ issued \in Nat
  /\ valid \subseteq 1..issued
  /\ LibType
  /\ FlagsType
  /\ CallTypes
  /\ Entries
  /\ Calls

(* Before the first call nothing is loaded, and no table has an entry.     *)
LEMMA PolledInitially == CgoInit /\ PolledInit => PolledInv
<1> SUFFICES ASSUME CgoInit, PolledInit PROVE PolledInv
  OBVIOUS
<1>1. issued \in Nat /\ valid \subseteq 1..issued
  BY DEF CgoInit
<1>2. LibType
  BY DEF PolledInit, LibType
<1>3. FlagsType
  <2> DEFINE S == {None, TRUE, FALSE}
  <2>1. None \in S
    OBVIOUS
  <2> HIDE DEF S
  <2>2. [sync |-> None, async |-> None] \in [{"sync", "async"} -> S]
    BY <2>1
  <2> QED
    BY <2>2 DEF PolledInit, FlagsType, S
<1>4. CallTypes
  BY DEF CgoInit, PolledInit, CallTypes
<1>5. Entries
  <2>1. DOMAIN results = {} /\ \A r \in Requests : handle[r] = 0
    BY DEF PolledInit
  <2> QED
    BY <2>1 DEF Entries
<1>6. Calls
  BY DEF PolledInit, Calls
<1> QED
  BY <1>1, <1>2, <1>3, <1>4, <1>5, <1>6 DEF PolledInv

(* The library and what was found out about it change only in Enter.       *)
LEMMA LibraryKept ==
  ASSUME LibType, FlagsType, UNCHANGED <<lib, flags>>
  PROVE  LibType' /\ FlagsType'
BY DEF LibType, FlagsType, Found, FirstFound

(* _has_zerocopy_support and its twin leave None, True or False.           *)
LEMMA DetectType ==
  ASSUME NEW l, NEW mode \in {"sync", "async"}, NEW f \in [{"sync", "async"} -> {None, TRUE, FALSE}]
  PROVE  Detect(f, l, mode) \in [{"sync", "async"} -> {None, TRUE, FALSE}]
<1>1. \A names : HasSymbols(l, names) \in {None, TRUE, FALSE}
  BY DEF HasSymbols
<1> QED
  BY <1>1 DEF Detect

(* A call begins: it has no entry and no C string yet.                     *)
LEMMA EnterStep ==
  ASSUME PolledInv, NEW r \in Requests, NEW files \in Installs, Enter(r, files)
  PROVE  PolledInv'
<1> USE DEF PolledInv
<1>1. /\ UNCHANGED <<issued, valid, handle, results, buffers, answers, gather>>
      /\ rpc[r] = "idle"
      /\ \/ rpc' = [rpc EXCEPT ![r] = "CycleTLSError"]
         \/ rpc' = [rpc EXCEPT ![r] = "entered"]
  BY DEF Enter, RGoto, cgoVars
<1>2. FlagsType'
  <2>1. CASE UNCHANGED flags
    BY <2>1 DEF FlagsType
  <2>2. CASE flags' = Detect(flags, lib', Mode(r))
    <3>1. Mode(r) \in {"sync", "async"}
      BY DEF Mode
    <3>2. Detect(flags, lib', Mode(r)) \in [{"sync", "async"} -> {None, TRUE, FALSE}]
      BY <3>1, DetectType DEF FlagsType
    <3> QED
      BY <2>2, <3>2 DEF FlagsType
  <2> QED
    BY <2>1, <2>2 DEF Enter
<1>3. LibType'
  BY DEF LibType, LoadLibrary, Enter, Found, FirstFound
<1>4. CallTypes'
  BY <1>1 DEF CallTypes, Ends
<1>5. Entries'
  BY <1>1 DEF Entries, CallTypes, Polling
<1>6. Calls'
  BY <1>1, PolledAssumption DEF Calls, CallTypes, Answer
<1> QED
  BY <1>1, <1>2, <1>3, <1>4, <1>5, <1>6

(* A poll that goes on or gives up changes nothing but where the call is.  *)
LEMMA PollStep ==
  ASSUME PolledInv, NEW r \in Requests,
         SubmitRefused(r) \/ CheckNotReady(r) \/ WakeUp(r) \/ TimeOut(r) \/ Cancel(r)
  PROVE  PolledInv'
<1> USE DEF PolledInv
<1>1. /\ UNCHANGED <<issued, valid, lib, flags, handle, results, buffers, answers, gather>>
      /\ \/ /\ rpc[r] = "entered"
            /\ rpc' = [rpc EXCEPT ![r] = "check"] \/ rpc' = [rpc EXCEPT ![r] = "CycleTLSError"]
         \/ /\ rpc[r] \in {"check", "sleep"}
            /\ \E l \in Polling : rpc' = [rpc EXCEPT ![r] = l]
  BY DEF SubmitRefused, CheckNotReady, WakeUp, TimeOut, Cancel, RGoto, Polling, cgoVars
<1>2. LibType' /\ FlagsType'
  BY <1>1, LibraryKept
<1>3. CallTypes'
  BY <1>1 DEF CallTypes, Ends, Polling
<1>4. Entries'
  BY <1>1 DEF Entries, CallTypes, Polling
<1>5. Calls'
  BY <1>1, PolledAssumption DEF Calls, CallTypes, Answer, Polling
<1> QED
  BY <1>1, <1>2, <1>3, <1>4, <1>5

(* submitRequestAsync: a handle that no other call has.                    *)
LEMMA SubmitStep == ASSUME PolledInv, NEW r \in Requests, Submit(r) PROVE PolledInv'
<1> USE DEF PolledInv, Submit, NewHandle, RGoto
<1>1. issued' \in Nat /\ valid' \subseteq 1..issued'
  OBVIOUS
<1>2. LibType' /\ FlagsType'
  BY LibraryKept
<1>3. CallTypes'
  BY DEF CallTypes, Ends
<1>4. Entries'
  BY DEF Entries, CallTypes, Polling
<1>5. Calls'
  BY PolledAssumption DEF Calls, CallTypes, Answer
<1> QED
  BY <1>1, <1>2, <1>3, <1>4, <1>5

(* The entry that a call takes out of the table is its own.                *)
LEMMA CheckStep == ASSUME PolledInv, NEW r \in Requests, CheckReady(r) PROVE PolledInv'
<1> USE DEF PolledInv, CheckReady, DeleteHandle, RGoto
<1>1. results[handle[r]].request = r
  BY DEF Entries, CallTypes
<1>2. LibType' /\ FlagsType'
  BY LibraryKept
<1>3. CallTypes'
  BY <1>1 DEF CallTypes, Ends
<1>4. Entries'
  BY <1>1 DEF Entries, CallTypes, Polling
<1>5. Calls'
  BY <1>1, PolledAssumption DEF Calls, CallTypes, Answer
<1> QED
  BY <1>2, <1>3, <1>4, <1>5

(* Go's answer is copied, freed and unpacked.                              *)
LEMMA AnswerStep ==
  ASSUME PolledInv, NEW r \in Requests, CallGo(r) \/ CopyAndFree(r) \/ Unpack(r)
  PROVE  PolledInv'
<1> USE DEF PolledInv
<1>1. /\ rpc[r] \in {"entered", "copy", "unpack"}
      /\ UNCHANGED <<issued, valid, lib, flags, handle, results, gather>>
      /\ \E l \in {"copy", "unpack", "returned", "ValueError", "CycleTLSError"} :
           rpc' = [rpc EXCEPT ![r] = l]
  BY DEF CallGo, CopyAndFree, Unpack, RGoto, cgoVars
<1>2. LibType' /\ FlagsType'
  BY <1>1, LibraryKept
<1>3. CallTypes'
  <2>1. buffers' \subseteq Requests /\ answers' \in [Requests -> Requests \cup {None, "empty"}]
    BY DEF CallGo, CopyAndFree, Unpack, CallTypes, Answer
  <2> QED
    BY <1>1, <2>1 DEF CallTypes, Ends
<1>4. Entries'
  BY <1>1 DEF Entries, CallTypes, Polling
<1>5. Calls'
  <2>1. CASE CallGo(r) \/ CopyAndFree(r)
    BY <2>1, PolledAssumption DEF Calls, CallTypes, Answer, CallGo, CopyAndFree, RGoto
  <2>2. CASE Unpack(r)
    BY <2>2, PolledAssumption DEF Calls, CallTypes, Answer, Unpack, RGoto
  <2> QED
    BY <2>1, <2>2
<1> QED
  BY <1>1, <1>2, <1>3, <1>4, <1>5

(* Go's goroutine and the task of send_requests_batch.                     *)
LEMMA GatherStep ==
  ASSUME PolledInv, StartGather \/ EndGather \/ \E k \in DOMAIN results : Ready(k)
  PROVE  PolledInv'
<1> USE DEF PolledInv
<1>1. UNCHANGED <<issued, valid, lib, flags, rpc, handle, buffers, answers>>
  BY DEF StartGather, EndGather, Ready, cgoVars
<1>2. /\ DOMAIN results' = DOMAIN results
      /\ \A k \in DOMAIN results :
           /\ results'[k] \in [request : Requests, ready : BOOLEAN]
           /\ results'[k].request = results[k].request
  <2>1. CASE UNCHANGED results
    BY <2>1 DEF Entries
  <2>2. CASE \E k \in DOMAIN results : Ready(k)
    <3>1. PICK k \in DOMAIN results : results' = [results EXCEPT ![k].ready = TRUE]
      BY <2>2 DEF Ready
    <3>2. \A j \in DOMAIN results : results[j] \in [request : Requests, ready : BOOLEAN]
      BY DEF Entries
    <3>3. \A j \in DOMAIN results :
            results'[j] = IF j = k THEN [results[k] EXCEPT !.ready = TRUE] ELSE results[j]
      BY <3>1
    <3>4. DOMAIN results' = DOMAIN results
      BY <3>1
    <3>5. /\ [results[k] EXCEPT !.ready = TRUE] \in [request : Requests, ready : BOOLEAN]
          /\ [results[k] EXCEPT !.ready = TRUE].request = results[k].request
      BY <3>2
    <3> QED
      BY <3>2, <3>3, <3>4, <3>5
  <2> QED
    BY <2>1, <2>2 DEF StartGather, EndGather
<1>3. /\ gather' \in {"idle", "waiting", "returned", "raised"}
      /\ gather' = "returned" => \A r \in Gathered : rpc[r] = "returned"
  BY DEF StartGather, EndGather, Ready, CallTypes, Calls
<1>4. LibType' /\ FlagsType'
  BY <1>1, LibraryKept
<1>5. CallTypes'
  BY <1>1, <1>2, <1>3 DEF CallTypes, Ends
<1>6. Entries'
  BY <1>1, <1>2 DEF Entries, Polling
<1>7. Calls'
  BY <1>1, <1>3 DEF Calls, Answer
<1> QED
  BY <1>1, <1>4, <1>5, <1>6, <1>7

(* Every step of the calls without a pipe keeps their invariant.           *)
LEMMA PolledSteps == ASSUME PolledInv, PolledNext PROVE PolledInv'
BY EnterStep, PollStep, SubmitStep, CheckStep, AnswerStep, GatherStep
   DEF PolledNext, CallStep

-----------------------------------------------------------------------------
(* What a step makes of one entry of Go's tables: the entry of k is c, the *)
(* others are as before.                                                   *)
Becomes(k, c) ==
  /\ k \in DOMAIN conns
  /\ c \in Conns
  /\ DOMAIN conns' = DOMAIN conns
  /\ conns' \in [DOMAIN conns -> Conns]
  /\ \A j \in DOMAIN conns : conns'[j] = IF j = k THEN c ELSE conns[j]

(* An EXCEPT on the table changes one entry.                               *)
LEMMA Update ==
  ASSUME conns \in [DOMAIN conns -> Conns], NEW k \in DOMAIN conns, NEW c \in Conns,
         conns' = [conns EXCEPT ![k] = c]
  PROVE  Becomes(k, c)
BY DEF Becomes

(* The writers of an entry.                                                *)
LEMMA WritersUpdate ==
  ASSUME NEW c \in Conns, NEW W \in SUBSET Threads
  PROVE  LET d == [c EXCEPT !.writers = W]
         IN  /\ d \in Conns
             /\ d.obj = c.obj /\ d.sent = c.sent /\ d.read = c.read /\ d.closed = c.closed
             /\ d.writers = W /\ d.failed = c.failed /\ d.raced = c.raced /\ d.in = c.in
BY DEF Conns

(* A message was read from an entry.                                       *)
LEMMA ReadUpdate ==
  ASSUME NEW c \in Conns
  PROVE  LET d == [c EXCEPT !.read = @ + 1]
         IN  /\ d \in Conns
             /\ d.obj = c.obj /\ d.sent = c.sent /\ d.read = c.read + 1 /\ d.closed = c.closed
             /\ d.writers = c.writers /\ d.failed = c.failed /\ d.raced = c.raced /\ d.in = c.in
BY DEF Conns

(* A read of an entry failed.                                              *)
LEMMA FailedUpdate ==
  ASSUME NEW c \in Conns
  PROVE  LET d == [c EXCEPT !.failed = @ + 1]
         IN  /\ d \in Conns
             /\ d.obj = c.obj /\ d.sent = c.sent /\ d.read = c.read /\ d.closed = c.closed
             /\ d.writers = c.writers /\ d.failed = c.failed + 1 /\ d.raced = c.raced /\ d.in = c.in
BY DEF Conns

(* The connection of an entry is closed.                                   *)
LEMMA ClosedUpdate ==
  ASSUME NEW c \in Conns, NEW W \in SUBSET Threads
  PROVE  LET d == [c EXCEPT !.writers = W, !.closed = TRUE]
         IN  /\ d \in Conns
             /\ d.obj = c.obj /\ d.sent = c.sent /\ d.read = c.read /\ d.closed
             /\ d.writers = W /\ d.failed = c.failed /\ d.raced = c.raced /\ d.in = c.in
BY DEF Conns

(* Reads of an entry raced, or did not.                                    *)
LEMMA RacedUpdate ==
  ASSUME NEW c \in Conns, NEW b \in BOOLEAN
  PROVE  LET d == [c EXCEPT !.raced = b]
         IN  /\ d \in Conns
             /\ d.obj = c.obj /\ d.sent = c.sent /\ d.read = c.read /\ d.closed = c.closed
             /\ d.writers = c.writers /\ d.failed = c.failed /\ d.raced = b /\ d.in = c.in
BY DEF Conns

(* An entry leaves the table.                                              *)
LEMMA InUpdate ==
  ASSUME NEW c \in Conns
  PROVE  LET d == [c EXCEPT !.in = FALSE]
         IN  /\ d \in Conns
             /\ d.obj = c.obj /\ d.sent = c.sent /\ d.read = c.read /\ d.closed = c.closed
             /\ d.writers = c.writers /\ d.failed = c.failed /\ d.raced = c.raced /\ ~d.in
BY DEF Conns

(* What a method step other than wsConnect's may do to the entries of the  *)
(* tables: only wsClose takes one out, and only the writer that begins     *)
(* joins the writers.                                                      *)
Kept(t) ==
  /\ DOMAIN conns' = DOMAIN conns
  /\ conns' \in [DOMAIN conns -> Conns]
  /\ \A k \in DOMAIN conns :
       /\ conns'[k].obj = conns[k].obj
       /\ conns'[k].sent = conns[k].sent
       /\ conns[k].closed => conns'[k].closed
       /\ conns[k].raced => conns'[k].raced
       /\ conns'[k].read = conns[k].read \/ (pc[t] = "reading" /\ k = h[t])
       /\ conns'[k].in => conns[k].in
       /\ conns[k].in /\ ~conns'[k].in => pc[t] = "free" /\ k = h[t]
       /\ pc[t] = "free" /\ k = h[t] => ~conns'[k].in
       /\ \A u \in conns'[k].writers : u # t => u \in conns[k].writers
       /\ t \in conns'[k].writers => pc'[t] \in {"writing", "closing"} /\ h'[t] = k

(* A step that leaves the tables alone.                                    *)
LEMMA KeptSame ==
  ASSUME StreamTypes, Writers, NEW t \in Threads, UNCHANGED conns,
         pc[t] \notin {"writing", "closing", "free"} 
  PROVE  Kept(t)
BY DEF Kept, StreamTypes, Writers, Conns

(* A step that changes one entry, by what becomes of its fields.           *)
LEMMA KeptUpdate ==
  ASSUME StreamTypes, Writers, NEW t \in Threads, NEW k, NEW c, Becomes(k, c),
         c.obj = conns[k].obj, c.sent = conns[k].sent, conns[k].closed => c.closed,
         conns[k].raced => c.raced,
         c.read = conns[k].read \/ (pc[t] = "reading" /\ k = h[t]), c.in => conns[k].in,
         conns[k].in /\ ~c.in => pc[t] = "free" /\ k = h[t],
         pc[t] = "free" => k = h[t] /\ ~c.in,
         \A u \in c.writers : u # t => u \in conns[k].writers,
         t \in c.writers => pc'[t] \in {"writing", "closing"} /\ h'[t] = k,
         pc[t] \in {"writing", "closing"} => k = h[t]
  PROVE  Kept(t)
<1>1. DOMAIN conns' = DOMAIN conns /\ conns' \in [DOMAIN conns -> Conns]
  BY DEF Becomes
<1> SUFFICES ASSUME NEW j \in DOMAIN conns
             PROVE  /\ conns'[j].obj = conns[j].obj
                    /\ conns'[j].sent = conns[j].sent
                    /\ conns[j].closed => conns'[j].closed
                    /\ conns[j].raced => conns'[j].raced
                    /\ conns'[j].read = conns[j].read \/ (pc[t] = "reading" /\ j = h[t])
                    /\ conns'[j].in => conns[j].in
                    /\ conns[j].in /\ ~conns'[j].in => pc[t] = "free" /\ j = h[t]
                    /\ pc[t] = "free" /\ j = h[t] => ~conns'[j].in
                    /\ \A u \in conns'[j].writers : u # t => u \in conns[j].writers
                    /\ t \in conns'[j].writers => pc'[t] \in {"writing", "closing"} /\ h'[t] = j
  BY <1>1 DEF Kept
<1>2. CASE j = k
  <2>1. conns'[j] = c
    BY <1>2 DEF Becomes
  <2> QED
    BY <1>2, <2>1
<1>3. CASE j # k
  <2>1. conns'[j] = conns[j]
    BY <1>3 DEF Becomes
  <2>2. t \notin conns[j].writers
    BY <1>3 DEF Writers
  <2> QED
    BY <1>3, <2>1, <2>2
<1> QED
  BY <1>2, <1>3

(* wsSend and wsClose begin to write: the thread joins the writers.        *)
LEMMA KeptWrite ==
  ASSUME StreamTypes, Writers, NEW t \in Threads, NEW from \in {"send", "close"},
         NEW to \in {"writing", "closing"}, BeginWrite(t, from, to)
  PROVE  Kept(t)
<1> DEFINE k == pyHandle[on[t]]
           c == [conns[k] EXCEPT !.writers = @ \cup {t}]
<1>1. k \in DOMAIN conns /\ conns[k] \in Conns
  BY DEF BeginWrite, InTable, StreamTypes
<1>2. conns' = [conns EXCEPT ![k] = c]
  BY DEF BeginWrite
<1>3. conns[k].writers \cup {t} \in SUBSET Threads
  BY <1>1 DEF Conns
<1>4. Becomes(k, c)
  BY <1>1, <1>2, <1>3, WritersUpdate, Update DEF StreamTypes
<1>5. h'[t] = k /\ pc'[t] = to /\ pc[t] = from
  BY DEF BeginWrite, PGoto, StreamTypes
<1>6. /\ c.obj = conns[k].obj /\ c.sent = conns[k].sent /\ c.closed = conns[k].closed /\ c.raced = conns[k].raced
      /\ c.writers = conns[k].writers \cup {t} /\ c.read = conns[k].read /\ c.in = conns[k].in
  BY <1>1, <1>3, WritersUpdate
<1> HIDE DEF c, k
<1> QED
  BY <1>4, <1>5, <1>6, KeptUpdate

(* wsSend has written.                                                     *)
LEMMA KeptEndSend ==
  ASSUME StreamTypes, Handles, Writers, NEW t \in Threads, EndSend(t)
  PROVE  Kept(t)
<1> DEFINE k == h[t]
           c == [conns[k] EXCEPT !.writers = @ \ {t}]
<1>1. k \in DOMAIN conns /\ conns[k] \in Conns /\ pc[t] = "writing"
  BY DEF EndSend, Handles, HasHandle, StreamTypes
<1>2. conns' = [conns EXCEPT ![k] = c]
  BY DEF EndSend
<1>3. conns[k].writers \ {t} \in SUBSET Threads
  BY <1>1 DEF Conns
<1>4. Becomes(k, c)
  BY <1>1, <1>2, <1>3, WritersUpdate, Update DEF StreamTypes
<1>5. /\ c.obj = conns[k].obj /\ c.sent = conns[k].sent /\ c.closed = conns[k].closed /\ c.raced = conns[k].raced
      /\ c.writers = conns[k].writers \ {t} /\ c.read = conns[k].read /\ c.in = conns[k].in
  BY <1>1, <1>3, WritersUpdate
<1> HIDE DEF c
<1> QED
  BY <1>1, <1>4, <1>5, KeptUpdate

(* wsClose has written, and closes the connection.                         *)
LEMMA KeptCloseConn ==
  ASSUME StreamTypes, Handles, Writers, NEW t \in Threads, CloseConn(t)
  PROVE  Kept(t)
<1> DEFINE k == h[t]
           c == [conns[k] EXCEPT !.writers = @ \ {t}, !.closed = TRUE]
<1>1. k \in DOMAIN conns /\ conns[k] \in Conns /\ pc[t] = "closing"
  BY DEF CloseConn, Handles, HasHandle, StreamTypes
<1>2. conns[k].writers \ {t} \in SUBSET Threads
  BY <1>1 DEF Conns
<1>3. /\ c.obj = conns[k].obj /\ c.sent = conns[k].sent /\ c.closed /\ c.raced = conns[k].raced
      /\ c.writers = conns[k].writers \ {t} /\ c.read = conns[k].read /\ c.in = conns[k].in
      /\ c \in Conns
  BY <1>1, <1>2, ClosedUpdate
<1>4. conns' = [conns EXCEPT ![k] = c]
  BY <1>1 DEF CloseConn, StreamTypes, Conns
<1>5. Becomes(k, c)
  BY <1>1, <1>3, <1>4, Update DEF StreamTypes
<1> HIDE DEF c
<1> QED
  BY <1>1, <1>3, <1>5, KeptUpdate

(* wsClose and sseClose take the entry out.                                *)
LEMMA KeptFree ==
  ASSUME StreamTypes, Handles, Writers, NEW t \in Threads, FreeHandle(t)
  PROVE  Kept(t)
<1> DEFINE k == h[t]
           c == [conns[k] EXCEPT !.in = FALSE]
<1>1. k \in DOMAIN conns /\ conns[k] \in Conns /\ pc[t] = "free"
  BY DEF FreeHandle, Handles, HasHandle, StreamTypes
<1>2. conns' = [conns EXCEPT ![k] = c]
  BY DEF FreeHandle
<1>3. Becomes(k, c)
  BY <1>1, <1>2, InUpdate, Update DEF StreamTypes
<1>4. /\ c.obj = conns[k].obj /\ c.sent = conns[k].sent /\ c.closed = conns[k].closed /\ c.raced = conns[k].raced
      /\ c.writers = conns[k].writers /\ c.read = conns[k].read /\ ~c.in
  BY <1>1, InUpdate
<1>5. t \notin conns[k].writers
  BY <1>1 DEF Writers
<1> HIDE DEF c
<1> QED
  BY <1>1, <1>3, <1>4, <1>5, KeptUpdate

(* wsReceive and sseNextEvent do not touch what others rely on.            *)
LEMMA KeptRead ==
  ASSUME StreamTypes, Handles, Writers, NEW t \in Threads, ReadMessage(t) \/ ReadFails(t)
  PROVE  Kept(t)
<1> DEFINE k == h[t]
           c == [conns[k] EXCEPT !.read = @ + 1]
           d == [conns[k] EXCEPT !.failed = @ + 1]
<1>1. k \in DOMAIN conns /\ conns[k] \in Conns /\ pc[t] = "reading"
  BY DEF ReadMessage, ReadFails, Handles, HasHandle, StreamTypes
<1>2. CASE ReadMessage(t)
  <2>1. Becomes(k, c)
    BY <1>1, <1>2, ReadUpdate, Update DEF ReadMessage, StreamTypes
  <2>2. /\ c.obj = conns[k].obj /\ c.sent = conns[k].sent /\ c.closed = conns[k].closed /\ c.raced = conns[k].raced
        /\ c.writers = conns[k].writers /\ c.in = conns[k].in
    BY <1>1, ReadUpdate
  <2>3. t \notin conns[k].writers
    BY <1>1 DEF Writers
  <2> HIDE DEF c
  <2> QED
    BY <1>1, <2>1, <2>2, <2>3, KeptUpdate
<1>3. CASE ReadFails(t)
  <2>1. Becomes(k, d)
    BY <1>1, <1>3, FailedUpdate, Update DEF ReadFails, StreamTypes
  <2>2. /\ d.obj = conns[k].obj /\ d.sent = conns[k].sent /\ d.closed = conns[k].closed /\ d.raced = conns[k].raced
        /\ d.writers = conns[k].writers /\ d.read = conns[k].read /\ d.in = conns[k].in
    BY <1>1, FailedUpdate
  <2>3. t \notin conns[k].writers
    BY <1>1 DEF Writers
  <2> HIDE DEF d
  <2> QED
    BY <1>1, <2>1, <2>2, <2>3, KeptUpdate
<1> QED
  BY <1>2, <1>3

(* wsReceive and sseNextEvent begin: at most, they note a race.            *)
LEMMA KeptBeginRead ==
  ASSUME StreamTypes, Writers, NEW t \in Threads, BeginRead(t)
  PROVE  Kept(t)
<1> DEFINE k == pyHandle[on[t]]
           another == \E u \in Threads \ {t} : pc[u] = "reading" /\ h[u] = k
           b == conns[k].raced \/ another
           c == [conns[k] EXCEPT !.raced = b]
<1>1. k \in DOMAIN conns /\ conns[k] \in Conns /\ pc[t] = "read"
  BY DEF BeginRead, InTable, StreamTypes
<1>2. conns' = [conns EXCEPT ![k] = c]
  BY DEF BeginRead
<1>3. b \in BOOLEAN /\ (conns[k].raced => b)
  BY <1>1 DEF Conns
<1> HIDE DEF b
<1>4. Becomes(k, c)
  BY <1>1, <1>2, <1>3, RacedUpdate, Update DEF StreamTypes
<1>5. /\ c.obj = conns[k].obj /\ c.sent = conns[k].sent /\ c.closed = conns[k].closed /\ c.raced = b
      /\ c.writers = conns[k].writers /\ c.read = conns[k].read /\ c.in = conns[k].in
  BY <1>1, <1>3, RacedUpdate
<1>6. t \notin conns[k].writers
  BY <1>1 DEF Writers
<1> HIDE DEF c, k
<1> QED
  BY <1>1, <1>3, <1>4, <1>5, <1>6, KeptUpdate

(* The method steps but the one that opens a connection.                   *)
LaterStep(t) ==
  \/ ConnectFails(t) \/ SetHandle(t) \/ SetConnected(t)
  \/ NoSuchHandle(t) \/ BeginWrite(t, "send", "writing") \/ EndSend(t)
  \/ BeginRead(t) \/ RacedRead(t) \/ ReadMessage(t) \/ ReadFails(t) \/ StreamEnds(t)
  \/ CloseNothing(t) \/ GoClose(t) \/ CloseConn(t) \/ FreeHandle(t)
  \/ ForgetHandle(t) \/ ForgetConnected(t)

(* No method step does more than Kept says.                                *)
LEMMA AllKept ==
  ASSUME StreamTypes, Handles, Writers, NEW t \in Threads, LaterStep(t)
  PROVE  Kept(t)
<1>1. CASE \/ ConnectFails(t) \/ SetHandle(t) \/ SetConnected(t) \/ NoSuchHandle(t)
           \/ RacedRead(t) \/ StreamEnds(t) \/ CloseNothing(t) \/ ForgetHandle(t)
           \/ ForgetConnected(t) \/ (GoClose(t) /\ IsSSE[on[t]])
  <2>1. UNCHANGED conns /\ pc[t] \notin {"writing", "closing", "free"}
    BY <1>1 DEF ConnectFails, SetHandle, SetConnected, NoSuchHandle, RacedRead,
      StreamEnds, CloseNothing, ForgetHandle, ForgetConnected, GoClose
  <2> QED
    BY <2>1, KeptSame
<1> QED
  BY <1>1, KeptWrite, KeptEndSend, KeptCloseConn, KeptFree, KeptRead, KeptBeginRead DEF LaterStep, GoClose

(* How a method returns: what it leaves of the object.                     *)
Returns(t) ==
  /\ pc'[t] = "idle" /\ on'[t] = None /\ UNCHANGED pyHandle
  /\ \/ /\ pc[t] \in {"connect", "send", "read", "writing", "reading"}
        /\ UNCHANGED <<connected, lapses>>
     \/ /\ pc[t] = "setconnected"
        /\ connected' = [connected EXCEPT ![on[t]] = TRUE] /\ UNCHANGED lapses
     \/ /\ pc[t] = "forgotten" \/ (pc[t] = "read" /\ ~InTable(pyHandle[on[t]]))
        /\ connected' = [connected EXCEPT ![on[t]] = FALSE] /\ UNCHANGED lapses
     \/ /\ pc[t] = "reading"
        /\ connected' = [connected EXCEPT ![on[t]] = FALSE]
        /\ lapses' = [lapses EXCEPT ![on[t]] = @ + 1]

(* How it goes on otherwise.                                               *)
Proceeds(t) ==
  /\ on'[t] = on[t] /\ UNCHANGED <<connected, lapses>>
  /\ \/ /\ pc[t] = "sethandle" /\ pc'[t] = "setconnected"
        /\ h'[t] = h[t] /\ pyHandle' = [pyHandle EXCEPT ![on[t]] = h[t]]
     \/ /\ \/ pc[t] = "send" /\ pc'[t] = "writing"
           \/ pc[t] = "read" /\ pc'[t] = "reading"
           \/ pc[t] = "close" /\ pc'[t] = "closing"
        /\ InTable(pyHandle[on[t]])
        /\ h'[t] = pyHandle[on[t]] /\ UNCHANGED pyHandle
     \/ /\ pc[t] = "close" /\ pc'[t] = "forget"
        /\ ~InTable(pyHandle[on[t]])
        /\ h'[t] = h[t] /\ UNCHANGED pyHandle
     \/ /\ \/ pc[t] = "closing" /\ pc'[t] = "free"
           \/ pc[t] = "free" /\ pc'[t] = "forget"
        /\ h'[t] = h[t] /\ UNCHANGED pyHandle
     \/ /\ pc[t] = "forget" /\ pc'[t] = "forgotten"
        /\ h'[t] = h[t] /\ pyHandle' = [pyHandle EXCEPT ![on[t]] = None]

(* A method step changes its own thread, and at most its own object.       *)
Moves(t) ==
  /\ UNCHANGED <<issued, overlap, ops>>
  /\ \A u \in Threads \ {t} : pc'[u] = pc[u] /\ on'[u] = on[u] /\ h'[u] = h[u]
  /\ Returns(t) \/ Proceeds(t)

(* Python's None is in no table.                                           *)
LEMMA NotInTable == ASSUME StreamTypes PROVE ~InTable(None)
BY StreamAssumption DEF StreamTypes, InTable

(* Each method step, by where the thread is and goes.                      *)
LEMMA AllMove ==
  ASSUME StreamTypes, Handles, NEW t \in Threads, LaterStep(t)
  PROVE  Moves(t)
<1> USE NotInTable DEF Moves, PGoto, Return, StreamTypes, cgoVars
<1>1. CASE ConnectFails(t)
  BY <1>1 DEF ConnectFails, Returns
<1>2. CASE SetHandle(t)
  BY <1>2 DEF SetHandle, Proceeds
<1>3. CASE SetConnected(t)
  BY <1>3 DEF SetConnected, Returns
<1>4. CASE NoSuchHandle(t)
  BY <1>4 DEF NoSuchHandle, Returns
<1>5. CASE BeginWrite(t, "send", "writing")
  BY <1>5 DEF BeginWrite, Proceeds
<1>6. CASE EndSend(t)
  BY <1>6 DEF EndSend, Returns
<1>7. CASE BeginRead(t)
  BY <1>7 DEF BeginRead, Proceeds
<1>8. CASE ReadMessage(t)
  BY <1>8 DEF ReadMessage, Returns
<1>9. CASE ReadFails(t)
  BY <1>9 DEF ReadFails, Returns
<1>10. CASE StreamEnds(t)
  BY <1>10 DEF StreamEnds, Returns
<1>11. CASE CloseNothing(t)
  BY <1>11 DEF CloseNothing, Proceeds
<1>12. CASE GoClose(t)
  BY <1>12 DEF GoClose, BeginWrite, Proceeds
<1>13. CASE CloseConn(t)
  BY <1>13 DEF CloseConn, Proceeds
<1>14. CASE FreeHandle(t)
  BY <1>14 DEF FreeHandle, DeleteHandle, Proceeds
<1>15. CASE ForgetHandle(t)
  BY <1>15 DEF ForgetHandle, Proceeds
<1>16. CASE ForgetConnected(t)
  BY <1>16 DEF ForgetConnected, Returns
<1>17. CASE RacedRead(t)
  BY <1>17 DEF RacedRead, Returns
<1> QED
  BY <1>1, <1>2, <1>3, <1>4, <1>5, <1>6, <1>7, <1>8, <1>9, <1>10, <1>11, <1>12,
     <1>13, <1>14, <1>15, <1>16, <1>17 DEF LaterStep

(* Threads are where the code can be, with a handle that was given out.    *)
LEMMA ThreadTypes ==
  ASSUME StreamTypes, NEW t \in Threads, LaterStep(t)
  PROVE  /\ panicked' \in BOOLEAN
         /\ pc' \in [Threads -> Labels]
         /\ on' \in [Threads -> Objects \cup {None}]
         /\ h' \in [Threads -> 0..issued]
<1> DEFINE Goal == /\ panicked' \in BOOLEAN
                   /\ pc' \in [Threads -> Labels]
                   /\ on' \in [Threads -> Objects \cup {None}]
                   /\ h' \in [Threads -> 0..issued]
<1> SUFFICES Goal OBVIOUS
<1> USE DEF StreamTypes, Labels, PGoto, cgoVars
<1>1. CASE Return(t) /\ panicked' \in BOOLEAN
  BY <1>1 DEF Return
<1>2. CASE SetHandle(t) \/ CloseNothing(t) \/ CloseConn(t) \/ ForgetHandle(t)
  BY <1>2 DEF SetHandle, CloseNothing, CloseConn, ForgetHandle
<1>3. CASE FreeHandle(t)
  BY <1>3 DEF FreeHandle, DeleteHandle
<1>4. CASE BeginWrite(t, "send", "writing") \/ BeginRead(t) \/ GoClose(t)
  <2>1. InTable(pyHandle[on[t]]) => pyHandle[on[t]] \in 0..issued
    BY DEF InTable
  <2>2. InTable(pyHandle[on[t]]) /\ h' = [h EXCEPT ![t] = pyHandle[on[t]]]
    BY <1>4 DEF BeginWrite, BeginRead, GoClose
  <2>3. h' \in [Threads -> 0..issued]
    BY <2>1, <2>2
  <2>4. panicked' \in BOOLEAN /\ on' = on /\ \E l \in Labels : pc' = [pc EXCEPT ![t] = l]
    BY <1>4 DEF BeginWrite, BeginRead, GoClose
  <2> QED
    BY <2>3, <2>4
<1>5. ReadFails(t) \/ RacedRead(t) => panicked' \in BOOLEAN
  BY DEF ReadFails, RacedRead
<1> HIDE DEF Goal
<1> QED
  BY <1>1, <1>2, <1>3, <1>4, <1>5
     DEF LaterStep, ConnectFails, SetConnected, NoSuchHandle, EndSend, ReadMessage,
         ReadFails, RacedRead, StreamEnds, ForgetConnected

(* What Append makes of a sequence.                                        *)
LEMMA AppendType ==
  ASSUME NEW S, NEW s \in Seq(S), NEW e \in S
  PROVE  /\ Append(s, e) \in Seq(S)
         /\ Len(s) \in Nat
         /\ Len(Append(s, e)) = Len(s) + 1
         /\ \A i \in 1..Len(s) : Append(s, e)[i] = s[i]
         /\ Append(s, e)[Len(s) + 1] = e
OBVIOUS

(* What a reader is given is a text.                                       *)
LEMMA GotTypes ==
  ASSUME StreamTypes, Handles, NEW t \in Threads, LaterStep(t)
  PROVE  got' \in [DOMAIN conns -> Seq(Texts)]
<1>1. CASE UNCHANGED got
  BY <1>1 DEF StreamTypes
<1>2. CASE ReadMessage(t)
  <2>1. h[t] \in DOMAIN conns /\ conns[h[t]] \in Conns
    BY <1>2 DEF ReadMessage, StreamTypes, Handles, HasHandle
  <2>2. Here(h[t]) \in Texts
    <3>1. conns[h[t]].sent \in Seq(STRING) /\ conns[h[t]].read \in Nat
      BY <2>1 DEF Conns
    <3>2. Here(h[t]) # None
      BY <1>2 DEF ReadMessage
    <3>3. Here(h[t]) \in STRING
      BY <3>1, <3>2 DEF Here
    <3> QED
      BY <3>3 DEF Texts
  <2>3. got[h[t]] \in Seq(Texts)
    BY <2>1 DEF StreamTypes
  <2>4. Append(got[h[t]], Here(h[t])) \in Seq(Texts)
    BY <2>2, <2>3, AppendType
  <2> QED
    BY <1>2, <2>1, <2>4 DEF ReadMessage, StreamTypes
<1>3. CASE ReadFails(t)
  <2>1. h[t] \in DOMAIN conns
    BY <1>3 DEF ReadFails, StreamTypes, Handles, HasHandle
  <2>2. Append(got[h[t]], Nothing) \in Seq(Texts)
    <3>1. got[h[t]] \in Seq(Texts) /\ Nothing \in Texts
      BY <2>1 DEF StreamTypes, Texts
    <3> QED
      BY <3>1, AppendType
  <2>3. got' = [got EXCEPT ![h[t]] = Append(got[h[t]], Nothing)]
    BY <1>3, Zenon DEF ReadFails, Nothing
  <2> QED
    BY <2>1, <2>2, <2>3 DEF StreamTypes
<1>4. CASE RacedRead(t)
  <2>1. h[t] \in DOMAIN conns
    BY <1>4 DEF RacedRead, StreamTypes, Handles, HasHandle
  <2>2. got[h[t]] \in Seq(Texts) /\ Torn \in Texts
    BY <2>1 DEF StreamTypes, Texts
  <2>3. Append(got[h[t]], Torn) \in Seq(Texts)
    BY <2>2, AppendType
  <2>4. UNCHANGED got \/ got' = [got EXCEPT ![h[t]] = Append(got[h[t]], Torn)]
    BY <1>4, Zenon DEF RacedRead, Torn
  <2> QED
    BY <1>1, <2>1, <2>3, <2>4 DEF StreamTypes
<1> QED
  BY <1>1, <1>2, <1>3, <1>4
     DEF LaterStep, ConnectFails, SetHandle, SetConnected, NoSuchHandle, BeginWrite, EndSend,
         BeginRead, StreamEnds, CloseNothing, GoClose, CloseConn, FreeHandle, ForgetHandle,
         ForgetConnected

(* _connected is a flag.                                                   *)
LEMMA SetFlag ==
  ASSUME NEW S, NEW f \in [S -> BOOLEAN], NEW x, NEW b \in BOOLEAN
  PROVE  [f EXCEPT ![x] = b] \in [S -> BOOLEAN]
OBVIOUS

(* The types hold after every step of a method.                            *)
LEMMA TypesLater ==
  ASSUME StreamTypes, Handles, Writers, NEW t \in Threads, LaterStep(t)
  PROVE  StreamTypes'
<1>1. Moves(t) /\ Kept(t)
  BY AllMove, AllKept
<1>2. pyHandle' \in [Objects -> 1..issued \cup {None}]
  <2>1. \/ UNCHANGED pyHandle
        \/ pc[t] = "sethandle" /\ pyHandle' = [pyHandle EXCEPT ![on[t]] = h[t]]
        \/ pyHandle' = [pyHandle EXCEPT ![on[t]] = None]
    BY <1>1 DEF Moves, Returns, Proceeds
  <2>2. pc[t] = "sethandle" => h[t] \in 1..issued
    BY DEF StreamTypes, Handles, HasHandle
  <2> QED
    BY <2>1, <2>2 DEF StreamTypes
<1>3. connected' \in [Objects -> BOOLEAN] /\ lapses' \in [Objects -> Nat]
  <2>1. \/ UNCHANGED connected
        \/ connected' = [connected EXCEPT ![on[t]] = TRUE]
        \/ connected' = [connected EXCEPT ![on[t]] = FALSE]
    BY <1>1 DEF Moves, Returns, Proceeds
  <2>2. UNCHANGED lapses \/ (on[t] \in Objects /\ lapses' = [lapses EXCEPT ![on[t]] = @ + 1])
    BY <1>1 DEF Moves, Returns, Proceeds, Handles
  <2>3. lapses' \in [Objects -> Nat]
    BY <2>2 DEF StreamTypes
  <2>4. connected \in [Objects -> BOOLEAN]
    BY DEF StreamTypes
  <2>5. connected' \in [Objects -> BOOLEAN]
    <3>1. CASE UNCHANGED connected
      BY <2>4, <3>1
    <3>2. CASE connected' = [connected EXCEPT ![on[t]] = TRUE]
      BY <2>4, <3>2, SetFlag, Zenon
    <3>3. CASE connected' = [connected EXCEPT ![on[t]] = FALSE]
      BY <2>4, <3>3, SetFlag, Zenon
    <3> QED
      BY <2>1, <3>1, <3>2, <3>3
  <2> QED
    BY <2>3, <2>5
<1> QED
  BY <1>1, <1>2, <1>3, ThreadTypes, GotTypes DEF Moves, Kept, StreamTypes

(* Each handle goes with its object.                                       *)
LEMMA HandlesLater ==
  ASSUME StreamTypes, Handles, Writers, NEW t \in Threads, LaterStep(t), UNCHANGED results
  PROVE  Handles'
<1>1. Moves(t) /\ Kept(t) /\ StreamTypes'
  BY AllMove, AllKept, TypesLater
<1>2. \A u \in Threads : pc'[u] # "idle" => on'[u] \in Objects
  BY <1>1 DEF Moves, Returns, Proceeds, Handles
<1>3. \A u \in Threads : pc'[u] \in HasHandle =>
        h'[u] \in DOMAIN conns' /\ conns'[h'[u]].obj = on'[u]
  <2> SUFFICES ASSUME NEW u \in Threads, pc'[u] \in HasHandle
               PROVE  h'[u] \in DOMAIN conns /\ conns[h'[u]].obj = on'[u]
    BY <1>1 DEF Kept
  <2>1. CASE u # t
    BY <1>1, <2>1 DEF Moves, Handles
  <2>2. CASE u = t
    BY <1>1, <2>2, NotInTable DEF Moves, Returns, Proceeds, Handles, HasHandle
  <2> QED
    BY <2>1, <2>2
<1>4. \A o \in Objects : pyHandle'[o] # None =>
        pyHandle'[o] \in DOMAIN conns' /\ conns'[pyHandle'[o]].obj = o
  <2> SUFFICES ASSUME NEW o \in Objects, pyHandle'[o] # None
               PROVE  pyHandle'[o] \in DOMAIN conns /\ conns[pyHandle'[o]].obj = o
    BY <1>1 DEF Kept
  <2>1. pyHandle'[o] = pyHandle[o] \/ (pc[t] = "sethandle" /\ on[t] = o /\ pyHandle'[o] = h[t])
    BY <1>1 DEF Moves, Returns, Proceeds, StreamTypes
  <2> QED
    BY <2>1 DEF Handles, HasHandle
<1>5. \A k \in DOMAIN conns' : conns'[k].in => k \in valid'
  <2>1. valid' = valid \/ (pc[t] = "free" /\ valid' = valid \ {h[t]})
    BY DEF LaterStep, ConnectFails, SetHandle, SetConnected, NoSuchHandle, BeginWrite, EndSend,
         BeginRead, RacedRead, ReadMessage, ReadFails, StreamEnds, CloseNothing, GoClose, CloseConn,
         FreeHandle, DeleteHandle, ForgetHandle, ForgetConnected, cgoVars
  <2> QED
    BY <1>1, <2>1 DEF Kept, Handles
<1>6. DOMAIN results' \cap DOMAIN conns' = {}
  BY <1>1 DEF Kept, Handles
<1> QED
  BY <1>2, <1>3, <1>4, <1>5, <1>6 DEF Handles

(* Only a thread that begins to write joins the writers.                   *)
LEMMA WritersLater ==
  ASSUME StreamTypes, Handles, Writers, NEW t \in Threads, LaterStep(t)
  PROVE  Writers'
<1>1. Moves(t) /\ Kept(t)
  BY AllMove, AllKept
<1> SUFFICES ASSUME NEW k \in DOMAIN conns, NEW u \in conns'[k].writers
             PROVE  pc'[u] \in {"writing", "closing"} /\ h'[u] = k
  BY <1>1 DEF Kept, Writers
<1>2. u \in Threads
  BY <1>1 DEF Kept, Conns
<1>3. CASE u = t
  BY <1>1, <1>3 DEF Kept
<1>4. CASE u # t
  <2>1. u \in conns[k].writers
    BY <1>1, <1>4 DEF Kept
  <2> QED
    BY <1>1, <1>2, <1>4, <2>1 DEF Moves, Writers
<1> QED
  BY <1>3, <1>4

(* No method step makes a thread busy, and only a thread that connects     *)
(* sets _connected.                                                        *)
LEMMA OverlapsLater ==
  ASSUME StreamTypes, Handles, Writers, Overlaps, NEW t \in Threads, LaterStep(t)
  PROVE  Overlaps'
<1>1. Moves(t)
  BY AllMove
<1>2. pc'[t] \in Busy => pc[t] \in Busy /\ on'[t] = on[t]
  BY <1>1 DEF Moves, Returns, Proceeds, Busy, Connecting, Writing
<1>3. pc'[t] \in Connecting => pc[t] \in Connecting
  BY <1>1 DEF Moves, Returns, Proceeds, Connecting
<1>4. \A u, v \in Threads :
       u # v /\ on'[u] = on'[v] /\ pc'[u] \in Busy /\ pc'[v] \in Busy => on'[u] \in overlap'
  BY <1>1, <1>2 DEF Moves, Overlaps
<1>5. ASSUME NEW u \in Threads, pc'[u] \in Connecting, on'[u] \notin overlap'
      PROVE  ~connected'[on'[u]]
  <2>1. /\ pc[u] \in Connecting /\ pc[u] \in Busy
        /\ on'[u] = on[u] /\ on[u] \in Objects /\ on[u] \notin overlap
    BY <1>1, <1>2, <1>3, <1>5 DEF Moves, Busy, Connecting, Handles
  <2>2. ~connected[on[u]]
    BY <2>1 DEF Overlaps
  <2>3. CASE pc[t] = "setconnected" /\ pc'[t] = "idle" /\ on[t] = on[u]
    <3>1. t # u
      BY <2>3, <1>5 DEF Connecting
    <3>2. pc[t] \in Busy
      BY <2>3 DEF Busy, Connecting
    <3> QED
      BY <2>3, <3>1, <3>2, <2>1 DEF Overlaps
  <2>4. CASE ~(pc[t] = "setconnected" /\ pc'[t] = "idle" /\ on[t] = on[u])
    BY <1>1, <2>1, <2>2, <2>4 DEF Moves, Returns, Proceeds, StreamTypes
  <2> QED
    BY <2>3, <2>4
<1> QED
  BY <1>4, <1>5 DEF Overlaps

(* What was read so far only depends on the entry and on what was got.     *)
LEMMA ReadSame ==
  ASSUME NEW k, ReadSoFar(k), got'[k] = got[k],
         conns'[k].sent = conns[k].sent, conns'[k].read = conns[k].read,
         conns[k].closed => conns'[k].closed, conns[k].raced => conns'[k].raced
  PROVE  ReadSoFar(k)'
BY DEF ReadSoFar, Follows

(* A message is got when everything before it was, and no empty text.      *)
LEMMA FollowsMessage ==
  ASSUME NEW g \in Seq(Texts), NEW stream \in Seq(STRING), NEW n \in Nat, NEW over \in BOOLEAN,
         Follows(g, stream, n, over), n < Len(stream), ~over, stream[n + 1] # "end"
  PROVE  Follows(Append(g, stream[n + 1]), stream, n + 1, over)
<1> DEFINE a == Append(g, stream[n + 1])
<1>1. Len(g) \in Nat /\ Len(stream) \in Nat
  OBVIOUS
<1>2. Len(g) = n
  BY <1>1 DEF Follows
<1>3. stream[n + 1] \in Texts
  <2>1. n + 1 \in 1..Len(stream)
    BY <1>1
  <2>2. stream[n + 1] \in STRING
    BY <2>1
  <2> QED
    BY <2>2 DEF Texts
<1>4. /\ Len(a) = n + 1
      /\ \A i \in 1..n : a[i] = g[i]
      /\ a[n + 1] = stream[n + 1]
  BY <1>2, <1>3, AppendType
<1> HIDE DEF a
<1>5. \A i \in 1..n : g[i] = stream[i]
  BY DEF Follows
<1>6. \A i \in 1..(n + 1) : a[i] = stream[i]
  BY <1>4, <1>5
<1>7. Follows(a, stream, n + 1, over)
  BY <1>1, <1>4, <1>6 DEF Follows
<1> QED
  BY <1>7 DEF a

(* An empty text follows the end, or close().                              *)
LEMMA FollowsNothing ==
  ASSUME NEW g \in Seq(Texts), NEW stream \in Seq(STRING), NEW n \in Nat, NEW over \in BOOLEAN,
         Follows(g, stream, n, over),
         over \/ (IF n < Len(stream) THEN stream[n + 1] ELSE None) = "end"
  PROVE  Follows(Append(g, Nothing), stream, n, over)
<1> DEFINE a == Append(g, Nothing)
<1>1. Nothing \in Texts
  BY DEF Texts
<1>2. /\ Len(g) \in Nat
      /\ Len(a) = Len(g) + 1
      /\ \A i \in 1..Len(g) : a[i] = g[i]
      /\ a[Len(g) + 1] = Nothing
  BY <1>1, AppendType
<1> HIDE DEF a
<1>3. /\ n <= Len(a)
      /\ \A i \in 1..n : a[i] = stream[i]
      /\ \A i \in (n + 1)..Len(a) : a[i] = Nothing
  BY <1>2 DEF Follows
<1>4. Follows(a, stream, n, over)
  BY <1>3 DEF Follows
<1> QED
  BY <1>4 DEF a

(* The two ways a WebSocket or an event stream is read.                    *)
LEMMA ReadOne ==
  ASSUME StreamTypes, Handles, AllRead, NEW t \in Threads, ReadMessage(t) \/ ReadFails(t),
         NEW k, k = h[t]
  PROVE  ReadSoFar(k)'
<1> DEFINE g == got[k]
           s == conns[k].sent
           n == conns[k].read
           over == conns[k].closed
<1>1. k \in DOMAIN conns /\ conns[k] \in Conns
  BY DEF ReadMessage, ReadFails, Handles, HasHandle, StreamTypes
<1>2. g \in Seq(Texts) /\ s \in Seq(STRING) /\ n \in Nat /\ over \in BOOLEAN
  BY <1>1 DEF StreamTypes, Conns
<1>3. Follows(g, s, n, over)
  BY <1>1 DEF AllRead, ReadSoFar, ReadMessage, ReadFails
<1>4. k \in DOMAIN got
  BY <1>1 DEF StreamTypes
<1>5. CASE ReadMessage(t)
  <2>1. n < Len(s) /\ ~over /\ s[n + 1] # "end" /\ Here(k) = s[n + 1]
    BY <1>5 DEF ReadMessage, Here
  <2>2. conns'[k].sent = s /\ conns'[k].read = n + 1 /\ conns'[k].closed = over
    <3>1. conns'[k] = [conns[k] EXCEPT !.read = @ + 1]
      BY <1>1, <1>5 DEF ReadMessage
    <3> QED
      BY <1>1, <3>1, ReadUpdate
  <2>3. got'[k] = Append(g, s[n + 1])
    BY <1>4, <1>5, <2>1 DEF ReadMessage
  <2>4. Follows(Append(g, s[n + 1]), s, n + 1, over)
    BY <1>2, <1>3, <2>1, FollowsMessage
  <2> QED
    BY <1>2, <2>1, <2>2, <2>3, <2>4 DEF ReadSoFar
<1>6. CASE ReadFails(t)
  <2>1. over \/ (IF n < Len(s) THEN s[n + 1] ELSE None) = "end"
    BY <1>6 DEF ReadFails, Here
  <2>2. conns'[k].sent = s /\ conns'[k].read = n /\ conns'[k].closed = over
    <3>1. conns'[k] = [conns[k] EXCEPT !.failed = @ + 1]
      BY <1>1, <1>6 DEF ReadFails
    <3> QED
      BY <1>1, <3>1, FailedUpdate
  <2>3. got'[k] = Append(g, Nothing)
    BY <1>4, <1>6, Zenon DEF ReadFails, Nothing
  <2>4. Follows(Append(g, Nothing), s, n, over)
    BY <1>2, <1>3, <2>1, FollowsNothing
  <2> QED
    BY <1>2, <1>3, <2>2, <2>3, <2>4 DEF ReadSoFar, Follows
<1> QED
  BY <1>5, <1>6

(* What was read so far stays what the server sent, after every step.      *)
LEMMA ReadsLater ==
  ASSUME StreamTypes, Handles, Writers, AllRead, NEW t \in Threads, LaterStep(t)
  PROVE  AllRead'
<1>1. Kept(t)
  BY AllKept
<1> SUFFICES ASSUME NEW k \in DOMAIN conns PROVE ReadSoFar(k)'
  BY <1>1 DEF AllRead, Kept
<1>2. ReadSoFar(k)
  BY DEF AllRead
<1>3. CASE ReadMessage(t) \/ ReadFails(t)
  <2>1. CASE k = h[t]
    BY <1>3, <2>1, ReadOne
  <2>2. CASE k # h[t]
    <3>1. got'[k] = got[k]
      BY <1>3, <2>2 DEF ReadMessage, ReadFails, StreamTypes
    <3> QED
      BY <1>1, <1>2, <2>2, <3>1, ReadSame DEF Kept
  <2> QED
    BY <2>1, <2>2
<1>4. CASE RacedRead(t)
  <2>1. conns' = conns
    BY <1>4 DEF RacedRead
  <2>2. CASE k = h[t]
    BY <1>2, <1>4, <2>1, <2>2 DEF RacedRead, ReadSoFar
  <2>3. CASE k # h[t]
    <3>1. got'[k] = got[k]
      BY <1>4, <2>3 DEF RacedRead, StreamTypes
    <3> QED
      BY <1>2, <2>1, <3>1, ReadSame
  <2> QED
    BY <2>2, <2>3
<1>5. CASE ~(ReadMessage(t) \/ ReadFails(t) \/ RacedRead(t))
  <2>1. got' = got
    BY <1>5 DEF LaterStep, ConnectFails, SetHandle, SetConnected, NoSuchHandle, BeginWrite,
      EndSend, BeginRead, StreamEnds, CloseNothing, GoClose, CloseConn, FreeHandle,
      ForgetHandle, ForgetConnected
  <2>2. pc[t] # "reading" \/ conns' = conns
    BY <1>5 DEF LaterStep, ConnectFails, SetHandle, SetConnected, NoSuchHandle, BeginWrite,
      EndSend, BeginRead, StreamEnds, CloseNothing, GoClose, CloseConn, FreeHandle,
      ForgetHandle, ForgetConnected
  <2> QED
    BY <1>1, <1>2, <2>1, <2>2, ReadSame DEF Kept
<1> QED
  BY <1>3, <1>4, <1>5

(* Of two threads busy with an object that no calls overlapped on, one     *)
(* is the other.                                                           *)
LEMMA OneBusy ==
  ASSUME Overlaps, NEW t \in Threads, NEW u \in Threads, on[t] = on[u],
         pc[t] \in Busy, pc[u] \in Busy, on[t] \notin overlap
  PROVE  t = u
BY DEF Overlaps

(* No step of another thread takes a connection from the one that owns it: *)
(* that thread would be busy with the same object.                         *)
LEMMA KeepsLater ==
  ASSUME StreamTypes, Handles, Writers, Overlaps, OneOwner, NEW t \in Threads, LaterStep(t),
         NEW u \in Threads
  PROVE  Keeps(u)'
<1>1. Moves(t) /\ Kept(t)
  BY AllMove, AllKept
<1> SUFFICES ASSUME on'[u] \notin overlap'
             PROVE  /\ pc'[u] \in {"sethandle", "setconnected", "closing", "free"} => InTable(h[u])'
                    /\ pc'[u] \in {"setconnected", "closing", "free"} => pyHandle'[on'[u]] = h'[u]
                    /\ pc'[u] = "forget" => ~InTable(pyHandle[on[u]])'
                    /\ pc'[u] = "forgotten" => pyHandle'[on'[u]] = None
  BY DEF Keeps
<1>2. \A k : InTable(k) /\ ~(pc[t] = "free" /\ k = h[t]) => InTable(k)'
  BY <1>1 DEF Kept, InTable
<1>3. \A k : InTable(k)' => InTable(k) /\ ~(pc[t] = "free" /\ k = h[t])
  BY <1>1 DEF Kept, InTable
<1>4. Keeps(u) /\ Keeps(t)
  BY DEF OneOwner
<1>5. CASE u # t
  <2>1. pc'[u] = pc[u] /\ on'[u] = on[u] /\ h'[u] = h[u] /\ on[u] \notin overlap
    BY <1>1, <1>5 DEF Moves
  <2>2. ASSUME pc[u] \in Busy, on[t] = on[u] PROVE pc[t] \notin Busy
    BY <1>5, <2>1, <2>2, OneBusy
  <2>3. ASSUME pc[u] \in Busy PROVE pyHandle'[on[u]] = pyHandle[on[u]]
    <3>1. on[u] \in Objects
      BY <2>3 DEF Handles, Busy, Connecting, Writing
    <3>2. CASE on[t] = on[u]
      BY <1>1, <2>2, <2>3, <3>2 DEF Moves, Returns, Proceeds, Busy, Connecting, Writing
    <3>3. CASE on[t] # on[u]
      BY <1>1, <3>1, <3>3 DEF Moves, Returns, Proceeds, StreamTypes
    <3> QED
      BY <3>2, <3>3
  <2>4. ASSUME pc[u] \in {"sethandle", "setconnected", "closing", "free"} PROVE InTable(h[u])'
    <3>1. InTable(h[u])
      BY <1>4, <2>1, <2>4 DEF Keeps
    <3>2. ~(pc[t] = "free" /\ h[u] = h[t])
      BY <2>2, <2>4 DEF Handles, HasHandle, Busy, Connecting, Writing
    <3>3. \A k : k = h'[u] => InTable(k)'
      BY <1>2, <2>1, <3>1, <3>2
    <3> QED
      BY <3>3 DEF InTable
  <2>5. ASSUME pc[u] = "forget" PROVE ~InTable(pyHandle[on[u]])'
    <3>1. ~InTable(pyHandle[on[u]]) /\ pyHandle'[on'[u]] = pyHandle[on[u]]
      BY <1>4, <2>1, <2>3, <2>5 DEF Keeps, Busy, Writing
    <3> QED
      BY <1>3, <3>1 DEF InTable
  <2> QED
    BY <1>4, <2>1, <2>3, <2>4, <2>5 DEF Keeps, Busy, Connecting, Writing
<1>6. CASE u = t
  <2>1. pc'[t] \in Busy => /\ on'[t] = on[t] /\ on[t] \in Objects
                           /\ on[t] \notin overlap /\ overlap' = overlap
    BY <1>1, <1>6 DEF Moves, Returns, Proceeds, Busy, Connecting, Writing, Handles
  <2>2. pc'[t] = "setconnected" => /\ InTable(h[t]) /\ pc[t] = "sethandle"
                                   /\ h'[t] = h[t] /\ pyHandle'[on[t]] = h[t]
    BY <1>1, <1>4, <2>1 DEF Moves, Returns, Proceeds, Keeps, Busy, Connecting, StreamTypes
  <2>3. pc'[t] = "closing" => /\ InTable(pyHandle[on[t]]) /\ pc[t] = "close"
                              /\ h'[t] = pyHandle[on[t]] /\ pyHandle' = pyHandle
    BY <1>1 DEF Moves, Returns, Proceeds
  <2>4. pc'[t] = "free" => /\ InTable(h[t]) /\ pc[t] = "closing" /\ h'[t] = h[t]
                           /\ pyHandle' = pyHandle /\ pyHandle[on[t]] = h[t]
    BY <1>1, <1>4, <2>1 DEF Moves, Returns, Proceeds, Keeps, Busy, Writing
  <2>5. pc'[t] = "forget" => /\ pyHandle' = pyHandle
                             /\ \/ pc[t] = "free" /\ pyHandle[on[t]] = h[t]
                                \/ ~InTable(pyHandle[on[t]])
    BY <1>1, <1>4, <2>1 DEF Moves, Returns, Proceeds, Keeps, Busy, Writing
  <2>6. pc'[t] = "forgotten" => pyHandle'[on[t]] = None
    BY <1>1, <2>1 DEF Moves, Returns, Proceeds, Busy, Writing, StreamTypes
  <2>7. pc'[t] # "sethandle"
    BY <1>1 DEF Moves, Returns, Proceeds
  <2>8. pc'[t] \in {"setconnected", "closing", "free"} => InTable(h[t])'
    BY <1>2, <2>2, <2>3, <2>4 DEF InTable
  <2>9. pc'[t] = "forget" => ~InTable(pyHandle[on[t]])'
    BY <1>3, <2>1, <2>5 DEF InTable, Busy, Writing
  <2> QED
    BY <1>6, <2>1, <2>2, <2>3, <2>4, <2>6, <2>7, <2>8, <2>9 DEF Busy, Connecting, Writing
<1> QED
  BY <1>5, <1>6

(* A connected object keeps referring to an entry, or is being closed.     *)
LEMMA RefersLater ==
  ASSUME StreamTypes, Handles, Writers, Overlaps, OneOwner, NEW t \in Threads, LaterStep(t),
         NEW o \in Objects
  PROVE  Refers(o)'
<1>1. Moves(t) /\ Kept(t)
  BY AllMove, AllKept
<1> SUFFICES ASSUME o \notin overlap, connected'[o]
             PROVE  \/ InTable(pyHandle[o])'
                    \/ \E u \in Threads : on'[u] = o /\ pc'[u] \in {"forget", "forgotten"}
  BY <1>1 DEF Refers, Moves
<1>2. \A k : InTable(k) /\ ~(pc[t] = "free" /\ k = h[t]) => InTable(k)'
  BY <1>1 DEF Kept, InTable
<1>3. Keeps(t) /\ Refers(o)
  BY DEF OneOwner
<1>4. CASE ~connected[o]
  <2>1. on[t] = o /\ pc[t] = "setconnected" /\ pyHandle' = pyHandle
    BY <1>1, <1>4 DEF Moves, Returns, Proceeds, StreamTypes
  <2>2. InTable(pyHandle[o])
    BY <1>3, <2>1 DEF Keeps
  <2> QED
    BY <1>2, <2>1, <2>2 DEF InTable
<1>5. CASE connected[o] /\ InTable(pyHandle[o])
  <2>1. CASE pc[t] = "free" /\ pyHandle[o] = h[t]
    <3>1. on[t] = o /\ on'[t] = o /\ pc'[t] = "forget"
      BY <1>1, <2>1, <1>5, NotInTable DEF Moves, Returns, Proceeds, Handles, HasHandle
    <3> QED
      BY <3>1
  <2>2. CASE pyHandle'[o] # pyHandle[o]
    <3>1. on[t] = o /\ pc[t] \in {"sethandle", "forget"}
      BY <1>1, <2>2 DEF Moves, Returns, Proceeds, StreamTypes
    <3>2. pc[t] # "sethandle"
      BY <1>5, <3>1 DEF Overlaps, Connecting
    <3>3. on'[t] = o /\ pc'[t] = "forgotten"
      BY <1>1, <3>1, <3>2, <2>2 DEF Moves, Returns, Proceeds
    <3> QED
      BY <3>3
  <2>3. CASE pyHandle'[o] = pyHandle[o] /\ ~(pc[t] = "free" /\ pyHandle[o] = h[t])
    BY <1>2, <1>5, <2>3 DEF InTable
  <2> QED
    BY <2>1, <2>2, <2>3
<1>6. ASSUME connected[o], NEW u \in Threads, on[u] = o, pc[u] \in {"forget", "forgotten"}
      PROVE  on'[u] = o /\ pc'[u] \in {"forget", "forgotten"}
  <2>1. CASE u # t
    BY <1>1, <1>6, <2>1 DEF Moves
  <2>2. CASE u = t
    <3>1. Proceeds(t)
      BY <1>1, <1>6, <2>2 DEF Moves, Returns, StreamTypes
    <3> QED
      BY <1>6, <2>2, <3>1 DEF Proceeds
  <2> QED
    BY <2>1, <2>2
<1> QED
  BY <1>3, <1>4, <1>5, <1>6 DEF Refers

(* Go panics only if calls overlapped, or a failed WebSocket is read on.   *)
LEMMA PanicLater ==
  ASSUME StreamTypes, Handles, Writers, Overlaps, OneOwner, NEW t \in Threads, LaterStep(t),
         ~panicked
  PROVE  PanicNeedsMisuse'
<1> SUFFICES ASSUME panicked'
             PROVE  \/ overlap' # {}
                    \/ \E k \in DOMAIN conns' : conns'[k].raced \/ conns'[k].failed > MaxFailedReads
  BY DEF PanicNeedsMisuse
<1>0. Moves(t)
  BY AllMove
<1>1. ASSUME NEW from \in {"send", "close"}, NEW to, BeginWrite(t, from, to)
      PROVE  overlap # {}
  <2> DEFINE k == pyHandle[on[t]]
  <2>1. k # None /\ k \in DOMAIN conns /\ conns[k].writers # {} /\ pc[t] = from
    BY <1>1 DEF BeginWrite, InTable
  <2>2. PICK u \in conns[k].writers : TRUE
    BY <2>1
  <2>3. u \in Threads /\ pc[u] \in {"writing", "closing"} /\ h[u] = k
    BY <2>1, <2>2 DEF Writers, StreamTypes, Conns
  <2>4. conns[k].obj = on[u]
    BY <2>3 DEF Handles, HasHandle
  <2>5. on[t] \in Objects
    BY <2>1 DEF Handles
  <2>6. conns[k].obj = on[t]
    BY <2>1, <2>5 DEF Handles
  <2>7. t # u /\ pc[t] \in Busy /\ pc[u] \in Busy
    BY <2>1, <2>3 DEF Busy, Writing
  <2> QED
    BY <2>3, <2>4, <2>6, <2>7 DEF Overlaps
<1>2. ASSUME FreeHandle(t) PROVE overlap # {}
  <2>1. pc[t] = "free" /\ h[t] \notin valid
    BY <1>2 DEF FreeHandle, DeleteHandle
  <2>2. Keeps(t)
    BY DEF OneOwner
  <2> QED
    BY <2>1, <2>2 DEF Keeps, InTable, Handles
<1>3. ASSUME ReadFails(t) PROVE \E k \in DOMAIN conns' : conns'[k].failed > MaxFailedReads
  <2> DEFINE k == h[t]
  <2>1. k \in DOMAIN conns /\ conns[k] \in Conns
    BY <1>3 DEF ReadFails, Handles, HasHandle, StreamTypes
  <2>2. conns[k].failed >= MaxFailedReads
    BY <1>3 DEF ReadFails
  <2>3. conns'[k].failed = conns[k].failed + 1 /\ DOMAIN conns' = DOMAIN conns
    BY <1>3, <2>1, FailedUpdate DEF ReadFails, StreamTypes
  <2>4. conns[k].failed \in Nat
    BY <2>1 DEF Conns
  <2>5. conns'[k].failed > MaxFailedReads
    BY <2>2, <2>3, <2>4, StreamAssumption
  <2> QED
    BY <2>1, <2>3, <2>5
<1>4. CASE UNCHANGED panicked
  BY <1>4
<1>5. ASSUME RacedRead(t) PROVE \E k \in DOMAIN conns' : conns'[k].raced
  <2>1. h[t] \in DOMAIN conns /\ conns[h[t]].raced /\ conns' = conns
    BY <1>5 DEF RacedRead, Handles, HasHandle
  <2> QED
    BY <2>1
<1> QED
  <2>1. CASE BeginWrite(t, "send", "writing") \/ GoClose(t)
    BY <1>0, <1>1, <1>4, <2>1 DEF GoClose, cgoVars, Moves
  <2>2. CASE ReadFails(t)
    BY <1>3, <2>2
  <2>3. CASE FreeHandle(t)
    BY <1>0, <1>2, <2>3 DEF Moves
  <2>4. CASE RacedRead(t)
    BY <1>5, <2>4
  <2> QED
    BY <2>1, <2>2, <2>3, <2>4, <1>4
       DEF LaterStep, ConnectFails, SetHandle, SetConnected, NoSuchHandle, EndSend, BeginRead,
           ReadMessage, StreamEnds, CloseNothing, CloseConn, ForgetHandle, ForgetConnected, cgoVars

(* Nothing is lost sight of by a step, but the connection of a stream that *)
(* ends.                                                                   *)
LEMMA StrayStep ==
  ASSUME StreamTypes, Handles, Writers, Overlaps, OneOwner, NEW t \in Threads, LaterStep(t),
         NEW o \in Objects \ overlap, NEW k \in Stray(o)', k \notin Stray(o)
  PROVE  /\ k = pyHandle[o]
         /\ lapses'[o] = lapses[o] + 1
<1>1. Moves(t) /\ Kept(t)
  BY AllMove, AllKept
<1>2. k \in DOMAIN conns /\ conns[k].obj = o /\ conns'[k].in /\ k \notin Accounted(o)'
  BY <1>1 DEF Stray, Left, Kept
<1>3. conns[k].in /\ ~(pc[t] = "free" /\ k = h[t]) /\ InTable(k) /\ k # None
  BY <1>1, <1>2, StreamAssumption DEF Kept, InTable, StreamTypes
<1>4. k \in Accounted(o)
  BY <1>2, <1>3 DEF Stray, Left
<1>5. Keeps(t)
  BY DEF OneOwner
<1>6. /\ connected'[o] => k # pyHandle'[o]
      /\ \A u \in Threads :
           on'[u] = o /\ pc'[u] \in {"sethandle", "setconnected", "closing", "free"} => k # h'[u]
  BY <1>2 DEF Accounted, Holders
<1>7. ASSUME NEW u \in Holders(o), k = h[u] PROVE FALSE
  <2>1. u \in Threads /\ on[u] = o /\ pc[u] \in {"sethandle", "setconnected", "closing", "free"}
    BY DEF Holders
  <2>2. CASE u # t
    BY <1>1, <1>6, <1>7, <2>1, <2>2 DEF Moves
  <2>3. CASE u = t /\ pc[t] = "setconnected"
    <3>1. connected'[o] /\ pyHandle' = pyHandle
      BY <1>1, <2>1, <2>3 DEF Moves, Returns, Proceeds, StreamTypes
    <3>2. pyHandle[o] = h[t]
      BY <1>5, <2>1, <2>3 DEF Keeps
    <3> QED
      BY <1>6, <1>7, <2>3, <3>1, <3>2
  <2>4. CASE u = t /\ pc[t] # "setconnected"
    BY <1>1, <1>3, <1>6, <1>7, <2>1, <2>4 DEF Moves, Returns, Proceeds
  <2> QED
    BY <2>2, <2>3, <2>4
<1>8. connected[o] /\ k = pyHandle[o]
  BY <1>4, <1>7 DEF Accounted
<1>9. ~(on[t] = o /\ pc[t] \in {"sethandle", "forget", "forgotten"})
  <2>1. ~(on[t] = o /\ pc[t] = "sethandle")
    BY <1>8 DEF Overlaps, Connecting
  <2> QED
    BY <1>3, <1>5, <1>8, <2>1 DEF Keeps
<1>10. pyHandle'[o] = pyHandle[o]
  BY <1>1, <1>9 DEF Moves, Returns, Proceeds, StreamTypes
<1>11. ~connected'[o]
  BY <1>6, <1>8, <1>10
<1>12. lapses'[o] = lapses[o] + 1
  <2>1. connected' # connected
    BY <1>8, <1>11
  <2>2. Returns(t)
    BY <1>1, <2>1 DEF Moves, Proceeds
  <2>3. connected' = [connected EXCEPT ![on[t]] = FALSE] /\ on[t] = o
    BY <1>8, <1>11, <2>1, <2>2 DEF Returns, StreamTypes
  <2>4. ~(pc[t] = "read" /\ ~InTable(pyHandle[on[t]]))
    BY <1>3, <1>8, <2>3
  <2>5. lapses' = [lapses EXCEPT ![on[t]] = @ + 1]
    BY <1>8, <1>9, <1>11, <2>1, <2>2, <2>3, <2>4 DEF Returns, StreamTypes
  <2> QED
    BY <2>3, <2>5 DEF StreamTypes
<1> QED
  BY <1>8, <1>12

(* So what is left behind grows by one at most, and is counted then.       *)
LEMMA StrayLater ==
  ASSUME StreamTypes, Handles, Writers, Overlaps, OneOwner, StrayCounted,
         NEW t \in Threads, LaterStep(t)
  PROVE  StrayCounted'
<1>1. Moves(t) /\ StreamTypes'
  BY AllMove, TypesLater
<1> SUFFICES ASSUME NEW o \in Objects \ overlap
             PROVE  IsFiniteSet(Stray(o)') /\ Cardinality(Stray(o)') <= lapses'[o]
  BY <1>1 DEF StrayCounted, Moves
<1>2. IsFiniteSet(Stray(o)) /\ Cardinality(Stray(o)) <= lapses[o] /\ lapses[o] \in Nat
  BY DEF StrayCounted, StreamTypes
<1>3. Cardinality(Stray(o)) \in Nat
  BY <1>2, FS_CardinalityType
<1>4. lapses'[o] \in Nat /\ lapses'[o] >= lapses[o]
  <2>1. lapses' = lapses \/ lapses' = [lapses EXCEPT ![on[t]] = @ + 1]
    BY <1>1 DEF Moves, Returns, Proceeds
  <2> QED
    BY <1>2, <2>1 DEF StreamTypes
<1>5. CASE Stray(o)' \subseteq Stray(o)
  <2>1. IsFiniteSet(Stray(o)') /\ Cardinality(Stray(o)') <= Cardinality(Stray(o))
    BY <1>2, <1>5, FS_Subset
  <2>2. Cardinality(Stray(o)') \in Nat
    BY <2>1, FS_CardinalityType
  <2> QED
    BY <1>2, <1>3, <1>4, <2>1, <2>2
<1>6. CASE ~(Stray(o)' \subseteq Stray(o))
  <2>1. lapses'[o] = lapses[o] + 1 /\ Stray(o)' \subseteq Stray(o) \cup {pyHandle[o]}
    BY <1>6, StrayStep
  <2> DEFINE S == Stray(o) \cup {pyHandle[o]}
  <2>2. /\ IsFiniteSet(S) /\ Cardinality(S) \in Nat
        /\ Cardinality(S) <= Cardinality(Stray(o)) + 1
    <3>1. /\ IsFiniteSet(S)
          /\ \/ Cardinality(S) = Cardinality(Stray(o))
             \/ Cardinality(S) = Cardinality(Stray(o)) + 1
      BY <1>2, FS_AddElement
    <3> HIDE DEF S
    <3> QED
      BY <1>3, <3>1
  <2>3. IsFiniteSet(Stray(o)') /\ Cardinality(Stray(o)') <= Cardinality(S)
    BY <2>1, <2>2, FS_Subset
  <2>4. Cardinality(Stray(o)') \in Nat
    BY <2>3, FS_CardinalityType
  <2> QED
    BY <1>2, <1>3, <2>1, <2>2, <2>3, <2>4
<1> QED
  BY <1>5, <1>6

-----------------------------------------------------------------------------
(* wsConnect and sseConnect: a new entry n, that the thread goes away with.*)
Opened(t, s, n) ==
  /\ n = issued + 1 /\ issued' = n /\ valid' = valid \cup {n}
  /\ n \notin DOMAIN conns
  /\ DOMAIN conns' = DOMAIN conns \cup {n}
  /\ conns' \in [DOMAIN conns \cup {n} -> Conns]
  /\ \A k \in DOMAIN conns : conns'[k] = conns[k] /\ got'[k] = got[k]
  /\ conns'[n].obj = on[t] /\ conns'[n].sent = s /\ conns'[n].read = 0
  /\ conns'[n].writers = {} /\ conns'[n].in
  /\ got' \in [DOMAIN conns \cup {n} -> Seq(Texts)]
  /\ got'[n] = << >>
  /\ pc[t] = "connect" /\ pc' = [pc EXCEPT ![t] = "sethandle"]
  /\ h' = [h EXCEPT ![t] = n]
  /\ UNCHANGED <<panicked, pyHandle, connected, on, overlap, lapses, ops>>

(* The entry of a new connection, and that its handle is new.              *)
LEMMA ConnectEffect ==
  ASSUME StreamTypes, Handles, NEW t \in Threads, NEW s \in Streams, GoConnect(t, s)
  PROVE  Opened(t, s, issued + 1)
<1> DEFINE n == issued + 1
           c == [obj |-> on[t], sent |-> s, read |-> 0, closed |-> FALSE,
                 writers |-> {}, failed |-> 0, raced |-> FALSE, in |-> TRUE]
<1>1. n \notin DOMAIN conns /\ n \in Nat /\ DOMAIN got = DOMAIN conns
  BY DEF StreamTypes
<1>2. on[t] \in Objects /\ s \in Seq(STRING)
  BY StreamAssumption DEF GoConnect, Handles
<1>3. c \in Conns
  BY <1>2 DEF Conns
<1>4. conns' = [k \in DOMAIN conns \cup {n} |-> IF k # n THEN conns[k] ELSE c]
  BY DEF GoConnect, NewHandle
<1>5. got' = [k \in DOMAIN conns \cup {n} |-> IF k = n THEN << >> ELSE got[k]]
  BY <1>1 DEF GoConnect, NewHandle
<1>6. << >> \in Seq(Texts)
  OBVIOUS
<1>7. got' \in [DOMAIN conns \cup {n} -> Seq(Texts)]
  BY <1>5, <1>6 DEF StreamTypes
<1>8. conns' \in [DOMAIN conns \cup {n} -> Conns]
  BY <1>3, <1>4 DEF StreamTypes
<1>9. \A k \in DOMAIN conns : conns'[k] = conns[k] /\ got'[k] = got[k]
  BY <1>1, <1>4, <1>5
<1>10. conns'[n] = c /\ got'[n] = << >>
  BY <1>4, <1>5
<1>11. /\ issued' = n /\ valid' = valid \cup {n}
       /\ pc[t] = "connect" /\ pc' = [pc EXCEPT ![t] = "sethandle"]
       /\ h' = [h EXCEPT ![t] = n]
       /\ UNCHANGED <<panicked, pyHandle, connected, on, overlap, lapses, ops>>
  BY DEF GoConnect, NewHandle, PGoto
<1>12. DOMAIN conns' = DOMAIN conns \cup {n}
  BY <1>4
<1> QED
  BY <1>1, <1>7, <1>8, <1>9, <1>10, <1>11, <1>12 DEF Opened

(* Before the first message, nothing was read.                             *)
LEMMA FollowsStart ==
  ASSUME NEW s \in Seq(STRING), NEW over \in BOOLEAN
  PROVE  Follows(<< >>, s, 0, over)
<1>1. Len(s) \in Nat /\ Len(<< >>) = 0
  OBVIOUS
<1> QED
  BY <1>1 DEF Follows

(* A new connection keeps the invariant: it is the thread's own.           *)
LEMMA ConnectStep ==
  ASSUME StreamInv, NEW t \in Threads, NEW s \in Streams, GoConnect(t, s), UNCHANGED results,
         DOMAIN results \subseteq 1..issued, ~panicked
  PROVE  StreamInv'
<1>1. PICK n : Opened(t, s, n)
  BY ConnectEffect DEF StreamInv
<1> USE DEF StreamInv
<1>2. n \in Nat /\ n \notin 1..issued /\ n # None /\ n \in 1..n /\ 1..issued \subseteq 1..n /\ issued' = n
  BY <1>1, StreamAssumption DEF Opened, StreamTypes
<1>3. StreamTypes'
  BY <1>1, <1>2 DEF Opened, StreamTypes, Labels
<1>4. /\ pc'[t] = "sethandle" /\ on'[t] = on[t] /\ h'[t] = n /\ on[t] \in Objects
      /\ \A u \in Threads \ {t} : pc'[u] = pc[u] /\ on'[u] = on[u] /\ h'[u] = h[u]
  BY <1>1 DEF Opened, StreamTypes, Handles
<1>5. Handles'
  BY <1>1, <1>2, <1>4 DEF Opened, Handles, HasHandle, StreamTypes
<1>6. Writers'
  <2> SUFFICES ASSUME NEW k \in DOMAIN conns \cup {n}, NEW u \in conns'[k].writers
               PROVE  pc'[u] \in {"writing", "closing"} /\ h'[u] = k
    BY <1>1 DEF Opened, Writers
  <2>1. k \in DOMAIN conns /\ u \in conns[k].writers
    BY <1>1 DEF Opened
  <2>2. u \in Threads /\ pc[u] \in {"writing", "closing"} /\ h[u] = k
    BY <2>1 DEF Writers, StreamTypes, Conns
  <2>3. u # t
    BY <1>1, <2>2 DEF Opened
  <2> QED
    BY <1>4, <2>2, <2>3
<1>7. AllRead'
  <2> SUFFICES ASSUME NEW k \in DOMAIN conns \cup {n} PROVE ReadSoFar(k)'
    BY <1>1 DEF Opened, AllRead
  <2>1. CASE k = n
    <3>1. s \in Seq(STRING) /\ conns'[n].closed \in BOOLEAN
      <4>1. conns'[n] \in Conns
        BY <1>1 DEF Opened
      <4> QED
        BY <4>1, StreamAssumption DEF Conns
    <3>2. got'[n] = << >> /\ conns'[n].sent = s /\ conns'[n].read = 0
      BY <1>1 DEF Opened
    <3>3. Follows(<< >>, s, 0, conns'[n].closed)
      BY <3>1, FollowsStart
    <3> QED
      BY <2>1, <3>2, <3>3 DEF ReadSoFar
  <2>2. CASE k \in DOMAIN conns
    BY <1>1, <2>2, ReadSame DEF Opened, AllRead
  <2> QED
    BY <2>1, <2>2
<1>8. Overlaps'
  <2>1. pc[t] \in Busy /\ pc'[t] \in Busy /\ pc[t] \in Connecting
    BY <1>1, <1>4 DEF Opened, Busy, Connecting
  <2> QED
    BY <1>1, <1>4, <2>1 DEF Opened, Overlaps
<1>9. InTable(n)' /\ ~InTable(n)
  BY <1>1 DEF Opened, InTable
<1>10. \A o \in Objects : pyHandle'[o] = pyHandle[o] /\ pyHandle[o] # n
  BY <1>1, <1>2 DEF Opened, StreamTypes
<1>11. OneOwner'
  <2>1. \A k : k # n => (InTable(k)' <=> InTable(k))
    BY <1>1 DEF Opened, InTable
  <2>2. ASSUME NEW u \in Threads PROVE Keeps(u)'
    <3>1. CASE u = t
      BY <1>4, <1>9, <3>1 DEF Keeps, InTable
    <3>2. CASE u # t
      <4>1. Keeps(u) /\ h[u] # n
        BY <1>2 DEF OneOwner, StreamTypes
      <4>2. pc[u] \in {"forget"} => on[u] \in Objects
        BY DEF Handles
      <4> QED
        BY <1>1, <1>4, <1>10, <2>1, <3>2, <4>1, <4>2 DEF Keeps, Opened, InTable
    <3> QED
      BY <3>1, <3>2
  <2>3. ASSUME NEW o \in Objects PROVE Refers(o)'
    <3>1. Refers(o)
      BY DEF OneOwner
    <3>2. InTable(pyHandle[o]) => InTable(pyHandle[o])'
      BY <1>10, <2>1 DEF InTable
    <3>3. \A u \in Threads : pc[u] \in {"forget", "forgotten"} => pc'[u] = pc[u]
      BY <1>1, <1>4 DEF Opened
    <3> QED
      BY <1>1, <3>1, <3>2, <3>3 DEF Refers, Opened
  <2> QED
    BY <2>2, <2>3 DEF OneOwner
<1>12. PanicNeedsMisuse'
  BY <1>1 DEF Opened, PanicNeedsMisuse
<1>13. StrayCounted'
  <2> SUFFICES ASSUME NEW o \in Objects \ overlap PROVE Stray(o)' = Stray(o)
    BY <1>1 DEF StrayCounted, Opened
  <2>1. Left(o) \subseteq Left(o)' /\ Left(o)' \subseteq Left(o) \cup {n} /\ n \notin Left(o)
    BY <1>1 DEF Opened, Left
  <2>2. on[t] # o => n \notin Left(o)'
    BY <1>1 DEF Opened, Left
  <2>3. Holders(o)' = Holders(o) \cup (IF on[t] = o THEN {t} ELSE {}) /\ t \notin Holders(o)
    BY <1>1, <1>4 DEF Opened, Holders
  <2>4. \A u \in Holders(o) : h'[u] = h[u] /\ h[u] # n
    BY <1>2, <1>4, <2>3 DEF Holders, StreamTypes
  <2>5. Accounted(o)' = Accounted(o) \cup (IF on[t] = o THEN {n} ELSE {})
    BY <1>1, <1>4, <2>3, <2>4 DEF Accounted, Opened
  <2> QED
    BY <2>1, <2>2, <2>5 DEF Stray
<1> QED
  BY <1>3, <1>5, <1>6, <1>7, <1>8, <1>11, <1>12, <1>13

-----------------------------------------------------------------------------
(* A thread calls a method of o: it is noted if another one is busy there. *)
Called(t, o, l) ==
  /\ l \in {"connect", "send", "read", "close"}
  /\ pc[t] = "idle" /\ ~panicked
  /\ pc' = [pc EXCEPT ![t] = l] /\ on' = [on EXCEPT ![t] = o] /\ ops' = ops + 1
  /\ overlap \subseteq overlap' /\ overlap' \subseteq overlap \cup {o}
  /\ l # "read" => \A u \in Threads \ {t} : on[u] = o /\ pc[u] \in Busy => o \in overlap'
  /\ l = "connect" => ~connected[o]
  /\ UNCHANGED <<cgoVars, pyHandle, connected, conns, h, got, lapses>>

(* Every call of a method is noted so: send finds no thread that connects, *)
(* as it needs a connected object.                                         *)
LEMMA CallEffect ==
  ASSUME Overlaps, NEW t \in Threads, NEW o \in Objects,
         Connect(t, o) \/ Send(t, o) \/ Read(t, o) \/ Close(t, o)
  PROVE  \E l : Called(t, o, l)
<1> USE DEF Called, Call, Note, Others, PGoto, Busy
<1>1. CASE Connect(t, o)
  <2>1. Called(t, o, "connect")
    BY <1>1 DEF Connect
  <2> QED
    BY <2>1
<1>2. CASE Send(t, o)
  <2>1. \A u \in Threads : on[u] = o /\ pc[u] \in Connecting => o \in overlap
    BY <1>2 DEF Send, Begin, Overlaps
  <2>2. Called(t, o, "send")
    BY <1>2, <2>1 DEF Send, Begin
  <2> QED
    BY <2>2
<1>3. CASE Read(t, o)
  <2>1. Called(t, o, "read")
    BY <1>3 DEF Read, Begin
  <2> QED
    BY <2>1
<1>4. CASE Close(t, o)
  <2>1. Called(t, o, "close")
    BY <1>4 DEF Close
  <2> QED
    BY <2>1
<1> QED
  BY <1>1, <1>2, <1>3, <1>4

(* A call changes only the thread, and what is noted.                      *)
LEMMA MethodCalls ==
  ASSUME StreamInv, NEW t \in Threads, NEW o \in Objects, NEW l, Called(t, o, l), UNCHANGED results
  PROVE  StreamInv'
<1> USE DEF StreamInv, Called, cgoVars
<1>1. StreamTypes'
  BY DEF StreamTypes, Labels
<1>2. /\ pc'[t] = l /\ on'[t] = o /\ l \notin HasHandle
      /\ \A u \in Threads \ {t} : pc'[u] = pc[u] /\ on'[u] = on[u]
  BY DEF StreamTypes, HasHandle
<1>3. Handles'
  BY <1>2 DEF Handles
<1>4. Writers'
  <2> SUFFICES ASSUME NEW k \in DOMAIN conns, NEW u \in conns[k].writers
               PROVE  pc'[u] \in {"writing", "closing"} /\ h[u] = k
    BY DEF Writers
  <2>1. u \in Threads /\ pc[u] \in {"writing", "closing"} /\ h[u] = k
    BY DEF Writers, StreamTypes, Conns
  <2> QED
    BY <1>2, <2>1
<1>5. AllRead'
  BY ReadSame DEF AllRead
<1>6. Overlaps'
  <2>1. l \in Busy => l # "read"
    BY DEF Busy, Connecting, Writing
  <2>2. l \in Connecting => l = "connect"
    BY DEF Connecting
  <2> QED
    BY <1>2, <2>1, <2>2 DEF Overlaps
<1>7. \A k : InTable(k)' <=> InTable(k)
  BY DEF InTable
<1>8. ASSUME NEW u \in Threads PROVE Keeps(u)'
  <2>1. Keeps(u)
    BY DEF OneOwner
  <2> QED
    BY <1>2, <2>1 DEF Keeps, InTable
<1>9. ASSUME NEW x \in Objects PROVE Refers(x)'
  <2>1. Refers(x)
    BY DEF OneOwner
  <2>2. \A u \in Threads : pc[u] \in {"forget", "forgotten"} => pc'[u] = pc[u] /\ on'[u] = on[u]
    BY <1>2
  <2> QED
    BY <2>1, <2>2 DEF Refers, InTable
<1>10. PanicNeedsMisuse'
  BY DEF PanicNeedsMisuse
<1>11. StrayCounted'
  <2> SUFFICES ASSUME NEW x \in Objects \ overlap' PROVE Stray(x)' = Stray(x)
    BY DEF StrayCounted
  <2>1. Left(x)' = Left(x)
    BY DEF Left
  <2>2. Holders(x)' = Holders(x)
    BY <1>2 DEF Holders
  <2> QED
    BY <2>1, <2>2 DEF Stray, Accounted
<1> QED
  BY <1>1, <1>3, <1>4, <1>5, <1>6, <1>8, <1>9, <1>10, <1>11 DEF OneOwner

(* A step of a method, whatever it is.                                     *)
LEMMA LaterSteps ==
  ASSUME StreamInv, NEW t \in Threads, LaterStep(t), UNCHANGED results, ~panicked
  PROVE  StreamInv'
<1> USE DEF StreamInv
<1>1. StreamTypes' /\ Handles' /\ Writers'
  BY TypesLater, HandlesLater, WritersLater
<1>2. AllRead' /\ Overlaps'
  BY ReadsLater, OverlapsLater
<1>3. OneOwner'
  BY KeepsLater, RefersLater DEF OneOwner
<1>4. PanicNeedsMisuse' /\ StrayCounted'
  BY PanicLater, StrayLater
<1> QED
  BY <1>1, <1>2, <1>3, <1>4

(* Every step of the connection objects keeps their invariant.             *)
LEMMA StreamSteps ==
  ASSUME StreamInv, StreamNext, UNCHANGED results, DOMAIN results \subseteq 1..issued
  PROVE  StreamInv'
<1>1. PICK t \in Threads :
        \/ MethodStep(t)
        \/ \E o \in {x \in Objects : InUse(x)} :
             Connect(t, o) \/ Send(t, o) \/ Read(t, o) \/ Close(t, o)
  BY DEF StreamNext
<1>2. CASE MethodStep(t)
  <2>1. ~panicked /\ ((\E s \in Streams : GoConnect(t, s)) \/ LaterStep(t))
    BY <1>2 DEF MethodStep, LaterStep
  <2> QED
    BY <2>1, ConnectStep, LaterSteps
<1>3. CASE \E o \in Objects : Connect(t, o) \/ Send(t, o) \/ Read(t, o) \/ Close(t, o)
  BY <1>3, CallEffect, MethodCalls DEF StreamInv
<1> QED
  BY <1>1, <1>2, <1>3

(* It holds before the first connect().                                    *)
LEMMA StreamInitially == CgoInit /\ PolledInit /\ StreamInit => StreamInv
<1> SUFFICES ASSUME CgoInit, PolledInit, StreamInit PROVE StreamInv
  OBVIOUS
<1> USE DEF CgoInit, PolledInit, StreamInit, NewConnections
<1>1. DOMAIN conns = {} /\ DOMAIN got = {} /\ DOMAIN results = {}
  OBVIOUS
<1>2. StreamTypes
  <2>1. conns \in [{} -> Conns]
    OBVIOUS
  <2>2. got \in [{} -> Seq(Texts)]
    OBVIOUS
  <2>3. lapses \in [Objects -> Nat] /\ ops \in Nat /\ overlap \subseteq Objects
    OBVIOUS
  <2>4. connected \in [Objects -> BOOLEAN] /\ panicked \in BOOLEAN
    OBVIOUS
  <2>5. issued = 0 /\ pyHandle \in [Objects -> 1..0 \cup {None}] /\ h \in [Threads -> 0..0]
    OBVIOUS
  <2>6. pc \in [Threads -> Labels] /\ on \in [Threads -> Objects \cup {None}]
    BY DEF Labels
  <2> QED
    BY <1>1, <2>1, <2>2, <2>3, <2>4, <2>5, <2>6 DEF StreamTypes
<1>3. Handles /\ Writers /\ AllRead
  BY <1>1 DEF Handles, Writers, AllRead, HasHandle
<1>4. Overlaps /\ OneOwner /\ PanicNeedsMisuse
  BY <1>1 DEF Overlaps, OneOwner, Keeps, Refers, PanicNeedsMisuse, Busy, Connecting, Writing
<1>5. StrayCounted
  <2> SUFFICES ASSUME NEW o \in Objects
               PROVE  IsFiniteSet(Stray(o)) /\ Cardinality(Stray(o)) <= lapses[o]
    BY DEF StrayCounted
  <2>1. Stray(o) = {}
    BY <1>1 DEF Stray, Left
  <2> QED
    BY <2>1, FS_EmptySet
<1> QED
  BY <1>2, <1>3, <1>4, <1>5 DEF StreamInv

-----------------------------------------------------------------------------
(* The calls without a pipe only take handles of their own.                *)
LEMMA StreamsUndisturbed ==
  ASSUME PolledInv, StreamInv, PolledNext, UNCHANGED streamVars
  PROVE  StreamInv'
<1>1. /\ issued' \in Nat /\ issued' >= issued
      /\ panicked' = panicked
      /\ DOMAIN results' \subseteq DOMAIN results \cup {issued + 1}
      /\ \A k \in valid : k \notin DOMAIN results => k \in valid'
  <2> USE DEF PolledInv
  <2> DEFINE Goal == /\ issued' \in Nat /\ issued' >= issued
                     /\ panicked' = panicked
                     /\ DOMAIN results' \subseteq DOMAIN results \cup {issued + 1}
                     /\ \A k \in valid : k \notin DOMAIN results => k \in valid'
  <2> SUFFICES Goal OBVIOUS
  <2>1. CASE UNCHANGED <<cgoVars, results>>
    BY <2>1 DEF cgoVars
  <2>2. ASSUME NEW r \in Requests, Submit(r) PROVE Goal
    BY <2>2 DEF Submit, NewHandle
  <2>3. ASSUME NEW r \in Requests, CheckReady(r) PROVE Goal
    <3>1. handle[r] \in valid /\ handle[r] \in DOMAIN results
      BY <2>3 DEF CheckReady, CallTypes
    <3> QED
      BY <2>3, <3>1 DEF CheckReady, DeleteHandle, StreamInv, StreamTypes
  <2>4. ASSUME NEW k \in DOMAIN results, Ready(k) PROVE Goal
    BY <2>4 DEF Ready, cgoVars
  <2> HIDE DEF Goal
  <2> QED
    BY <2>1, <2>2, <2>3, <2>4
       DEF PolledNext, CallStep, Enter, CallGo, SubmitRefused, CheckNotReady, WakeUp,
           CopyAndFree, Unpack, TimeOut, Cancel, StartGather, EndGather
<1> USE DEF StreamInv, streamVars
<1>2. StreamTypes'
  <2>1. 1..issued \subseteq 1..issued' /\ 0..issued \subseteq 0..issued'
    BY <1>1 DEF StreamTypes
  <2> QED
    BY <1>1, <2>1 DEF StreamTypes
<1>3. Handles'
  BY <1>1 DEF Handles, StreamTypes
<1>4. Writers' /\ AllRead' /\ Overlaps' /\ PanicNeedsMisuse'
  BY <1>1 DEF Writers, AllRead, ReadSoFar, Overlaps, PanicNeedsMisuse
<1>5. OneOwner'
  BY DEF OneOwner, Keeps, Refers, InTable
<1>6. StrayCounted'
  BY DEF StrayCounted, Stray, Left, Accounted, Holders
<1> QED
  BY <1>2, <1>3, <1>4, <1>5, <1>6

(* The connection objects leave the handles of polled calls alone.         *)
LEMMA CallsUndisturbed ==
  ASSUME PolledInv, StreamInv, StreamNext, UNCHANGED polledVars
  PROVE  PolledInv'
<1>1. /\ issued' \in Nat /\ issued' >= issued
      /\ valid' \subseteq valid \cup {issued'}
      /\ issued' = issued => valid' \subseteq valid
      /\ \A k \in valid : k \in DOMAIN results => k \in valid'
  <2> USE DEF PolledInv
  <2> DEFINE Goal == /\ issued' \in Nat /\ issued' >= issued
                     /\ valid' \subseteq valid \cup {issued'}
                     /\ issued' = issued => valid' \subseteq valid
                     /\ \A k \in valid : k \in DOMAIN results => k \in valid'
  <2> SUFFICES Goal OBVIOUS
  <2>1. CASE UNCHANGED <<issued, valid>>
    BY <2>1
  <2>2. ASSUME NEW t \in Threads, NEW s \in Streams, GoConnect(t, s) PROVE Goal
    BY <2>2 DEF GoConnect, NewHandle
  <2>3. ASSUME NEW t \in Threads, FreeHandle(t) PROVE Goal
    <3>1. h[t] \notin DOMAIN results
      BY <2>3 DEF FreeHandle, StreamInv, Handles, HasHandle
    <3> QED
      BY <2>3, <3>1 DEF FreeHandle, DeleteHandle
  <2> HIDE DEF Goal
  <2> QED
    BY <2>1, <2>2, <2>3
       DEF StreamNext, MethodStep, Connect, Send, Read, Close, Begin, ConnectFails, SetHandle,
           SetConnected, NoSuchHandle, BeginWrite, EndSend, BeginRead, RacedRead, ReadMessage,
           ReadFails, StreamEnds, CloseNothing, GoClose, CloseConn, ForgetHandle,
           ForgetConnected, cgoVars
<1> USE DEF PolledInv, polledVars
<1>2. valid' \subseteq 1..issued'
  <2>1. valid \subseteq 1..issued'
    BY <1>1
  <2>2. issued' # issued => issued' \in 1..issued'
    BY <1>1
  <2> QED
    BY <1>1, <2>1, <2>2
<1>3. LibType' /\ FlagsType'
  BY LibraryKept
<1>4. CallTypes'
  <2>1. 0..issued \subseteq 0..issued'
    BY <1>1
  <2>2. handle \in [Requests -> 0..issued']
    BY <2>1 DEF CallTypes
  <2>3. DOMAIN results \subseteq valid'
    BY <1>1 DEF CallTypes
  <2> QED
    BY <2>2, <2>3 DEF CallTypes, Ends
<1>5. Entries' /\ Calls'
  BY DEF Entries, Calls, Answer
<1> QED
  BY <1>1, <1>2, <1>3, <1>4, <1>5

(* The invariant of both together, and why it is one.                      *)
FfiInv == PolledInv /\ StreamInv

(* Every step keeps it.                                                    *)
LEMMA FfiInductive == FfiInv /\ [Next]_vars => FfiInv'
<1> SUFFICES ASSUME FfiInv, [Next]_vars PROVE FfiInv'
  OBVIOUS
<1> USE DEF FfiInv
<1>1. CASE PolledNext /\ UNCHANGED streamVars
  BY <1>1, PolledSteps, StreamsUndisturbed
<1>2. CASE StreamNext /\ UNCHANGED polledVars
  <2>1. UNCHANGED results /\ DOMAIN results \subseteq 1..issued
    BY <1>2 DEF polledVars, PolledInv, CallTypes
  <2> QED
    BY <1>2, <2>1, StreamSteps, CallsUndisturbed
<1>3. CASE UNCHANGED vars
  <2> USE <1>3 DEF vars, polledVars, streamVars, cgoVars
  <2>1. PolledInv'
    <3>1. LibType' /\ FlagsType'
      BY LibraryKept DEF PolledInv
    <3>2. CallTypes' /\ Entries' /\ Calls'
      BY DEF PolledInv, CallTypes, Entries, Calls, Answer, Ends
    <3> QED
      BY <3>1, <3>2 DEF PolledInv
  <2>2. StreamInv'
    <3>1. StreamTypes' /\ Handles' /\ Writers' /\ AllRead' /\ Overlaps' /\ PanicNeedsMisuse'
      BY DEF StreamInv, StreamTypes, Handles, Writers, AllRead, ReadSoFar, Overlaps, PanicNeedsMisuse
    <3>2. OneOwner'
      BY DEF StreamInv, OneOwner, Keeps, Refers, InTable
    <3>3. StrayCounted'
      BY DEF StreamInv, StrayCounted, Stray, Left, Accounted, Holders
    <3> QED
      BY <3>1, <3>2, <3>3 DEF StreamInv
  <2> QED
    BY <2>1, <2>2
<1> QED
  BY <1>1, <1>2, <1>3 DEF Next, Stop

(* The invariant holds in every state, whatever the calls, threads,        *)
(* objects and streams are.                                                *)
THEOREM FfiSafe == Spec => []FfiInv
<1>1. Init => FfiInv
  BY PolledInitially, StreamInitially DEF Init, FfiInv
<1> QED
  BY <1>1, FfiInductive, PTL DEF Spec

-----------------------------------------------------------------------------
(* The invariant says what a program observes: see each of the three.      *)
LEMMA AnswersFollow == FfiInv => OnlyWhatWasSent
<1> SUFFICES ASSUME FfiInv PROVE PolledAnswers /\ ReadsFollowTheServer
  BY DEF OnlyWhatWasSent
<1>1. PolledAnswers
  <2>1. gather = "returned" => \A r \in Gathered : answers[r] = r
    BY PolledAssumption DEF FfiInv, PolledInv, Calls
  <2> QED
    BY <2>1 DEF FfiInv, PolledInv, Calls, PolledAnswers
<1>2. ASSUME NEW k \in {j \in DOMAIN got : ~conns[j].raced}
      PROVE  LET n == conns[k].read
             IN  /\ Len(got[k]) >= n
                 /\ SubSeq(got[k], 1, n) = SubSeq(conns[k].sent, 1, n)
                 /\ \A i \in (n + 1)..Len(got[k]) : got[k][i] = Nothing
                 /\ Len(got[k]) > n => conns[k].closed \/ Here(k) = "end"
  <2> DEFINE n == conns[k].read
             g == got[k]
             s == conns[k].sent
  <2>1. conns[k] \in Conns /\ g \in Seq(Texts) /\ Follows(g, s, n, conns[k].closed)
    BY <1>2 DEF FfiInv, StreamInv, StreamTypes, AllRead, ReadSoFar
  <2>2. n \in Nat /\ s \in Seq(STRING)
    BY <2>1 DEF Conns
  <2>3. Here(k) = IF n < Len(s) THEN s[n + 1] ELSE None
    BY DEF Here
  <2> HIDE DEF n, g, s
  <2>4. SubSeq(g, 1, n) = SubSeq(s, 1, n)
    <3>1. \A i \in 1..n : g[i] = s[i]
      BY <2>1 DEF Follows
    <3>2. n <= Len(g) /\ n <= Len(s) /\ Len(g) \in Nat /\ Len(s) \in Nat
      BY <2>1, <2>2 DEF Follows
    <3>3. SubSeq(g, 1, n) \in Seq(Texts) /\ SubSeq(s, 1, n) \in Seq(STRING)
      BY <2>1, <2>2, <3>2
    <3>4. Len(SubSeq(g, 1, n)) = n /\ Len(SubSeq(s, 1, n)) = n
      BY <2>1, <2>2, <3>2
    <3>5. \A i \in 1..n : SubSeq(g, 1, n)[i] = g[i] /\ SubSeq(s, 1, n)[i] = s[i]
      BY <2>1, <2>2, <3>2
    <3> QED
      BY <3>1, <3>3, <3>4, <3>5
  <2>5. Len(g) >= n /\ \A i \in (n + 1)..Len(g) : g[i] = Nothing
    BY <2>1, <2>2 DEF Follows
  <2>6. Len(g) > n => conns[k].closed \/ Here(k) = "end"
    BY <2>1, <2>3 DEF Follows
  <2> QED
    BY <2>4, <2>5, <2>6 DEF n, g, s
<1>3. ReadsFollowTheServer
  BY <1>2, Zenon DEF ReadsFollowTheServer, Nothing
<1> QED
  BY <1>1, <1>3

(* What is left behind, read off the invariant once no method runs.        *)
LEMMA NothingLost == FfiInv => NothingLeftBehind
<1> SUFFICES ASSUME FfiInv PROVE TypeOK /\ PolledLeavesNothing /\ NoConnectionLeft
  BY DEF NothingLeftBehind
<1> USE DEF FfiInv
<1>1. PolledTypeOK
  BY DEF PolledInv, LibType, FlagsType, CallTypes, PolledTypeOK
<1>2. StreamTypeOK
  <2>1. \A k \in DOMAIN conns : conns[k].read \in 0..Len(conns[k].sent)
    <3> SUFFICES ASSUME NEW k \in DOMAIN conns PROVE conns[k].read \in 0..Len(conns[k].sent)
      OBVIOUS
    <3>1. conns[k] \in Conns /\ ReadSoFar(k)
      BY DEF StreamInv, StreamTypes, AllRead
    <3>2. conns[k].read \in Nat /\ conns[k].sent \in Seq(STRING)
      BY <3>1 DEF Conns
    <3> QED
      BY <3>1, <3>2 DEF ReadSoFar
  <2> QED
    BY <2>1 DEF StreamInv, StreamTypes, StreamTypeOK, Labels
<1>3. TypeOK
  BY <1>1, <1>2 DEF TypeOK, StreamInv, StreamTypes
<1>4. PolledLeavesNothing
  BY DEF PolledInv, Entries, Calls, Ends, Polling, PolledLeavesNothing
<1>5. NoConnectionLeft
  <2> SUFFICES ASSUME NEW o \in Objects, o \notin overlap, \A t \in Threads : on[t] # o
               PROVE  LET left == {k \in DOMAIN conns : conns[k].obj = o /\ conns[k].in}
                          now == IF connected[o] THEN {pyHandle[o]} ELSE {}
                      IN  /\ now \subseteq left
                          /\ Cardinality(left \ now) <= lapses[o]
    BY DEF NoConnectionLeft
  <2> DEFINE now == IF connected[o] THEN {pyHandle[o]} ELSE {}
  <2>1. Holders(o) = {}
    BY DEF Holders
  <2>2. Stray(o) = Left(o) \ now
    BY <2>1 DEF Stray, Accounted
  <2>3. Cardinality(Stray(o)) <= lapses[o]
    BY DEF StreamInv, StrayCounted
  <2>4. connected[o] => pyHandle[o] \in Left(o)
    BY NotInTable DEF StreamInv, OneOwner, Refers, InTable, Handles, Left
  <2> QED
    BY <2>2, <2>3, <2>4 DEF Left
<1> QED
  BY <1>3, <1>4, <1>5

(* A call returns its own answer, gather those of all its calls, and a     *)
(* connection object reads what the server sent, in order, and then only   *)
(* empty texts, unless two of its reads overlapped: send_request*,         *)
(* receive, next_event.                                                    *)
THEOREM AnswersSafe == Spec => []OnlyWhatWasSent
BY FfiSafe, AnswersFollow, PTL

(* C strings are freed, entries of polled calls leave the table unless the *)
(* call gave up, and Go keeps at most the connection that an object refers *)
(* to and one for each stream that ended, where calls did not overlap.     *)
THEOREM LeftoversSafe == Spec => []NothingLeftBehind
BY FfiSafe, NothingLost, PTL

(* wsSend, wsClose, wsReceive and sseNextEvent panic only if connect, send *)
(* or close overlapped on an object, two reads overlapped on a connection, *)
(* or a failed WebSocket was read more than MaxFailedReads times.          *)
THEOREM PanicSafe == Spec => []PanicNeedsMisuse
<1>1. FfiInv => PanicNeedsMisuse
  BY DEF FfiInv, StreamInv
<1> QED
  BY <1>1, FfiSafe, PTL

=============================================================================
