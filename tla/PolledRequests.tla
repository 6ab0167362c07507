--------------------------- MODULE PolledRequests ---------------------------
(***************************************************************************)
(* The calls of cycletls/_ffi.py that do not use a pipe, and their Go side *)
(* in golang/ffi.go: send_request, send_batch_request, send_request_async  *)
(* with its polling loop, and send_requests_batch, which gathers several   *)
(* of those.  The shared library is loaded once, by the first call, and    *)
(* what it exports decides between base64 and zero-copy.                   *)
(***************************************************************************)
EXTENDS CgoHandles

CONSTANTS Requests,    \* the calls
          KindOf,      \* "sync", "batch" or "polled"
          Refused,     \* the calls whose payload Go cannot unmarshal
          Garbled,     \* the calls whose answer cannot be unpacked
          Installs,    \* what may be at the paths of the library, in their order:
                       \* None, or the names that the file there exports
          Gathered     \* the calls of one send_requests_batch

(* What send_requests_batch gathers are calls of send_request_async.       *)
ASSUME PolledAssumption == Gathered \subseteq {r \in Requests : KindOf[r] = "polled"}

VARIABLES
  lib,        \* the loaded library: None, or the names it exports
  flags,      \* _use_zerocopy and _use_async_zerocopy: None, TRUE or FALSE
  rpc,        \* where each call is
  handle,     \* the handle of a polled call
  results,    \* asyncResults and asyncNotifyResults: handle -> [request, ready]
  buffers,    \* the C strings Go returned that were not freed yet
  answers,    \* what each call returned: a request's answer
  gather      \* the task of send_requests_batch

polledVars == <<lib, flags, rpc, handle, results, buffers, answers, gather>>

PolledInit ==
  /\ lib = None
  /\ flags = [sync |-> None, async |-> None]
  /\ rpc = [r \in Requests |-> "idle"]
  /\ handle = [r \in Requests |-> 0]
  /\ results = [h \in {} |-> None]
  /\ buffers = {}
  /\ answers = [r \in Requests |-> None]
  /\ gather = "idle"

Ends == {"returned", "CycleTLSError", "ValueError", "TimeoutError", "CancelledError"}
RGoto(r, l) == rpc' = [rpc EXCEPT ![r] = l]

-----------------------------------------------------------------------------
(* _iter_library_candidates: $CYCLETLS_LIB_PATH, then each name, the one   *)
(* of the platform first, in each place.  _load_library takes the first    *)
(* file there is.                                                          *)
Found(files) == {i \in 1..Len(files) : files[i] # None}
FirstFound(files) == files[CHOOSE i \in Found(files) : \A j \in Found(files) : i <= j]

(* _has_symbol, for all the names that a mode needs.                       *)
HasSymbols(l, names) == names \subseteq l

(* _has_zerocopy_support and _has_async_zerocopy_support; what was found   *)
(* once is kept.                                                           *)
Detect(f, l, mode) ==
  LET names == IF mode = "sync" THEN {"getRequestZeroCopy"}
               ELSE {"submitRequestAsyncZeroCopy", "getAsyncResultZeroCopy"}
  IN  IF f[mode] # None THEN f ELSE [f EXCEPT ![mode] = HasSymbols(l, names)]

Mode(r) == IF KindOf[r] = "polled" THEN "async" ELSE "sync"

(* _load_library: under _lib_lock, once.                                   *)
LoadLibrary(files) ==
  lib' = IF lib # None \/ Found(files) = {} THEN lib ELSE FirstFound(files)

(* The load and the detection, on the way into a call.                     *)
Enter(r, files) ==
  /\ rpc[r] = "idle"
  /\ LoadLibrary(files)
  /\ \/ lib' = None /\ RGoto(r, "CycleTLSError") /\ UNCHANGED flags
     \/ lib' # None /\ RGoto(r, "entered") /\ flags' = Detect(flags, lib', Mode(r))
  /\ UNCHANGED <<cgoVars, handle, results, buffers, answers, gather>>

-----------------------------------------------------------------------------
(* getRequest, getRequestZeroCopy, sendBatchRequest and their zero-copy    *)
(* twins answer a payload they cannot read with an error payload; that of  *)
(* a batch has no responses, which Python takes for an empty list.         *)
CallGo(r) ==
  /\ rpc[r] = "entered" /\ KindOf[r] # "polled"
  /\ buffers' = buffers \cup {r}
  /\ RGoto(r, "copy")
  /\ UNCHANGED <<cgoVars, lib, flags, handle, results, answers, gather>>

(* submitRequestAsync and submitRequestAsyncZeroCopy: an entry and a       *)
(* goroutine for the request.                                              *)
Submit(r) ==
  /\ rpc[r] = "entered" /\ KindOf[r] = "polled" /\ r \notin Refused
  /\ NewHandle
  /\ results' = [h \in DOMAIN results \cup {issued'} |->
       IF h = issued' THEN [request |-> r, ready |-> FALSE] ELSE results[h]]
  /\ handle' = [handle EXCEPT ![r] = issued']
  /\ RGoto(r, "check")
  /\ UNCHANGED <<lib, flags, buffers, answers, gather>>

(* A payload that Go refuses gives handle 0.  submit_request_async raises; *)
(* submit_request_async_zerocopy returns it, and the loop polls it.        *)
SubmitRefused(r) ==
  /\ rpc[r] = "entered" /\ KindOf[r] = "polled" /\ r \in Refused
  /\ RGoto(r, IF flags.async THEN "check" ELSE "CycleTLSError")
  /\ UNCHANGED <<cgoVars, lib, flags, handle, results, buffers, answers, gather>>

(* The goroutine of a request has its answer.                              *)
Ready(h) ==
  /\ h \in DOMAIN results /\ ~results[h].ready
  /\ results' = [results EXCEPT ![h].ready = TRUE]
  /\ UNCHANGED <<cgoVars, lib, flags, rpc, handle, buffers, answers, gather>>

(* checkRequestAsync and getAsyncResultZeroCopy: the answer leaves the     *)
(* table, with its handle.                                                 *)
CheckReady(r) ==
  LET h == handle[r]
  IN  /\ rpc[r] = "check" /\ h \in DOMAIN results /\ results[h].ready
      /\ DeleteHandle(h)
      /\ results' = [k \in DOMAIN results \ {h} |-> results[k]]
      /\ buffers' = buffers \cup {r}
      /\ answers' = [answers EXCEPT ![r] = results[h].request]
      /\ RGoto(r, "copy")
      /\ UNCHANGED <<lib, flags, handle, gather>>

NotReady(r) == ~(handle[r] \in DOMAIN results /\ results[handle[r]].ready)

(* NULL: not ready, or no such handle.  The loop sleeps, or gives up once  *)
(* the time is over.                                                       *)
CheckNotReady(r) ==
  /\ rpc[r] = "check" /\ NotReady(r)
  /\ RGoto(r, "sleep")
  /\ UNCHANGED <<cgoVars, lib, flags, handle, results, buffers, answers, gather>>

(* As TimeOut below, for a handle that Go knows.                           *)
TimeOutIfKnown(r) ==
  /\ rpc[r] = "check" /\ NotReady(r) /\ handle[r] # 0
  /\ RGoto(r, "TimeoutError")
  /\ UNCHANGED <<cgoVars, lib, flags, handle, results, buffers, answers, gather>>

TimeOut(r) ==
  /\ rpc[r] = "check" /\ NotReady(r)
  /\ RGoto(r, "TimeoutError")
  /\ UNCHANGED <<cgoVars, lib, flags, handle, results, buffers, answers, gather>>

WakeUp(r) ==
  /\ rpc[r] = "sleep"
  /\ RGoto(r, "check")
  /\ UNCHANGED <<cgoVars, lib, flags, handle, results, buffers, answers, gather>>

(* The task is cancelled while it sleeps.                                  *)
Cancel(r) ==
  /\ rpc[r] = "sleep"
  /\ RGoto(r, "CancelledError")
  /\ UNCHANGED <<cgoVars, lib, flags, handle, results, buffers, answers, gather>>

(* As CopyAndFree below, freeing only after the answer was unpacked.       *)
CopyAndFreeLast(r) ==
  /\ rpc[r] = "copy"
  /\ buffers' = IF r \in Garbled THEN buffers ELSE buffers \ {r}
  /\ RGoto(r, "unpack")
  /\ UNCHANGED <<cgoVars, lib, flags, handle, results, answers, gather>>

(* The bytes are copied and the C string freed; then they are unpacked.    *)
CopyAndFree(r) ==
  /\ rpc[r] = "copy"
  /\ buffers' = buffers \ {r}
  /\ RGoto(r, "unpack")
  /\ UNCHANGED <<cgoVars, lib, flags, handle, results, answers, gather>>

(* result.get("responses", []) for a batch.                                *)
Answer(r) == IF KindOf[r] = "batch" /\ r \in Refused THEN "empty" ELSE r

(* check_request_async_zerocopy does not turn a decoding error into a      *)
(* CycleTLSError.                                                          *)
Unpack(r) ==
  /\ rpc[r] = "unpack"
  /\ \/ /\ r \in Garbled
        /\ RGoto(r, IF KindOf[r] = "polled" /\ flags.async THEN "ValueError"
                    ELSE "CycleTLSError")
        /\ UNCHANGED answers
     \/ /\ r \notin Garbled
        /\ RGoto(r, "returned")
        /\ answers' = IF KindOf[r] = "polled" THEN answers
                      ELSE [answers EXCEPT ![r] = Answer(r)]
  /\ UNCHANGED <<cgoVars, lib, flags, handle, results, buffers, gather>>

-----------------------------------------------------------------------------
(* send_requests_batch: gather returns when all calls have, or raises with *)
(* the first that fails; the others go on by themselves.                   *)
StartGather ==
  /\ gather = "idle" /\ \A r \in Gathered : rpc[r] = "idle"
  /\ gather' = "waiting"
  /\ UNCHANGED <<cgoVars, lib, flags, rpc, handle, results, buffers, answers>>

EndGather ==
  /\ gather = "waiting"
  /\ \/ (\A r \in Gathered : rpc[r] = "returned") /\ gather' = "returned"
     \/ (\E r \in Gathered : rpc[r] \in Ends \ {"returned"}) /\ gather' = "raised"
  /\ UNCHANGED <<cgoVars, lib, flags, rpc, handle, results, buffers, answers>>

MayBegin(r) == r \in Gathered => gather # "idle"

(* The next step of a call that has begun.                                 *)
CallStep(r) ==
  \/ CallGo(r) \/ Submit(r) \/ SubmitRefused(r) \/ CheckReady(r) \/ CheckNotReady(r)
  \/ WakeUp(r) \/ CopyAndFree(r) \/ Unpack(r)

PolledNext ==
  \/ \E r \in Requests, files \in Installs : MayBegin(r) /\ Enter(r, files)
  \/ \E r \in Requests : CallStep(r) \/ TimeOut(r) \/ Cancel(r)
  \/ \E h \in DOMAIN results : Ready(h)
  \/ StartGather \/ EndGather

(* Event loop and threads run; Do returns, as it has a timeout of its own; *)
(* and the loop's clock goes on, so a call does not poll for ever.         *)
PolledFairness ==
  /\ \A r \in Requests : WF_polledVars(CallStep(r)) /\ SF_polledVars(TimeOut(r))
  /\ \A r \in Gathered : WF_polledVars(\E files \in Installs : MayBegin(r) /\ Enter(r, files))
  /\ WF_polledVars(EndGather)

-----------------------------------------------------------------------------
PolledTypeOK ==
  /\ lib = None \/ \E files \in Installs : Found(files) # {} /\ lib = FirstFound(files)
  /\ flags \in [{"sync", "async"} -> {None, TRUE, FALSE}]
  /\ rpc \in [Requests -> Ends \cup {"idle", "entered", "check", "sleep", "copy", "unpack"}]
  /\ handle \in [Requests -> 0..issued]
  /\ DOMAIN results \subseteq valid
  /\ buffers \subseteq Requests
  /\ answers \in [Requests -> Requests \cup {None, "empty"}]
  /\ gather \in {"idle", "waiting", "returned", "raised"}

(* A call returns its own answer, and gather those of all its calls.  For  *)
(* a batch that Go cannot read the answer is an empty list, no error.      *)
PolledAnswers ==
  /\ \A r \in Requests :
       rpc[r] = "returned" =>
         answers[r] = Answer(r)
  /\ gather = "returned" => \A r \in Gathered : answers[r] = r

(* Nothing is left behind for a call that ended: its C string is freed,    *)
(* and its entry in the table is gone, unless it timed out or was          *)
(* cancelled; then nobody ever removes the entry.                          *)
PolledLeavesNothing ==
  /\ \A r \in Requests : rpc[r] \in Ends => r \notin buffers
  /\ \A h \in DOMAIN results :
       rpc[results[h].request] \in {"check", "sleep", "TimeoutError", "CancelledError"}

(* Every call comes to an end, a refused payload included, and so does     *)
(* the gathering of calls.                                                 *)
CallsEnd ==
  (\E r \in Requests : rpc[r] = "entered")
    ~> /\ \A r \in Requests : rpc[r] \in Ends \cup {"idle"}
       /\ gather # "waiting"
=============================================================================
