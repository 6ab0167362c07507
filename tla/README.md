# Verification of cycletls_python

cycletls_python is a Python HTTP client whose work is done by a Go shared
library (TLS fingerprints, HTTP/1, HTTP/2, HTTP/3, WebSocket, SSE). The same Go
code is also a service that other processes talk to over a WebSocket. This
directory holds TLA+ models of the parts of both that have state and run
concurrently, TLC configurations that check them, and TLAPS proofs.

`PROJECT.json` lists the components, the runs, the mutants that show each
property can fail, the source lines behind each definition (`map`), the hazards
of the code and the theorems.

## 1. The system

| Component | State it keeps | Operations | Talks to |
|---|---|---|---|
| **Client API** `cycletls/api.py`, `async_api.py`, `schema.py` | `_closed`, `_batcher` per client | `_prepare_request`, `request`, the verbs, `batch`, `abatch`, `close`, `aclose` | every layer below; the caller's own dictionaries |
| **Sessions** `cycletls/sessions.py`, `structures.py`, `golang/cookiejar.go` | headers, cookie jar, auth and base URL of a `Session` | merging into a call, taking cookies from an answer, `close` | client API; several calls at once |
| **Outcomes** `golang/errors.go`, `golang/ffi.go`, `cycletls/schema.py`, `exceptions.py` | none | `parseError`, `_raise_for_error_response`, `raise_for_status`, cookies in both directions | Go and Python agree through a status and a text |
| **Fingerprints** `cycletls/fingerprints.py`, `plugins.py` | the registry, `data/fingerprints.json`, exported attributes | register, load, save, look up, apply to a call; loading at import | client API; the file outlives the process |
| **Module-level functions** `cycletls/__init__.py`, `_global.py`, `_config.py` | the global session, defaults and their merged cache, two locks | `request`, `get`, ...; `set_default`, `reset_defaults`, `close_global_session`, exit, fork | all threads of a process, and its children |
| **Request batcher** `cycletls/_batcher.py` | queue, shutdown event, one daemon thread with a local batch, a Future per caller | `submit_sync`, `submit_async`, `shutdown`; `_run`, `_collect_batch`, `_drain_remaining`, `_flush` | callers through Futures; the Go library through `batch_fn` |
| **Batching clients** `cycletls/api.py`, module level of `_batcher.py` | `_global_batcher` and its lock; `_batcher`, `_closed` per client | constructor, `close`, `aclose`, `request`, `arequest`, `get_batcher`, `shutdown_batcher` | each other, through the shared batcher |
| **Direct, batch and polled calls** `cycletls/_ffi.py`, `golang/ffi.go` | the loaded library and what it exports; handles, results, C strings | `send_request`, `send_batch_request`, `send_request_async`, `send_requests_batch` and their Go side | asyncio, threads and Go |
| **Callback requests** `cycletls/_ffi.py`, `golang/ffi.go` | a pipe per request, an executor job that blocks in `os.read`, a goroutine, an entry of `asyncNotifyResults` | `send_request_async_callback`, `submitRequestAsyncWithNotify`, `getAsyncResult` | event loop, executor threads, Go; share the process's descriptor numbers |
| **WebSocket and SSE handles** `cycletls/websocket.py`, `sse.py`, `golang/ffi.go` | `_handle` and `_connected` per object; Go's tables and cgo handles | connect, send, receive, next event, close, iterators | Python threads; the remote server |
| **Round tripper** `golang/roundtripper.go` | `cachedTransports`, `cachedConnections`, a mutex per address, `rt.Mutex` | `RoundTrip`, `getTransport`, `dialTLS`, the retries, `CloseIdleConnections` | all requests of one pooled client; fhttp's transports call back into `dialTLS` |
| **Client pool** `golang/client.go` | map of clients by configuration | lookup, creation, `clearAllConnections`, clean-up | Do, the service |
| **Request service** `golang/index.go` | per socket: `readSocket`, `writeSocket`, an unbuffered channel; global `activeRequests` | requests, `cancel`, `exit`; `dispatcherAsync`, `dispatchSSEAsync` | the client's socket; round tripper |
| **WebSocket sessions of the service** `golang/index.go`, `golang/websocket.go` | command queue (100), `closeChan`, two goroutines and the waiting one, `activeWebSockets` | `dispatchWebSocketAsync`, the `ws_` commands | the service's socket and the remote server |
| **Proxy dialers** `golang/connect.go` | a cached HTTP/2 connection to the proxy | CONNECT, SOCKS4/5 | round tripper |
| **Hello, HTTP/2 and header construction, HTTP/3** | static data | parsing | external libraries |

What is hard here, and hence what the properties are about:

* **Layers of dictionaries.** Options and headers of the library, a profile, a
  session, the defaults and the call are merged in three places, partly in place,
  in objects the caller owns and uses again.
* **Overlapping calls of one session.** The jar is read when a call begins and
  written when its answer comes.
* **Errors by words.** Go passes on a status and a text; both sides classify a
  failure by the words in it, and an answer can contain the same words.
* **Globals without locks.** Defaults, their cache and the global session are
  tested and read again while other threads change them, and a fork copies them as
  they are.
* **Futures, threads and shutdown.** A caller waits on a Future only the batcher
  thread can complete. Sentinels, the final drain, a failing Go call, a
  cancelled task and several `shutdown()` callers meet on one queue.
* **A singleton with several owners.** Any client's `close()` stops the batcher
  that all batching clients use.
* **Descriptor numbers and handles outlive their owners.** An abandoned request
  closes its pipe while a thread still reads from it and a goroutine still has the
  number; a handle deleted twice is a Go panic, and ends the Python process.
* **Caches filled and emptied by different requests.** A transport is looked up,
  created and read again without a lock, while every request that ends evicts
  what belongs to other hosts; a pre-dialled connection must reach exactly one
  user.
* **Many writers, one channel.** Frames of concurrent requests, cancellations,
  timeouts and broken bodies must still give each request a well-formed answer,
  also after the client has gone; the three goroutines of a WebSocket session
  must not wait for each other for ever.

## 2. The modules

| Module | Role |
|---|---|
| `Structures` | dictionaries: plain, `CaseInsensitiveDict`, `CookieJar` |
| `RequestPayload` | what `_prepare_request` and `_build_batch_payload` make of a call, as operators |
| `Outcomes` | from what happened on the wire to a `Response` or an exception, as operators |
| `Fingerprints` | the registry of profiles and its files |
| `ClientRequests` | sessions and clients with overlapping calls; uses the four above |
| `ClientRequestsProofs` | TLAPS proofs about it |
| `GlobalSession` | the global session, its lock, exit and fork |
| `ModuleDefaults` | the defaults and their cache; extends `GlobalSession` |
| `ModuleApi` | the module-level functions; composes the two |
| `ModuleApiProofs` | TLAPS proofs about it |
| `BatchService` | abstract: what a batcher promises |
| `RequestBatcher` | one batcher; implements `BatchService` |
| `BatchedClients` | clients sharing the singleton; uses an instance as `RequestBatcher` shows it to be |
| `BatchingProofs` | TLAPS proofs about `RequestBatcher` and `BatchedClients` |
| `CgoHandles` | the numbers of runtime/cgo handles |
| `PolledRequests` | direct, batch and polled calls of the library |
| `StreamHandles` | WebSocket and SSE objects and Go's tables for them |
| `FfiHandles` | both users of cgo handles together |
| `FfiHandlesProofs` | TLAPS proofs about it |
| `NotifyPipe` | callback requests over pipes |
| `NotifyPipeProofs` | TLAPS proofs about it |
| `RoundTripper` | the caches of transports and connections |
| `RoundTripperProofs` | TLAPS proofs about it |
| `RequestService` | one client of the service |
| `RequestServiceProofs` | TLAPS proofs about it |
| `WebSocketSession` | one WebSocket session of the service |
| `WebSocketSessionProofs` | TLAPS proofs about it |
| `MC...` | small instances of the module named after the prefix |

A definition whose comment starts with *Mutation*, or with *As ... below*, is a
plausible bug in the definition after it. No specification uses it; each is the
witness that some property notices the bug (`mutants` in `PROJECT.json`).

### RequestPayload, Outcomes, Structures

Operators, no state. `PrepareRequest` follows `_prepare_request` stage by stage:
the `json` alias, auth, the profile, the old body options, the user agent taken out
of the headers, form or JSON body, files, cookies, and `Request.to_dict`, each with the
exception it may raise. The
headers of a call are the caller's own dictionary until a stage copies it, so the
pipeline carries both the headers and what the caller's dictionary holds by
then. `Outcomes` goes the other way: `ParseError` is the order of rules of `errors.go`,
`ErrorRules` that of `schema.py`; a text is the set of the phrases either of them looks
for. Those of `errors.go` are narrower, and kept apart (`GoPhrases`): "uTlsConn.Handshake()
error" is a text with "handshake" for `schema.py`, but a handshake that fails in a retry or with
a proxy says "handshake" only. Cookies keep name, value and one attribute, which has a word on
the Python side and a number on the Go side. `Lower`, the spellings of header names that
occur, is a parameter: the library's own names must be among them, nothing else is asked.

### Fingerprints

`profiles` is the registry, `defaultFile` the file that outlives the process.
`save_to_file` is two steps, the truncation and the write, and the process may die
between them or at any other time; `process` is then *down*, and the next import loads
the default file, the file and the captures that the environment names, and binds the
exported attributes. It is *broken* if the import raises.

### ClientRequests

A call reads the session and prepares its payload in one step (`Begin`) and takes its
answer in another (`Finish`): calls are tasks of an event loop, which
cannot be interrupted in either part, or threads that overlap on the wire. `mine` is a headers dictionary the program reuses for its calls. `calls` maps
the numbers of the calls in flight, of those whose cookies matter and of the last one to
what is known of them. The wire
(`Worlds`) answers with anything of a small set for each client. What a call asked for is
stated by operators of its own (`AskedAgent`, `BodyWith`, `Imposed`, the
layers), written from the documented precedence and not from the pipeline. `NotPassedOn`
names what the methods of `AsyncCycleTLS` accept and drop.

### GlobalSession, ModuleDefaults, ModuleApi

`gpc` and `dpc` are where a thread is in `get_global_session` or
`close_global_session`, and in `_merge_defaults`, `set_default` or `reset_defaults`; every
access to a global outside a lock is a step. The merge is the loop it is: `in` and
the read that follows are two steps, so a reset in between is a `KeyError`. A fork
copies the memory of the process, locks included; the threads of the child exist
from the start and can call once it is born. `Outcome` is what `session.request`
makes of what the two lookups returned. Ghosts: `disturbed` (the calls of a
process into which a close, or the drop of the parent's session, of *another* thread fell; the
thread that drops it is not counted), `changed` (those into which a set or a reset of the defaults
fell), `mayBeStale` (the three ways to an old cache: a `set_default` that raises on a later
item, a change that returns while another thread fills the cache, a fork in the middle of a
change).

### RequestBatcher

One action per step another thread can see. `pc` is the thread's place:
`loop` is the test in `_run`, `get` and `collect` the two parts of
`_collect_batch`, `drain` is `_drain_remaining`, `send`, `deliver` and `set` are
`_flush`. `set` is separate from `deliver` because the code tests
`future.done()` and then calls `set_result` without holding anything. A request
stands for its payload, its Future and the response to its payload, so that
"the response to its own payload" is `answer[r] = r`. `Send` may raise, may
return a list of the right length, or one that lacks responses, which is what
`send_requests_batch` gives for an error answer of the Go side. `queue.get` with a
timeout, and the flush interval, are choices: time is not modelled. `ticket` and
`clock` are history, for the refinement only.

`BatchService` has no queue, no thread and no shutdown: requests are accepted,
dispatched in order of acceptance and at most once, and resolved once with their
own response or an error. `ImplementsService` maps the queue and the batch being
collected to "waiting" and everything sent to "dispatched".

### BatchedClients

A client is in its constructor (`new`, `fast`, `slow`, `locked`), open, or in
`close()` (`shut` to `mark`). The unlocked test of `get_batcher` and the second read of
the global in its return statement are two steps, as in the code. A
`RequestBatcher` is reduced to what callers see: it serves its queue until the
event is set, then drains it once and ends (`Serve`, `EndThread`).

### CgoHandles, PolledRequests, StreamHandles, FfiHandles

The first call loads the library from the first path that has one; what the file
exports decides between base64 and zero-copy, separately for direct and polled
calls. A polled call submits, then checks and sleeps until its entry in Go's table
is ready, it times out or is cancelled. `buffers` are C strings Go returned and nobody has
freed. The methods of a connection object are the steps between which another thread
can run: `_handle` and `_connected` are set one after the other, and none of the methods
takes the object's lock. The server's stream is a short sequence that may end.
gorilla/websocket is external: two writers at once may panic, and so does the
`MaxFailedReads`-th read of a failed connection. Two threads may also read one connection at
once, for which neither it nor the scanner of an event stream is made: `BeginRead` marks the
connection as `raced`, and from then on `RacedRead` may panic or return something
the server did not send in this form or place. Polled calls and connection objects
share only the numbers of handles, so a behaviour uses one or the other.

### NotifyPipe

`table` is the process's descriptor table: `os.pipe` takes the lowest free
numbers, `os.close` frees them, and a goroutine's `syscall.Write` goes to whatever
its number means then. `job` is the executor job (`queued` until one of `Workers`
threads takes it), `source` the pipe a blocked `os.read` is attached to, which
stays the same when the number is given to another pipe. `Abandon` is the
timeout or the cancellation of the awaiting task.

### RoundTripper

A request is a sequence of hops (the URL and its redirects); each goes through
`RoundTrip`: `Lookup` (unlocked test), `AddressLock`, `Recheck`, the pre-dial,
`Use` (the unlocked second read). `dialTLS` runs under `rt.Mutex`: a cached
connection is handed out, or a new one is dialled, perhaps a second time with
another hello, and stored with its transport. The fhttp transports are external: they reuse a
connection of theirs or call back into `dialTLS`. `mode` says who uses the client:
`do` (`CycleTLS.Do` with reuse, nothing is closed at the end), `service`
(`dispatcherAsync`: each request that ends calls `CloseIdleConnections(hostPort)`),
`private` (reuse off: one request, everything is closed). URLs carry no port, so
http and https on a host share a key, as in `getDialTLSAddr`. A raw connection
whose hello could not be built is left to the garbage collector by the code and
is not counted as lost. The HTTP/3 branch is not modelled.

### RequestService

`readSocket` is `reader`, `writeSocket` is `writer` (idle, or with a frame in its
hands), and `pc` is the dispatcher of each request. A dispatcher at a `put_` label
is blocked on the channel; `Take` is the rendezvous, `Write` the socket write,
which fails silently once the client has gone. `Offers` and `Then` say which frame
each label offers and where the dispatcher goes on. `Do` and `ConnectStream` end in a response, an error frame or a
panic, which `dispatcherAsync` recovers without telling the client. `ReadExit`
writes to the socket at the same time as `writeSocket`: the websocket library
panics in whichever goroutine notices, which ends the process (`readSocket`) or
only the HTTP handler in which `writeSocket` runs. Every request has an id of its own.
HTTP/3 requests, which have no timeout, are not in the model.

### WebSocketSession

`main` is `dispatchWebSocketAsync`, `rd` and `wr` its two goroutines. `Issue` is a `ws_`
command: queued when the session is registered and the queue has room,
otherwise dropped. Go's `select` picks any ready case, so `TakeCommand` and
`StopWriting` are both possible when the session is being closed. The websocket library is
external: after a close frame, its own or the answer to the server's, writes are
refused; on a lost connection they fail or vanish. `ReadyState` is written and
never read, and left out.

## 3. The runs

All passing runs end by themselves (finite state spaces; the longest take
about two minutes with two workers). `requests`, `module_api` and `handles` also check
that nothing deadlocks: in the last two `Stop` says when a program may be through, in the
first a process can always end and start again. In the other runs a system whose callers
have stopped calling may stop.

| Run | Instance | What it shows |
|---|---|---|
| `requests` | a session, a client, an async client, clients for one call, `batch`; 17 kinds of call, 23 failures, 16 pages, 3 profiles, a file of captures | `SentIsWhatWasAsked`, `CookiesFollow`, `OutcomeIsHonest`, `CallersDictIsKept`, `RestartRestores` |
| `module_api` | two processes with two threads each, two options, 4 calls | `ChildHasItsOwnSession`, `NoSessionLost`, `CacheIsCurrent`, `FailsOnlyIfDisturbed`, `LocksAreGivenBack` |
| `batcher` | 3 requests (1 async), 2 `shutdown()` callers, batches of 2 | no caller is forgotten (`NoneForgotten`) or gets another's response (`OwnAnswer`); batches are bounded; `BatchService` is implemented; what was accepted before the drain is resolved and `shutdown` ends (`ServesToTheEnd`) |
| `batcher_cancel_race` | 2 requests, no shutdown | *violation*: cancelling between `done()` and `set_result()` kills the thread |
| `clients` | 3 clients, 1 call, 3 batchers | one running batcher; calls break only on their own client's `close()`; queued calls return and no constructor or `close()` hangs (`CloseLetsGo`) |
| `clients_hang` | 2 clients, 1 call | *violation*: closing one client makes calls of the other hang |
| `handles` | a direct, a batch and two polled calls (gathered, one refused), three builds of the library; a WebSocket and an event stream used by two threads, 6 method calls, reads that overlap among them | `OnlyWhatWasSent`, `NothingLeftBehind`, `PanicNeedsMisuse`, `CallsEnd` |
| `pipe` | 3 requests (2 may give up), 5 descriptors, 1 executor thread | descriptors are never closed for somebody else; only a descriptor shared with an abandoned request wakes a request early; undisturbed calls are answered; readers and calls with timeouts come back (`GivingUpIsClean`) |
| `rt_shared` | 2 hosts, a redirected and a direct request, mode `do`, retries on | no connection is lost, no panic, every request ends |
| `rt_evict` | 2 hosts, http and https chains, modes `service` and `private`, `clearAllConnections` once | connections are handed over once, wait only beside their transport, are not closed in use; a private client leaves nothing open |
| `service` | an HTTP request, a stream, a refused request, 1 chunk each | frames in order and a broken body reported (`FramesTellTheStory`); only running requests can be cancelled; requests end although the client has gone |
| `ws_session` | queue of 2, 3 commands, 1 message | order of frames and commands, nothing after `end` (`BothEndsInOrder`), sessions end |

The type invariants are conjuncts of `OneRunningBatcher`, `DescriptorsOwned`,
`ActiveIsCancellable`, `BothEndsInOrder`, `CacheIsCurrent`, `OutcomeIsHonest` and
`NothingLeftBehind`, and stand for themselves in `batcher` and `rt_shared`.

Several properties hold with exceptions, and say which: those are the
behaviours a user has to know of (section 4). A property such as
`FailsOnlyIfDisturbed` shows that there are no others.

Why these bounds are enough for the cases that matter:

* *requests*: `MaxSessionCalls` = 3 calls of a session are two that overlap and one that
  sees what they left; `MaxOps` = 2 other calls are one that changes the shared
  dictionary and one that uses it again, or a call before and after an operation of the
  registry; `MaxRegistryOps` = 2 are a registration and a save. A program uses either
  its session or the rest, which share nothing but the registry.
* *module_api*: two threads in each process race through each test and read; `MaxCalls`
  = 4 are a fork, a first call before it and two racing ones after it, or a set, two
  merges and a reset.
* *handles*: 6 method calls are two rounds of connect, use and close with an overlap, or a
  connect and two reads that overlap, with three calls to see what comes of them;
  `MaxFailedReads` = 2 stands for gorilla's 1000.
* *batcher*: three requests and batches of two give a full batch, a rest, and a
  request behind a sentinel; two closers give two sentinels, one of which meets the
  drain.
* *clients*: three clients are one that closes, one whose constructor is between
  its test and its second read, and one that creates the next batcher. With only two
  batchers the bound itself would block a constructor.
* *pipe*: five descriptors hold two pipes and one number more, so a number comes
  back in the other role (read end for write end); with one executor thread jobs queue
  and may be cancelled before they run.
* *round tripper*: two requests to one host contend for its mutex and its cached
  connection, two hosts are needed for eviction and for the order of the two
  locks; the bounds on transports and connections are above what the chains
  can hold at a time.
* *service*: the dispatchers share nothing but the channel and the maps, so two
  that run, next to a request that is refused, show every interplay; one chunk
  distinguishes "no data", "data" and "data with the end of the body".
* *session*: three commands overflow a queue of two, and are enough for a message
  before and one after a close.

### Fairness

* A thread or goroutine that can go on does (weak fairness of its actions):
  the operating system and the Go scheduler guarantee it.
* `batch_fn`, dials, handshakes and exchanges come back: every request carries a
  timeout (`processRequest`, `Do`).
* Of the waits on pipes, those of `Abandons` time out (`wait_for`, 30 s by
  default). The others are there to show that a request is answered without the
  help of its timeout.
* A polled call steps on, and its deadline passes although it keeps checking and
  sleeping (strong fairness of `TimeOut`): the event loop's clock goes on.
* `writeSocket` goes on as long as the client's socket takes its bytes or refuses them
  (weak fairness of `Write`): a client that stays connected and reads nothing could
  block it for ever, since the code sets no write deadline.
* `Take` is strongly fair: a Go channel serves blocked senders first come, first
  served.
* The server of a WebSocket session answers a close frame (RFC 6455) and owes
  nothing else. Clients, callers and cancellations owe nothing, and an event
  stream may stay silent for ever.

## 4. Where the code falls short

### The violations

Each is a disagreement between the code and a text of the repository; the
texts are quoted in `PROJECT.json` under `findings`.

1. `batcher_cancel_race`: `_flush` tests `done()` and then sets. A task cancelled in
   between makes `set_result` raise `InvalidStateError` in the batcher thread,
   nothing catches it, and every later caller waits for ever.
2. `clients_hang`: `close()` on one client shuts the shared batcher down. Other
   clients keep the reference and submit to a queue nobody reads.

### Exceptions the properties name

* *Sessions and clients*: a plain client changes the headers dictionary it is given
  (user agent, content type, authorization, hints of a profile), also one given to
  `set_default`. Two spellings of one header are both sent. The methods of
  `AsyncCycleTLS` name `auth` and `json` and hand neither on, so a request goes out without
  credentials and without its body; `IMPROVEMENTS.md:65-66` and `README.md:373` of the
  library promise both for all methods. A list of plain cookie dictionaries raises
  `AttributeError` once the session's jar is not empty. Of an answer's cookie the jar
  keeps name and value, so it goes to every host, and a deleted one is sent
  empty. A late answer refills the jar of a closed session.
* *Outcomes*: a handshake that fails in a retry of `dialTLS` (`roundtripper.go:365, 489, 583`) or
  with an HTTPS proxy (`connect.go:422`) has none of the phrases `errors.go` waits for; it raises
  `CycleTLSError` or `ConnectionError`, where `README.md:1687` of the library has `TLSError`. A
  proxy that refuses with a status comes back as a `Response`, and a
  redirect status passes `raise_for_status`. A page with an arrow in it and a
  status Go uses for errors raises. A `batch` with a timeout that is not whole seconds
  returns `[]`; one failing item discards the answers of all; most options of
  its items are ignored.
* *Fingerprints*: a process that dies inside `save_to_file` leaves a file that the next
  import cannot read.
* *Module level*: the cached defaults stay old if `set_default` raises on a later item, or
  returns while another thread fills the cache; a child forked in the middle of a
  `set_default` keeps the old ones too. A call during another thread's reset
  or close may raise `KeyError`, `TypeError`, `AttributeError` or `CycleTLSError`. A child forked while a
  lock is held waits for it for ever. The unlocked reset in a child can drop a
  session another thread has just created.
* *Handles*: a failed `receive` is an empty text message, although its docstring
  (`websocket.py:235`) says that it raises `WebSocketError`; an iterator reads a
  closed socket until gorilla panics. Overlapping sends and closes of one object may
  panic the process, overlapping connects leak a connection, and after overlapping reads
  of one nothing is known of what is read, nor whether the process survives. `close()` after the end of
  an event stream leaves Go's handle. A poll that times out or is cancelled leaves
  its entry for ever; a refused payload is polled until the timeout. A refused
  batch gives an empty list.
* *Pipes*: after a timeout the pipe is closed and its number may be the write
  end of the next request's pipe when the abandoned goroutine writes to it
  (`_ffi.py:556`, `ffi.go:414`). The next request then fetches a result that is not there.
* *Round tripper*: in the service `RoundTrip` reads the transport map a second time
  (`roundtripper.go:201-207`); another request may have evicted the entry, which is a panic.
* *Service*: `bufio.Scanner` does not report `io.EOF`, `NextEvent` returns `(nil, nil)`
  (`sse.go:219`), and the dispatcher asks again for ever (`index.go:1126`): the end of a
  stream is never reported.

### Seen while reading, outside the models

The transport map is read without the lock under which it is written; a redirect
from http to https on one host goes over the plain transport, without the
configured hello (they share a key); the retries use the host as server name where the first
attempt uses a configured one; an evicted transport that has a request under way
keeps its HTTP/2 connection open until a timer closes it; a timeout while a body
is read looks like the end of the body; `log.Fatal` on the options of one request ends
the service for all; a client that leaves does not cancel its streams, and its
`writeSocket` never returns; cancelling an idle WebSocket session waits for a
server that says nothing; an id reused at once may lose its entry to the
previous request's deferred delete. The key of the client pool leaves out the header
order, `disableGrease` and `tls13AutoRetry`, which the pooled client keeps from its first request.
`receive` ignores its timeout; `sseConnect` cancels the context of the stream it
stores when it returns; an event without a name is `""`, not `"message"`; the timeout of
`arequest` is that of the poll and raises `CycleTLSError`, not `Timeout`.

## 5. Proofs

`tlapm` checks eight modules to the last leaf. They prove every invariant and every action
property that a passing run checks, for every value of the constants that satisfies the `ASSUME`
named with each module, and that `RequestBatcher` implements `BatchService`. Each inductive
invariant was first checked by TLC on the instance of the component's run.

### BatchingProofs: RequestBatcher

For every set of requests, of async requests and of closers and every
`BatchSize > 0` (`BatcherAssumption`: async requests are requests, the sentinel is
not one):

* `TypeCorrect`: `TypeOK`;
* `NobodyIsForgotten`: a pending request is in the queue, in the batch being
  collected, or ahead of `_flush`;
* `AnswersAreOwn`: a result is the response to the caller's own payload;
* `BatchesAreBounded`: at most `batch_size` requests, but for the final drain;
* `Implements`: every behaviour is one of `BatchService` (`ImplementsService`), so
  requests are dispatched in the order they were accepted, at most once, and resolved
  once.

None of the three invariants after the first is inductive. That `_flush` passes over nobody needs
`pos <= Len(batch)` between test and set; that starting a collection overwrites
nobody needs the batch to be empty at `loop` and `get`; that answers are own
needs `results = batch` whenever results are handed out; the bound needs that a
drain is final. `ThreadShape` and `FinalDrain` say so, and `BatcherInv`, their
conjunction with the properties, is the inductive invariant. There is one lemma
per group of actions. The lemmas on sequences (`AppendFacts`, `TakeFacts`,
`TakenIsKept`) are what moving a request from queue to batch rests on.

The refinement needs more than the invariants do. That a sent batch overtakes nobody
needs the queue to stand in the order of the tickets, behind all of the batch (`InLine`,
which rests on `PutOnce`: tickets do not run ahead of the clock); that it is a step of the
service, a batch that is not empty (`SentBatch`); that a failed request has no reply,
`Unanswered`. `OrderInv` is their conjunction, inductive with `BatcherInv`. Then
`StepService` takes one action at a time: a submission is an `Accept` of the service, a
cancellation a `GiveUp`, `Send` a `Dispatch`, the set of a Future a `Resolve` unless it is
done already, and what the thread and the shutdowns do otherwise is not seen there.

### BatchingProofs: BatchedClients

For any clients, calls and number of batchers (`ClientsAssumption`):

* `SingletonSafe`: a batcher that was not told to stop is the global one
  (`OneRunningBatcher`);
* `BreaksSafe`: a call meets a missing batcher only while its own client is being
  closed (`BreaksOnlyOnOwnClose`);
* `GlobalLockSafe`: `_global_lock` is held inside its two blocks, and what
  `shutdown_batcher` joins was told to stop. No run checks this one by itself: it is the
  reason for the first.

`SingletonInv` is inductive: without the lock (`LockHeld`) two constructors could each
store a batcher; without `JoinsStopped` the shutdown could clear a running one. For the
second, `RoutedHasBatcher` carries over from a call's test for a batcher to its use what
happens in between: the client still has it, or is past the point in `close()` where it
lost it.

### NotifyPipeProofs

For any requests, descriptors and executor threads (`PipeAssumption`):

* `DescriptorsSafe`: a request's numbers denote its own pipe until it closes them, and
  nothing else is open (`DescriptorsOwned`);
* `EarlyWakeUpSafe`: only an abandoned request that had one of its numbers can wake a
  request before its result is ready (`EarlyWakeUpNeedsAbandon`).

The second is about a whole chain: a goroutine that outlived its request, a number given
out again, a byte in the wrong pipe, an `os.read` that returns. `Explained` has one
conjunct for each link (`Progress`, `SourceKnown`, `ByteExplained`,
`LateWriterExplained`): every byte in a pipe is the request's own, put there with its
entry ready, or there is an abandoned request to blame for it.

### RoundTripperProofs

For every set of requests, redirect chains, modes and bounds
(`RoundTripperAssumption`: chains are not empty):

* `TypeCorrect`;
* `OneHandOver`: no connection leaves `dialTLS` twice, and none that waits in the
  cache has left it;
* `NeverWaitsAlone`: a cached connection has its transport beside it;
* `UseIsSafe`: no connection in use is closed by `CloseIdleConnections`;
* `PrivateSafe`: a client of one request leaves no connection open behind it.

And where nobody evicts (modes `do` and `private`, no `clearAllConnections`, only https
URLs: the conditions of run `rt_shared`, stated as hypotheses of the theorems):

* `ConnectionsKept`: no open connection is lost (`NoLostConnection`);
* `OutcomesClean`: the transport is there when `RoundTrip` reads it again
  (`CleanOutcome`).

The hypotheses are needed: an eviction can overtake the lookups without a lock
(section 4).

`TripInv` adds two facts. `Caches`: different addresses never share a cached
connection, and whatever a transport owns has been handed out; hence evicting an
address closes nobody else's connection. `Users`: a request uses a connection
exactly while it exchanges, the connection belongs to that request's
transport, and only HTTP/2 connections have several users; hence putting a
connection back, or closing a transport's idle ones, touches no other request.
`CalmInv`, on top of it, is about what a request knows of the cache between its unlocked
reads (`Sees`): the transport it chose is the cached one, and only the holder of an
address mutex stores a transport for the address. That is why a second transport never
replaces one that owns connections. A private client has one user (`OneUser`), so that
closing everything at its end closes everything it opened.

### RequestServiceProofs

For any requests of either kind and any number of chunks (`ServiceAssumption`):

* `ActiveSafe`: `activeRequests` holds exactly the running requests that nobody
  cancelled (`ActiveIsCancellable`);
* `StorySafe`: frames come in order, and an end without an error means that the body was
  over or the context ended (`FramesTellTheStory`).

What the client has seen does not limit what a dispatcher may put next, since a frame may
be in the hands of `writeSocket`. `Story` and `NoSilentEnd` are therefore about `Sent`, the
frames that have left the dispatcher, and tie them to its program point. They hold while
the client is there; once it has gone, what it has seen does not change any more.

### WebSocketSessionProofs

For every capacity of the queue and any numbers of commands and messages
(`SessionAssumption`), `SessionSafe`: the client sees response, `ws_open`, messages in
number, a reason and one `end`; the server sees the accepted commands in order, none left
out before a close, none after it (`BothEndsInOrder`). `Goroutines` says which of the
three goroutines can be where at the same time, which the order of frames rests on.
`MessagesCounted` counts the messages handed on and the one in the reader's hands.
`NothingSkipped` says that while the link works an accepted command is written or still
queued, and `QueueSorted` that the queue is newer than everything written.

### FfiHandlesProofs

For any calls, builds of the library, objects, threads and streams (`PolledAssumption`:
only polled calls are gathered; `StreamAssumption`: `None` is no number, streams are
sequences):

* `AnswersSafe`: a call is given its own answer, an object reads what its server sent,
  unless two of its reads overlapped (`OnlyWhatWasSent`);
* `LeftoversSafe`: C strings and table entries are gone, but for abandoned polls, ended
  streams and overlapping calls (`NothingLeftBehind`);
* `PanicSafe`: Go panics only after `connect`, `send` or `close` overlapped on an object, reads
  overlapped on a connection, or a failed WebSocket was read on (`PanicNeedsMisuse`).

`FfiInv` is a part for the calls and a part for the objects; they share the numbers of
handles, which are disjoint. `Entries` ties an entry to the one call that has its handle.
For objects, `Overlaps` says that two threads in `connect`, `send` or `close` of
one object were noted; where they were not, `Keeps` gives the thread that opens or
closes the connection its handle for itself. The bound on what is left over is a
count: `StrayCounted` says that there are no more entries that neither object nor thread
knows of than there were streams that ended.

### ModuleApiProofs

For every set of processes and finite set of threads, every mapping of options and number
of calls (`GlobalSessionAssumption`: threads belong to processes, `None` is none of the
values; `DefaultsAssumption`: what the package sets at import is valid;
`ApiAssumption`):

* `SessionsAreOwn`: no caller is given a session that another process created
  (`ChildHasItsOwnSession`);
* `LocksComeBack`: `_global_lock` and `_cache_lock` are held only inside the blocks they
  guard, unless by a thread of another process (`LocksAreGivenBack`);
* `SessionsKept`: the importing process loses no open session, a child fewer than it has
  threads (`NoSessionLost`);
* `CacheCurrent`: once no change is under way the cache holds the defaults, but for what
  the three ways of `mayBeStale` (`CacheIsCurrent`);
* `FailuresExplained`: a call that fails before sending was disturbed by another thread
  (`FailsOnlyIfDisturbed`); a thread's own reset in a forked child does not count.

The first is not inductive: a child starts with its parent's session, and its
threads pass the test of the process id, the reset and the adoption of the id in any
order. `ResetFirst` is the reason it holds: whoever is past the test relies on
`_parent_pid` being its own, and by then no other session is left, since the reset comes
before the adoption. `BornFirst` says that no thread of a process that does not exist yet
is in a call, and that `_parent_pid` is never a process still to come, so that a
fork falls between no two steps of the child. `NextIsGlobal` shows that, seen from the
sessions, the whole API takes only steps of `GlobalSession`; the invariant is proved there.
For the locks, `HoldersAreBorn` says that an inherited lock is held by a thread outside the
child.

`NoSessionLost` is a count: `ResetsCounted` adds the threads that are about to reset to
the sessions lost so far. A thread enters the reset only while `_parent_pid` is still the
parent's, so the thread that adopts the id first has lost none, and each of the others at
most one. `ClosedIsForgotten` says that a session that is closed and still the global one
is about to be forgotten, under the lock.

For the defaults, `Follows` says what a fill of the cache has by the time it is at some
position of the loop: it agrees with the defaults on the keys it has been through, unless a
change is under way (`Dirty`) or made it old (`mayBeStale`). Both are needed: a change
falls between any two rounds of the loop, and the setter drops the cache later, without
the lock. `Fills` says that who fills holds the lock and started from nothing; `Finds` that
a merge finds the key it tested and the cache it looked at, or is in `changed`.

### ClientRequestsProofs

For any calls, batches, answers, profiles, files and bounds:

* `Asked`: what reaches the Go side is what the call asked for, without the `auth` and `json`
  that `AsyncCycleTLS` drops (`SentIsWhatWasAsked`);
* `Honest`: what the caller gets is what happened, but for the named cases such as the
  handshakes of retries and proxies (`OutcomeIsHonest`, with `TypeOK`);
* `CookiesDoFollow`: each call of a session is sent with the cookies of the answers that
  were in before it began (`CookiesFollow`);
* `DictIsKept`: a call leaves its caller's dictionary alone, but for what
  `CallersDictIsKept` names;
* `Restores`: an import finds what was saved (`RestartRestores`).

The constants stand for what programs pass in and what the wire answers, so the
assumptions say what is taken of both:

* `LowerAssumption`: lower-casing twice is lower-casing once, and the names that the library
  writes are known.
* `CallsAssumption`: a call gives one body at most (`data`, `body` or `body_bytes`; of two,
  `_prepare_request` sends one) and a headers dictionary spells the user agent one way (of two,
  one is sent as a header). `None` is no body, and a same-site attribute is a word Go knows.
* `FilesAssumption`: the entries of the files are profiles or are passed over, the shipped file
  names none twice, and a profile has its user agent in the field of that name, not among its
  headers (the shipped ones and the normalised captures do).
* `WorldsAssumption`: a proxy that answers for itself refuses with a status from 300 on, and a
  failure without one *tells its cause* (`TellsCause`). This is where the honesty of the
  outcome comes from, so it is spelled out: for each cause, the words of the text and the kinds
  of network error by which both classifications find it, and the words that must not stand
  beside them. A DNS failure whose text says "timeout", for one, is told as a DNS failure, a
  refused connection whose text says "timeout" is not told at all and raises `Timeout`. A
  handshake of a retry or with a proxy is a cause of its own (`handshake`), for which the exception
  is not the one documented (`ExceptionFor`); only a text with one of the phrases Go or `schema.py`
  knows tells a TLS failure. A text with one of Go's phrases has the word of `schema.py`. The run
  has a failure of each kind, and the assumption holds for all of them.
* `NoneAssumption`: `None` is none of the values it is compared with.

Each is evaluated by the run `requests`.

The invariant has four parts.

* `RegistryOK` and `SavedOK`: a registry holds profiles under their own names, and a default
  file that is not torn has, for each name saved last, that profile and no other. `SavedOK`
  links two steps of the save and a death between them with the next import.
* `RequestsOK`: the headers of the session are a dictionary without case, those of the program
  a plain one, and calls are numbered.
* `CallsOK`: `AsAsked` and `HonestCall` for each call. They speak of the call's own record
  (the session as it was, the profile as it was), since both may be gone when
  the answer comes; that nothing changes them later is part of the proof.
* `HistoryOK`: `TimesOK` (a session's calls began and ended before now), `JarOK` (an open session's
  jar has, of each name, the value of the answer that came last) and `SentOK` (the same of the
  jar each call began under, and of the answers before it). `CookiesFollow` is not inductive
  without the second: what the next call will send is in the jar, and no call has it yet.

Under the steps lie lemmas about the operators. `Careful` follows the two dictionaries
through the stages of `_prepare_request`: as long as they are one, only the user agent leaves it and
only names of the library enter it. `ReadyIs` says what the last stage hands over, and
`HeadersAsAsked`, `OptionAsAsked` and `AgentAsAsked` compare that with the layers of the call.
`ParseErrorIs` and `RaisesFor` turn both lists of rules into one decision each,
`PhrasesAreWords` leads from Go's phrases to the words of `schema.py`, and
`FailureRaises` goes through the causes. `MergeCookiesFacts` says that merging keeps each name
once and lets the later cookie win.

The merging of cookies is a recursive function over a sequence of any length. The library's
induction rules cannot be used with these provers, since they take an operator; a set of
natural numbers has a least element (`Least`, from the well-founded order on `Nat`), though, and so
both that the function exists (`MergingExists`) and what it computes are proved from a
least counterexample.

### Only model-checked

Liveness (all `~>` properties) and fairness are out of this prover's reach. The two violations
are found by TLC.

## 6. Not modelled

* *Client pool*: who shares a client is a parameter of the round tripper (`mode`), and
  `clearAllConnections` an action of it; the lookup by key is not modelled.
* *Proxy dialers*: the CONNECT and SOCKS handshakes are protocol text and I/O; the
  cached HTTP/2 connection to the proxy is left to the plan.
* *Hello, HTTP/2 and header construction*: parsing of strings into library structures.
* *HTTP/3*: a connection per request through an external library.
* *The views of a Response* (`text`, `content`, `json`, `reason`), `last_event_id` and
  `retry_time` of events, the data of the shipped profiles, `create_fingerprint_template`:
  data that no other part depends on.
* *Scripts, examples, benchmarks*: tools around the library.
* *Contents of payloads, bodies and frames*: tokens, kept apart where the code keeps them
  apart.
* *Time*: every timeout is a step that may happen at any moment it can.
* *Several clients of one service*: they share `activeRequests`; with ids of
  their own they do not meet.

## 7. Plan

Done: batcher, abstract specification and clients; callback requests; round tripper; service
and its WebSocket sessions; polled requests and handles; sessions, cookies, payloads,
outcomes and fingerprints; defaults, global session and the module-level functions; proofs
of all invariants and action properties that the runs check, and of the refinement of
`BatchService`.

Left, in order of importance:

1. `ClientPool`: the two looks under the shard's lock, the key and what it leaves out,
   composed with the round tripper's modes.
2. `ProxyConnection`: the cached HTTP/2 connection of the CONNECT dialer.
