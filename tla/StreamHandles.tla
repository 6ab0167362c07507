---------------------------- MODULE StreamHandles ----------------------------
(***************************************************************************)
(* WebSocketConnection (cycletls/websocket.py) and SSEConnection           *)
(* (cycletls/sse.py), and the tables of golang/ffi.go they use: wsConnect, *)
(* wsSend, wsReceive, wsClose, sseConnect, sseNextEvent, sseClose.  The    *)
(* methods run in threads: those of the caller, or those of the executor   *)
(* for the *_async methods.  The objects have a lock that no method takes. *)
(*                                                                         *)
(* A server's stream is what it sends, then "end" if it ends the stream; a *)
(* stream without "end" stays open and silent.  gorilla/websocket allows   *)
(* one writer and one reader at a time (else it may panic) and panics when *)
(* a failed connection is read too often; nor may two threads share the    *)
(* bufio.Scanner of an event stream.                                       *)
(***************************************************************************)
EXTENDS CgoHandles

CONSTANTS Objects,       \* the connection objects
          IsSSE,         \* which of them are SSEConnections
          Threads,
          Streams,       \* what a server may send
          MaxFailedReads, \* reads of a failed WebSocket before gorilla panics (1000)
          MaxOps         \* bound: methods called

(* Python's None is no handle, and a server sends a finite text.           *)
ASSUME StreamAssumption == /\ None \notin Nat
                           /\ IsSSE \in [Objects -> BOOLEAN]
                           /\ Streams \subseteq Seq(STRING)
                           /\ MaxFailedReads \in Nat

VARIABLES
  pyHandle,    \* _handle
  connected,   \* _connected
  conns,       \* Go's tables: handle -> [obj, sent, read, closed, writers, failed, raced, in]
  pc, on, h,   \* of each thread: where it is, its object, its handle
  got,         \* what was read from each handle
  overlap,     \* the objects on which two connects, or two writers, overlapped
  lapses,      \* how often an SSEConnection saw its stream end
  ops

streamVars == <<pyHandle, connected, conns, pc, on, h, got, overlap, lapses, ops>>

(* The constructors: no handle, not connected.                             *)
NewConnections ==
  /\ pyHandle = [o \in Objects |-> None]
  /\ connected = [o \in Objects |-> FALSE]

StreamInit ==
  /\ NewConnections
  /\ conns = [k \in {} |-> None]
  /\ pc = [t \in Threads |-> "idle"]
  /\ on = [t \in Threads |-> None]
  /\ h = [t \in Threads |-> 0]
  /\ got = [k \in {} |-> << >>]
  /\ overlap = {}
  /\ lapses = [o \in Objects |-> 0]
  /\ ops = 0

PGoto(t, l) == pc' = [pc EXCEPT ![t] = l]
InTable(k) == k \in DOMAIN conns /\ conns[k].in

(* A method that returns or raises.                                        *)
Return(t) == /\ PGoto(t, "idle")
             /\ on' = [on EXCEPT ![t] = None]
             /\ h' = [h EXCEPT ![t] = 0]

Call(t, o, l) ==
  /\ ~panicked /\ pc[t] = "idle" /\ ops < MaxOps
  /\ ops' = ops + 1
  /\ PGoto(t, l)
  /\ on' = [on EXCEPT ![t] = o]

Others(t, o, labels) == \E u \in Threads \ {t} : on[u] = o /\ pc[u] \in labels
Note(t, o, labels) == overlap' = IF Others(t, o, labels) THEN overlap \cup {o} ELSE overlap

-----------------------------------------------------------------------------
(* connect: returns at once if connected.                                  *)
Connecting == {"connect", "sethandle", "setconnected"}
Writing == {"send", "writing", "close", "closing", "free", "forget", "forgotten"}

Connect(t, o) ==
  /\ ~connected[o]
  /\ Call(t, o, "connect")
  /\ Note(t, o, Connecting \cup Writing)
  /\ UNCHANGED <<cgoVars, pyHandle, connected, conns, h, got, lapses>>

(* wsConnect and sseConnect: 0 if the server cannot be reached, which      *)
(* connect turns into an error, or a new handle.                           *)
GoConnect(t, stream) ==
  /\ pc[t] = "connect"
  /\ NewHandle
  /\ conns' = [k \in DOMAIN conns \cup {issued'} |->
       IF k # issued' THEN conns[k]
       ELSE [obj |-> on[t], sent |-> stream, read |-> 0, closed |-> FALSE,
             writers |-> {}, failed |-> 0, raced |-> FALSE, in |-> TRUE]]
  /\ got' = [k \in DOMAIN got \cup {issued'} |-> IF k = issued' THEN << >> ELSE got[k]]
  /\ h' = [h EXCEPT ![t] = issued']
  /\ PGoto(t, "sethandle")
  /\ UNCHANGED <<pyHandle, connected, on, overlap, lapses, ops>>

ConnectFails(t) ==
  /\ pc[t] = "connect"
  /\ Return(t)
  /\ UNCHANGED <<cgoVars, pyHandle, connected, conns, got, overlap, lapses, ops>>

SetHandle(t) ==
  /\ pc[t] = "sethandle"
  /\ pyHandle' = [pyHandle EXCEPT ![on[t]] = h[t]]
  /\ PGoto(t, "setconnected")
  /\ UNCHANGED <<cgoVars, connected, conns, on, h, got, overlap, lapses, ops>>

SetConnected(t) ==
  /\ pc[t] = "setconnected"
  /\ connected' = [connected EXCEPT ![on[t]] = TRUE]
  /\ Return(t)
  /\ UNCHANGED <<cgoVars, pyHandle, conns, got, overlap, lapses, ops>>

-----------------------------------------------------------------------------
(* send and receive or next_event raise unless connected; then they read   *)
(* the handle again, to pass it to Go: None is a TypeError.                *)
Begin(t, o, l) ==
  /\ connected[o] /\ pyHandle[o] # None
  /\ Call(t, o, l)
  /\ UNCHANGED <<cgoVars, pyHandle, connected, conns, h, got, lapses>>

Send(t, o) == ~IsSSE[o] /\ Begin(t, o, "send") /\ Note(t, o, Writing)
Read(t, o) == Begin(t, o, "read") /\ UNCHANGED overlap

(* No handle, or none that Go knows: -2 for wsSend, NULL for wsReceive and *)
(* sseNextEvent, which ends the stream for an SSEConnection.               *)
NoSuchHandle(t) ==
  LET o == on[t]
  IN  /\ pc[t] \in {"send", "read"}
      /\ pyHandle[o] = None \/ ~InTable(pyHandle[o])
      /\ connected' = IF pc[t] = "read" /\ IsSSE[o] /\ pyHandle[o] # None
                      THEN [connected EXCEPT ![o] = FALSE] ELSE connected
      /\ Return(t)
      /\ UNCHANGED <<cgoVars, pyHandle, conns, got, overlap, lapses, ops>>

(* conn.WriteMessage begins: two at a time may panic.                      *)
BeginWrite(t, from, to) ==
  LET k == pyHandle[on[t]]
  IN  /\ pc[t] = from /\ k # None /\ InTable(k)
      /\ conns' = [conns EXCEPT ![k].writers = @ \cup {t}]
      /\ \/ conns[k].writers # {} /\ panicked' = TRUE
         \/ UNCHANGED panicked
      /\ h' = [h EXCEPT ![t] = k]
      /\ PGoto(t, to)
      /\ UNCHANGED <<issued, valid, pyHandle, connected, on, got, overlap, lapses, ops>>

(* It ends, with an error (-4) on a closed connection.                     *)
EndSend(t) ==
  /\ pc[t] = "writing"
  /\ conns' = [conns EXCEPT ![h[t]].writers = @ \ {t}]
  /\ Return(t)
  /\ UNCHANGED <<cgoVars, pyHandle, connected, got, overlap, lapses, ops>>

(* conn.ReadMessage and NextEvent block.  Nothing keeps a second thread    *)
(* from reading the same connection meanwhile: a data race.                *)
BeginRead(t) ==
  LET k == pyHandle[on[t]]
      another == \E u \in Threads \ {t} : pc[u] = "reading" /\ h[u] = k
  IN  /\ pc[t] = "read" /\ k # None /\ InTable(k)
      /\ conns' = [conns EXCEPT ![k].raced = @ \/ another]
      /\ h' = [h EXCEPT ![t] = k]
      /\ PGoto(t, "reading")
      /\ UNCHANGED <<cgoVars, pyHandle, connected, on, got, overlap, lapses, ops>>

(* Once reads have raced, a read may panic, or return a message out of its *)
(* turn or twice, a part of one or nothing (a "garbled" text stands for    *)
(* them all), for as long as the connection is read: its buffers and its   *)
(* framing are not what they were.                                         *)
RacedRead(t) ==
  LET k == h[t]
  IN  /\ pc[t] = "reading" /\ conns[k].raced
      /\ \/ panicked' = TRUE /\ UNCHANGED got
         \/ got' = [got EXCEPT ![k] = Append(@, "garbled")] /\ UNCHANGED panicked
      /\ Return(t)
      /\ UNCHANGED <<issued, valid, pyHandle, connected, conns, overlap, lapses, ops>>

Here(k) == IF conns[k].read < Len(conns[k].sent) THEN conns[k].sent[conns[k].read + 1] ELSE None

(* As ReadMessage below, dropping a message that came before.              *)
ReadSkipping(t) ==
  LET k == h[t]
  IN  /\ pc[t] = "reading" /\ ~conns[k].raced /\ ~conns[k].closed /\ Here(k) \notin {None, "end"}
      /\ conns' = [conns EXCEPT ![k].read = @ + 1]
      /\ got' = IF conns[k].read = 0 THEN got ELSE [got EXCEPT ![k] = Append(@, Here(k))]
      /\ Return(t)
      /\ UNCHANGED <<cgoVars, pyHandle, connected, overlap, lapses, ops>>

ReadMessage(t) ==
  LET k == h[t]
  IN  /\ pc[t] = "reading" /\ ~conns[k].raced /\ ~conns[k].closed /\ Here(k) \notin {None, "end"}
      /\ conns' = [conns EXCEPT ![k].read = @ + 1]
      /\ got' = [got EXCEPT ![k] = Append(@, Here(k))]
      /\ Return(t)
      /\ UNCHANGED <<cgoVars, pyHandle, connected, overlap, lapses, ops>>

(* The WebSocket is closed, by either side: wsReceive answers with an      *)
(* error, which receive does not look at: it returns an empty text.        *)
ReadFails(t) ==
  LET k == h[t]
  IN  /\ pc[t] = "reading" /\ ~IsSSE[on[t]] /\ ~conns[k].raced
      /\ conns[k].closed \/ Here(k) = "end"
      /\ conns' = [conns EXCEPT ![k].failed = @ + 1]
      /\ panicked' = (panicked \/ conns[k].failed >= MaxFailedReads)
      /\ got' = [got EXCEPT ![k] = Append(@, "")]
      /\ Return(t)
      /\ UNCHANGED <<issued, valid, pyHandle, connected, overlap, lapses, ops>>

(* sseNextEvent at the end of the stream, or on any error: sseConnect has  *)
(* cancelled the context of the response it keeps, so the next read may    *)
(* fail at any time.  Errors and the end are one to next_event.            *)
StreamEnds(t) ==
  /\ pc[t] = "reading" /\ IsSSE[on[t]]
  /\ connected' = [connected EXCEPT ![on[t]] = FALSE]
  /\ lapses' = [lapses EXCEPT ![on[t]] = @ + 1]
  /\ Return(t)
  /\ UNCHANGED <<cgoVars, pyHandle, conns, got, overlap, ops>>

-----------------------------------------------------------------------------
(* close: does nothing unless connected, so not after the end of a stream. *)
Close(t, o) ==
  /\ connected[o] /\ pyHandle[o] # None
  /\ Call(t, o, "close")
  /\ Note(t, o, Connecting \cup Writing)
  /\ UNCHANGED <<cgoVars, pyHandle, connected, conns, h, got, lapses>>

CloseNothing(t) ==
  LET k == pyHandle[on[t]]
  IN  /\ pc[t] = "close" /\ (k = None \/ ~InTable(k))
      /\ PGoto(t, "forget")
      /\ UNCHANGED <<cgoVars, pyHandle, connected, conns, on, h, got, overlap, lapses, ops>>

(* wsClose writes a close frame first; sseClose has nothing to write.      *)
GoClose(t) ==
  \/ pc[t] = "close" /\ ~IsSSE[on[t]] /\ BeginWrite(t, "close", "closing")
  \/ /\ pc[t] = "close" /\ IsSSE[on[t]]
     /\ pyHandle[on[t]] # None /\ InTable(pyHandle[on[t]])
     /\ h' = [h EXCEPT ![t] = pyHandle[on[t]]]
     /\ PGoto(t, "closing")
     /\ UNCHANGED <<cgoVars, pyHandle, connected, conns, on, got, overlap, lapses, ops>>

(* As CloseConn below, giving up the handle already.                       *)
CloseConnFreeing(t) ==
  /\ pc[t] = "closing"
  /\ conns' = [conns EXCEPT ![h[t]].writers = @ \ {t}, ![h[t]].closed = TRUE]
  /\ DeleteHandle(h[t])
  /\ PGoto(t, "free")
  /\ UNCHANGED <<pyHandle, connected, on, h, got, overlap, lapses, ops>>

CloseConn(t) ==
  /\ pc[t] = "closing"
  /\ conns' = [conns EXCEPT ![h[t]].writers = @ \ {t}, ![h[t]].closed = TRUE]
  /\ PGoto(t, "free")
  /\ UNCHANGED <<cgoVars, pyHandle, connected, on, h, got, overlap, lapses, ops>>

(* The entry leaves the table; deleting a handle twice panics.             *)
FreeHandle(t) ==
  /\ pc[t] = "free"
  /\ conns' = [conns EXCEPT ![h[t]].in = FALSE]
  /\ DeleteHandle(h[t])
  /\ PGoto(t, "forget")
  /\ UNCHANGED <<pyHandle, connected, on, h, got, overlap, lapses, ops>>

ForgetHandle(t) ==
  /\ pc[t] = "forget"
  /\ pyHandle' = [pyHandle EXCEPT ![on[t]] = None]
  /\ PGoto(t, "forgotten")
  /\ UNCHANGED <<cgoVars, connected, conns, on, h, got, overlap, lapses, ops>>

ForgetConnected(t) ==
  /\ pc[t] = "forgotten"
  /\ connected' = [connected EXCEPT ![on[t]] = FALSE]
  /\ Return(t)
  /\ UNCHANGED <<cgoVars, pyHandle, conns, got, overlap, lapses, ops>>

(* The next step of a method that was called.                              *)
MethodStep(t) ==
  /\ ~panicked
  /\ \/ \E s \in Streams : GoConnect(t, s)
     \/ ConnectFails(t) \/ SetHandle(t) \/ SetConnected(t)
     \/ NoSuchHandle(t) \/ BeginWrite(t, "send", "writing") \/ EndSend(t)
     \/ BeginRead(t) \/ RacedRead(t) \/ ReadMessage(t) \/ ReadFails(t) \/ StreamEnds(t)
     \/ CloseNothing(t) \/ GoClose(t) \/ CloseConn(t) \/ FreeHandle(t)
     \/ ForgetHandle(t) \/ ForgetConnected(t)

(* Objects share nothing but the numbers of their handles, so a program of *)
(* the model uses one of them.                                             *)
InUse(o) == /\ \A k \in DOMAIN conns : conns[k].obj = o
            /\ \A t \in Threads : on[t] \in {o, None}

StreamNext ==
  \E t \in Threads :
    \/ MethodStep(t)
    \/ \E o \in {x \in Objects : InUse(x)} :
         Connect(t, o) \/ Send(t, o) \/ Read(t, o) \/ Close(t, o)

-----------------------------------------------------------------------------
StreamTypeOK ==
  /\ pyHandle \in [Objects -> 1..issued \cup {None}]
  /\ connected \in [Objects -> BOOLEAN]
  /\ pc \in [Threads -> {"idle", "connect", "sethandle", "setconnected", "send",
       "writing", "read", "reading", "close", "closing", "free", "forget", "forgotten"}]
  /\ DOMAIN conns = DOMAIN got
  /\ \A k \in DOMAIN conns : conns[k].read \in 0..Len(conns[k].sent)

(* What is read from a connection is what the server sent, in order.  A    *)
(* WebSocket that was closed goes on with empty text messages, which no    *)
(* server sent and which stand for failed reads: receive does not look at  *)
(* the error that wsReceive answers with, although its docstring says that *)
(* it raises "WebSocketError: If not connected or receive fails"           *)
(* (websocket.py:235).  They come only after all that was sent, or after   *)
(* close().  Nothing is said of a connection once two of its reads         *)
(* overlapped, which no lock prevents.                                     *)
ReadsFollowTheServer ==
  \A k \in {j \in DOMAIN got : ~conns[j].raced} :
    LET n == conns[k].read
    IN  /\ Len(got[k]) >= n
        /\ SubSeq(got[k], 1, n) = SubSeq(conns[k].sent, 1, n)
        /\ \A i \in (n + 1)..Len(got[k]) : got[k][i] = ""
        /\ Len(got[k]) > n => conns[k].closed \/ Here(k) = "end"

(* The Go side panics, and takes the process with it, only if two threads  *)
(* were in connect, send or close of one object at once, if two of them    *)
(* read one connection at once, or if a program goes on reading a closed   *)
(* WebSocket, as the iterators do.                                         *)
PanicNeedsMisuse ==
  panicked => \/ overlap # {}
              \/ \E k \in DOMAIN conns : conns[k].raced \/ conns[k].failed > MaxFailedReads

(* When no method of an object runs, Go keeps at most the one connection   *)
(* the object refers to, and none once a WebSocket is closed.  Left over   *)
(* are those of overlapping calls, and one for each time that an           *)
(* SSEConnection saw a stream end, which close() then passes over.         *)
NoConnectionLeft ==
  \A o \in Objects :
    o \notin overlap /\ ~panicked /\ (\A t \in Threads : on[t] # o) =>
      LET left == {k \in DOMAIN conns : conns[k].obj = o /\ conns[k].in}
          now == IF connected[o] THEN {pyHandle[o]} ELSE {}
      IN  /\ now \subseteq left
          /\ Cardinality(left \ now) <= lapses[o]
=============================================================================
