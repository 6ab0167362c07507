--------------------------- MODULE RequestService ---------------------------
(***************************************************************************)
(* One client of the request service of golang/index.go (WSEndpoint): the  *)
(* goroutine readSocket takes messages off the client's WebSocket, starts  *)
(* a goroutine dispatcherAsync per request (readProcess), and writeSocket  *)
(* sends the frames all of them put on one unbuffered channel.             *)
(*                                                                         *)
(* Requests carry ids of their own.  Frames keep their type only.  The     *)
(* closed flag of safeChannelWriter stays false: nothing closes chanWrite, *)
(* so writeSocket never returns and setClosed is never reached.            *)
(***************************************************************************)
EXTENDS Integers, Sequences

CONSTANTS
  Https,      \* requests of dispatcherAsync proper
  Streams,    \* requests of dispatchSSEAsync
  Invalid,    \* those whose options make processRequest call log.Fatal
  MaxChunks   \* bound: chunks or events of one response

Reqs == Https \cup Streams

ASSUME ServiceAssumption ==
  /\ Https \cap Streams = {}
  /\ Invalid \subseteq Reqs
  /\ MaxChunks \in Nat

VARIABLES
  peer,     \* the client's end of the socket: "up" or "gone"
  reader,   \* readSocket: "reading", "ended" or "killed"
  writer,   \* writeSocket: the frame it writes, Idle, Killed or Panicked
  active,   \* activeRequests has the request's cancel function
  pc,       \* where each dispatcher is
  ctx,      \* the request's context: "live", "cancelled", "expired"
  source,   \* the body at the server: "open", "failed" or "over"
  chunks,   \* chunks read so far
  seen      \* the frames the client has received

dispVars == <<active, pc, ctx, source, chunks>>
vars == <<peer, reader, writer, dispVars, seen>>

Idle == [of |-> "nobody", frame |-> "none"]
Killed == [of |-> "killed", frame |-> "none"]
Panicked == [of |-> "panicked", frame |-> "none"]

\* The frame a dispatcher offers the channel at each label, and where it goes on.
Offers == [put_response |-> "response", put_data |-> "data", put_last |-> "data",
           put_failure |-> "error", put_error |-> "error", put_end |-> "end"]
\* Mutation: an end follows every error.
ThenEnd == [put_response |-> "loop", put_data |-> "loop", put_last |-> "put_end",
            put_failure |-> "put_end", put_error |-> "put_end", put_end |-> "cleanup"]
Then == [put_response |-> "loop", put_data |-> "loop", put_last |-> "put_end",
         put_failure |-> "put_end", put_error |-> "cleanup", put_end |-> "cleanup"]
Putting == DOMAIN Offers
Running == {"do", "loop", "read", "cleanup"} \cup Putting

Init ==
  /\ peer = "up"
  /\ reader = "reading"
  /\ writer = Idle
  /\ active = [r \in Reqs |-> FALSE]
  /\ pc = [r \in Reqs |-> "new"]
  /\ ctx = [r \in Reqs |-> "live"]
  /\ source = [r \in Reqs |-> "open"]
  /\ chunks = [r \in Reqs |-> 0]
  /\ seen = [r \in Reqs |-> <<>>]

Goto(r, l) == pc' = [pc EXCEPT ![r] = l]

-----------------------------------------------------------------------------
(* readSocket.                                                             *)

\* The process exits with its memory and its sockets: log.Fatal, or a panic
\* nobody recovers.
Exits ==
  /\ pc' = [r \in Reqs |-> IF pc[r] \in Running THEN "killed" ELSE pc[r]]
  /\ active' = [r \in Reqs |-> FALSE]
  /\ peer' = "gone"
  /\ reader' = "killed"
  /\ writer' = Killed

\* processRequest registers the cancel function; readProcess starts dispatcherAsync.
ReadRequest(r) ==
  /\ reader = "reading" /\ peer = "up"
  /\ pc[r] = "new"
  /\ \/ /\ r \notin Invalid
        /\ active' = [active EXCEPT ![r] = TRUE]
        /\ Goto(r, "do")
        /\ UNCHANGED <<peer, reader, writer>>
     \/ /\ r \in Invalid
        /\ Exits
  /\ UNCHANGED <<ctx, source, chunks, seen>>

\* "cancel": under the mutex the function is called and forgotten.
ReadCancel(r) ==
  /\ reader = "reading" /\ peer = "up"
  /\ active[r]
  /\ ctx' = [ctx EXCEPT ![r] = "cancelled"]
  /\ active' = [active EXCEPT ![r] = FALSE]
  /\ UNCHANGED <<peer, reader, writer, pc, source, chunks, seen>>

\* "exit": a close frame and Close.  The frame is written while writeSocket may
\* be writing too.  The websocket library panics in the goroutine that notices:
\* readSocket's panic ends the process, the one of writeSocket ends only the HTTP
\* handler it runs in, and then nobody takes frames off the channel.
ReadExit ==
  /\ reader = "reading" /\ peer = "up"
  /\ \/ /\ peer' = "gone" /\ reader' = "ended"
        /\ UNCHANGED <<writer, active, pc>>
     \/ /\ writer \notin {Idle, Panicked}
        /\ peer' = "gone" /\ reader' = "ended"
        /\ writer' = Panicked
        /\ UNCHANGED <<active, pc>>
     \/ /\ writer \notin {Idle, Panicked}
        /\ Exits
  /\ UNCHANGED <<ctx, source, chunks, seen>>

\* A message that is not JSON ends readSocket; the connection stays.
ReadGarbage ==
  /\ reader = "reading" /\ peer = "up"
  /\ reader' = "ended"
  /\ UNCHANGED <<peer, writer, dispVars, seen>>

\* The client goes away.
Disconnect ==
  /\ peer = "up"
  /\ peer' = "gone"
  /\ UNCHANGED <<reader, writer, dispVars, seen>>

ReadError ==
  /\ reader = "reading" /\ peer = "gone"
  /\ reader' = "ended"
  /\ UNCHANGED <<peer, writer, dispVars, seen>>

-----------------------------------------------------------------------------
(* writeSocket and safeChannelWriter.write.                                *)

\* The rendezvous on the channel.
Take(r) ==
  /\ writer = Idle
  /\ pc[r] \in Putting
  /\ writer' = [of |-> r, frame |-> Offers[pc[r]]]
  /\ Goto(r, Then[pc[r]])
  /\ UNCHANGED <<peer, reader, active, ctx, source, chunks, seen>>

\* Mutation: writeSocket takes nothing more once a write fails.
WriteStopping ==
  /\ writer \notin {Idle, Killed, Panicked}
  /\ peer = "up"
  /\ writer' = Idle
  /\ seen' = [seen EXCEPT ![writer.of] = Append(@, writer.frame)]
  /\ UNCHANGED <<peer, reader, dispVars>>

\* A failed WriteMessage is logged and the loop goes on.
Write ==
  /\ writer \notin {Idle, Killed, Panicked}
  /\ writer' = Idle
  /\ seen' = IF peer = "up" THEN [seen EXCEPT ![writer.of] = Append(@, writer.frame)] ELSE seen
  /\ UNCHANGED <<peer, reader, dispVars>>

-----------------------------------------------------------------------------
(* dispatcherAsync and dispatchSSEAsync.                                   *)

\* client.Do: a response, an error frame, or a panic that is recovered
\* (RoundTripper shows one) and sends nothing.
Do(r) ==
  /\ r \in Https
  /\ pc[r] = "do"
  /\ \E l \in {"put_response", "put_error", "cleanup"} : Goto(r, l)
  /\ UNCHANGED <<peer, reader, writer, active, ctx, source, chunks, seen>>

\* SSEClient.Connect: likewise; an answer that is not an event stream is an
\* error.
ConnectStream(r) ==
  /\ r \in Streams
  /\ pc[r] = "do"
  /\ \E l \in {"put_response", "put_error", "cleanup"} : Goto(r, l)
  /\ UNCHANGED <<peer, reader, writer, active, ctx, source, chunks, seen>>

\* The top of the loop: `case <-ctx.Done()`.
Loop(r) ==
  /\ pc[r] = "loop"
  /\ Goto(r, IF ctx[r] = "live" THEN "read" ELSE "put_end")
  /\ UNCHANGED <<peer, reader, writer, active, ctx, source, chunks, seen>>

\* resp.Body.Read: the context is looked at again, then the error; the last
\* chunk may come with io.EOF; a read of nothing is repeated.
BodyRead(r) ==
  /\ r \in Https
  /\ pc[r] = "read"
  /\ \/ /\ ctx[r] # "live" \/ source[r] = "over"
        /\ Goto(r, "put_end")
        /\ UNCHANGED <<source, chunks>>
     \/ /\ ctx[r] = "live" /\ source[r] = "failed"
        /\ Goto(r, "put_failure")
        /\ UNCHANGED <<source, chunks>>
     \/ /\ ctx[r] = "live" /\ source[r] = "open" /\ chunks[r] < MaxChunks
        /\ chunks' = [chunks EXCEPT ![r] = @ + 1]
        /\ \/ Goto(r, "put_data") /\ UNCHANGED source
           \/ Goto(r, "put_last") /\ source' = [source EXCEPT ![r] = "over"]
     \/ /\ ctx[r] = "live" /\ source[r] = "open"
        /\ Goto(r, "loop")
        /\ UNCHANGED <<source, chunks>>
  /\ UNCHANGED <<peer, reader, writer, active, ctx, seen>>

\* What NextEvent may return: an event, the scanner's error (also when the
\* context ends), or (nil, nil) at the end of the stream, which the scanner
\* does not report as an error.
NextEvent(r) ==
  {x \in {"event", "error", "nothing"} :
     \/ x = "event" /\ source[r] = "open" /\ chunks[r] < MaxChunks
     \/ x = "error" /\ (source[r] = "failed" \/ ctx[r] # "live")
     \/ x = "nothing" /\ source[r] = "over"}

\* An event is sent, an error ends the loop, and with nothing it goes on.
EventRead(r) ==
  /\ r \in Streams
  /\ pc[r] = "read"
  /\ \E x \in NextEvent(r) :
       /\ Goto(r, [event |-> "put_data", error |-> "put_end", nothing |-> "loop"][x])
       /\ chunks' = [chunks EXCEPT ![r] = IF x = "event" THEN @ + 1 ELSE @]
  /\ UNCHANGED <<peer, reader, writer, active, ctx, source, seen>>

\* Mutation: the entry of activeRequests is removed only after a response.
CleanupLeaving(r) ==
  /\ pc[r] = "cleanup"
  /\ active' = [active EXCEPT ![r] = @ /\ chunks[r] = 0]
  /\ Goto(r, "ended")
  /\ UNCHANGED <<peer, reader, writer, ctx, source, chunks, seen>>

\* The deferred functions.
Cleanup(r) ==
  /\ pc[r] = "cleanup"
  /\ active' = [active EXCEPT ![r] = FALSE]
  /\ Goto(r, "ended")
  /\ UNCHANGED <<peer, reader, writer, ctx, source, chunks, seen>>

\* The server ends or breaks the body while it is being read.
ServerEnds(r) ==
  /\ pc[r] \in {"put_response", "loop", "read", "put_data"}
  /\ source[r] = "open"
  /\ \E s \in {"over", "failed"} : source' = [source EXCEPT ![r] = s]
  /\ UNCHANGED <<peer, reader, writer, active, pc, ctx, chunks, seen>>

\* The timeout of processRequest; SSE contexts have none.
Expire(r) ==
  /\ r \in Https
  /\ pc[r] \in Running
  /\ ctx[r] = "live"
  /\ ctx' = [ctx EXCEPT ![r] = "expired"]
  /\ UNCHANGED <<peer, reader, writer, active, pc, source, chunks, seen>>

-----------------------------------------------------------------------------
Dispatcher(r) ==
  \/ Do(r) \/ ConnectStream(r) \/ Loop(r) \/ BodyRead(r) \/ EventRead(r) \/ Cleanup(r)
Read == \/ \E r \in Reqs : ReadRequest(r) \/ ReadCancel(r)
        \/ ReadExit \/ ReadGarbage \/ ReadError

Next ==
  \/ Read \/ Disconnect \/ Write
  \/ \E r \in Reqs : Take(r) \/ Dispatcher(r) \/ ServerEnds(r)
  \/ \E r \in Https : Expire(r)

Spec == Init /\ [][Next]_vars

\* Goroutines are scheduled, the channel serves every blocked sender in turn,
\* and the timeout of an HTTP request fires.  An event stream may stay silent,
\* and a client need not send anything.
Fairness ==
  /\ WF_vars(Write)
  /\ \A r \in Reqs \ Invalid : SF_vars(Take(r)) /\ WF_vars(Dispatcher(r))
  /\ \A r \in Https \ Invalid : WF_vars(Expire(r))

FairSpec == Spec /\ Fairness

-----------------------------------------------------------------------------
Frames == {"response", "data", "error", "end"}

TypeOK ==
  /\ peer \in {"up", "gone"}
  /\ reader \in {"reading", "ended", "killed"}
  /\ writer \in {Idle, Killed, Panicked} \cup [of : Reqs, frame : Frames]
  /\ active \in [Reqs -> BOOLEAN]
  /\ pc \in [Reqs -> Running \cup {"new", "ended", "killed"}]
  /\ ctx \in [Reqs -> {"live", "cancelled", "expired"}]
  /\ source \in [Reqs -> {"open", "failed", "over"}]
  /\ chunks \in [Reqs -> 0..MaxChunks]
  /\ seen \in [Reqs -> Seq(Frames)]

(* activeRequests holds exactly what can still be cancelled: every running *)
(* request nobody cancelled, and nothing of a request that has ended, on   *)
(* whatever path, panics and failed writes included.                       *)
ActiveIsCancellable ==
  /\ TypeOK
  /\ \A r \in Reqs : pc[r] # "killed" =>
       (active[r] <=> pc[r] \in Running /\ ctx[r] # "cancelled")

(* What a client receives for one request is an answer in order: one       *)
(* error, or a response, its data and one end, with an error only between  *)
(* the data and the end, however the dispatchers' writes interleave.       *)
FramesInOrder ==
  \A r \in Reqs :
    \A i \in 1..Len(seen[r]) :
      /\ (seen[r][i] = "response") <=> (i = 1 /\ seen[r][1] # "error")
      /\ seen[r][i] = "end" => i = Len(seen[r])
      /\ seen[r][i] = "error" => \A j \in (i + 1)..Len(seen[r]) : i > 1 /\ seen[r][j] = "end"

(* An HTTP response that ends without an error frame is whole, unless its  *)
(* context ended: a body that breaks off is always reported.               *)
EndMeansComplete ==
  \A r \in Https :
    (\E i \in 1..Len(seen[r]) : seen[r][i] = "end") /\ (\A i \in 1..Len(seen[r]) : seen[r][i] # "error")
      => source[r] = "over" \/ ctx[r] # "live"

(* The frames of a request tell its story: in order, and no silent end.    *)
FramesTellTheStory == FramesInOrder /\ EndMeansComplete

(* Every HTTP request ends, and every stream that is cancelled, also when  *)
(* the client has gone and nobody reads the frames any more: only the      *)
(* panic of writeSocket that "exit" can cause leaves dispatchers blocked.  *)
EveryRequestEnds ==
  \A r \in Reqs :
    ((pc[r] = "do" /\ r \in Https) \/ (pc[r] \in Running /\ ctx[r] = "cancelled"))
      ~> (pc[r] \in {"ended", "killed"} \/ writer = Panicked)
=============================================================================
