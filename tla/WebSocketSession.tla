-------------------------- MODULE WebSocketSession --------------------------
(***************************************************************************)
(* One WebSocket request of the service of golang/index.go:                *)
(* dispatchWebSocketAsync connects, registers the session for the client's *)
(* ws_ commands and starts two goroutines, one that turns the server's     *)
(* messages into frames for the client, one that writes the client's       *)
(* commands to the server.  It waits for both and sends "end".             *)
(*                                                                         *)
(* A frame is put on the channel to writeSocket, which serves its senders  *)
(* in turn (RequestService): here a frame is received when it is taken.    *)
(* ReadyState is left out, nothing reads it.                               *)
(***************************************************************************)
EXTENDS Integers, Sequences, FiniteSets

CONSTANTS
  Capacity,      \* of commandChan (100)
  MaxCommands,   \* bound: commands the client sends
  MaxMessages    \* bound: messages the server sends

ASSUME SessionAssumption == {Capacity, MaxCommands, MaxMessages} \subseteq Nat

VARIABLES
  main,        \* where dispatchWebSocketAsync is
  rd,          \* the goroutine that reads from the server
  wr,          \* the goroutine that writes the commands
  registered,  \* activeWebSockets has the session
  cancelled,   \* the request's context is done
  closing,     \* closeChan is closed
  queue,       \* commandChan
  issued,      \* commands the client has sent
  accepted,    \* those that were queued
  server,      \* the server's end: "open", "closed" by a close frame, "lost"
  sent,        \* messages the server has sent
  inbox,       \* those not read yet
  closeSent,   \* the websocket library has written a close frame
  written,     \* what has been written to the server
  frames       \* the frames the client has received

client == <<issued, accepted>>
link == <<server, sent, inbox>>
vars == <<main, rd, wr, registered, cancelled, closing, queue, client, link,
          closeSent, written, frames>>

Kinds == {"send", "control", "close"}   \* "control": ws_ping and ws_pong
Command == [n : 0..MaxCommands, kind : Kinds]
Body == [n |-> 0, kind |-> "send"]

\* The labels at which a goroutine offers a frame: the frame, and where it goes on.
Offers == [put_failed |-> "ws_error", put_response |-> "response", put_open |-> "ws_open",
           put_end |-> "end", put_message |-> "ws_message", put_close |-> "ws_close",
           put_error |-> "ws_error", put_senderror |-> "ws_error"]
Then == [put_failed |-> "deferred", put_response |-> "put_open", put_open |-> "body",
         put_end |-> "deferred", put_message |-> "reading", put_close |-> "done",
         put_error |-> "done", put_senderror |-> "select"]
Putting == DOMAIN Offers

Init ==
  /\ main = "connecting"
  /\ rd = "none" /\ wr = "none"
  /\ registered = FALSE /\ cancelled = FALSE /\ closing = FALSE
  /\ queue = <<>>
  /\ issued = 0 /\ accepted = <<>>
  /\ server = "open" /\ sent = 0 /\ inbox = 0
  /\ closeSent = FALSE
  /\ written = <<>>
  /\ frames = <<>>

-----------------------------------------------------------------------------
(* readSocket's part, and the server.                                      *)

\* A ws_ command: queued if the session is registered and there is room,
\* otherwise logged and dropped.
Issue(k) ==
  LET c == [n |-> issued + 1, kind |-> k] IN
  /\ issued < MaxCommands
  /\ issued' = issued + 1
  /\ IF registered /\ Len(queue) < Capacity
       THEN queue' = Append(queue, c) /\ accepted' = Append(accepted, c)
       ELSE UNCHANGED <<queue, accepted>>
  /\ UNCHANGED <<main, rd, wr, registered, cancelled, closing, link, closeSent, written, frames>>

\* "cancel", while activeRequests has the request.
Cancel ==
  /\ ~cancelled /\ main # "ended"
  /\ cancelled' = TRUE
  /\ UNCHANGED <<main, rd, wr, registered, closing, queue, client, link, closeSent, written, frames>>

ServerSends ==
  /\ registered /\ server = "open"
  /\ sent < MaxMessages
  /\ sent' = sent + 1 /\ inbox' = inbox + 1
  /\ UNCHANGED <<main, rd, wr, registered, cancelled, closing, queue, client, server,
                 closeSent, written, frames>>

\* The server answers a close frame with its own.
ServerAnswers ==
  /\ server = "open"
  /\ \E i \in 1..Len(written) : written[i].kind = "close"
  /\ server' = "closed"
  /\ UNCHANGED <<main, rd, wr, registered, cancelled, closing, queue, client, sent, inbox,
                 closeSent, written, frames>>

\* It closes of its own accord, or the connection breaks.
ServerLeaves ==
  /\ registered /\ server = "open"
  /\ server' \in {"closed", "lost"}
  /\ UNCHANGED <<main, rd, wr, registered, cancelled, closing, queue, client, sent, inbox,
                 closeSent, written, frames>>

-----------------------------------------------------------------------------
(* dispatchWebSocketAsync.                                                 *)

\* WriteMessage on the connection: refused after a close frame, lost or refused
\* after the connection broke.
Writes(c) == ~closeSent /\ server # "lost" /\ written' = Append(written, c)
Refused == (closeSent \/ server = "lost") /\ UNCHANGED written
Vanishes == ~closeSent /\ server = "lost" /\ UNCHANGED written

\* Dial has a timeout of its own and does not look at the context.
Connect ==
  /\ main = "connecting"
  /\ \/ main' = "put_response" /\ registered' = TRUE
     \/ main' = "put_failed" /\ UNCHANGED registered
  /\ UNCHANGED <<rd, wr, cancelled, closing, queue, client, link, closeSent, written, frames>>

\* writeSocket takes the frame of one of the three goroutines.
MainPut ==
  /\ main \in Putting
  /\ frames' = Append(frames, Offers[main])
  /\ main' = Then[main]
  /\ UNCHANGED <<rd, wr, registered, cancelled, closing, queue, client, link, closeSent, written>>

ReaderPut ==
  /\ rd \in Putting
  /\ frames' = Append(frames, Offers[rd])
  /\ rd' = Then[rd]
  /\ UNCHANGED <<main, wr, registered, cancelled, closing, queue, client, link, closeSent, written>>

WriterPut ==
  /\ wr \in Putting
  /\ frames' = Append(frames, Offers[wr])
  /\ wr' = Then[wr]
  /\ UNCHANGED <<main, rd, registered, cancelled, closing, queue, client, link, closeSent, written>>

\* The request's body, if it has one, is the first message; then the goroutines
\* start.
Start ==
  /\ main = "body"
  /\ UNCHANGED written \/ Writes(Body)
  /\ main' = "waiting" /\ rd' = "reading" /\ wr' = "select"
  /\ UNCHANGED <<registered, cancelled, closing, queue, client, link, closeSent, frames>>

\* ReadMessage: a message, the server's close frame (answered by the library),
\* or an error.
ReadMessage ==
  /\ rd = "reading"
  /\ \/ /\ inbox > 0
        /\ inbox' = inbox - 1 /\ rd' = "put_message"
        /\ UNCHANGED closeSent
     \/ /\ inbox = 0 /\ server = "closed"
        /\ closeSent' = TRUE
        /\ rd' \in {"put_close", "put_error"}   \* by the close code
        /\ UNCHANGED inbox
     \/ /\ server = "lost"
        /\ rd' = "put_error"
        /\ UNCHANGED <<inbox, closeSent>>
  /\ UNCHANGED <<main, wr, registered, cancelled, closing, queue, client, server, sent,
                 written, frames>>

\* A command.  A failed send is reported, a failed ping or pong is not; a close
\* ends the goroutine.
TakeCommand ==
  /\ wr = "select"
  /\ queue # <<>>
  /\ queue' = Tail(queue)
  /\ LET c == Head(queue) IN
     \/ c.kind = "send" /\ (Writes(c) \/ Vanishes) /\ UNCHANGED <<wr, closeSent>>
     \/ c.kind = "send" /\ Refused /\ wr' = "put_senderror" /\ UNCHANGED closeSent
     \/ c.kind = "control" /\ (Writes(c) \/ Refused) /\ UNCHANGED <<wr, closeSent>>
     \/ c.kind = "close" /\ (Writes(c) \/ Refused) /\ wr' = "put_close" /\ closeSent' = TRUE
  /\ UNCHANGED <<main, rd, registered, cancelled, closing, client, link, frames>>

\* The other ready cases of the select: Go picks any.
StopWriting ==
  /\ wr = "select"
  /\ closing \/ cancelled
  /\ wr' = "done"
  /\ UNCHANGED <<main, rd, registered, cancelled, closing, queue, client, link, closeSent,
                 written, frames>>

\* Mutation: closeChan is closed only when the goroutine that writes has ended.
SelectHalf ==
  /\ main = "waiting"
  /\ \/ rd = "done" /\ main' = "join_writer" /\ UNCHANGED closing
     \/ wr = "done" /\ main' = "join_reader" /\ closing' = TRUE
     \/ cancelled /\ main' = "join_both" /\ closing' = TRUE
  /\ UNCHANGED <<rd, wr, registered, cancelled, queue, client, link, closeSent, written, frames>>

\* The select of dispatchWebSocketAsync.
Select ==
  /\ main = "waiting"
  /\ \/ rd = "done" /\ main' = "join_writer"
     \/ wr = "done" /\ main' = "join_reader"
     \/ cancelled /\ main' = "join_both"
  /\ closing' = TRUE
  /\ UNCHANGED <<rd, wr, registered, cancelled, queue, client, link, closeSent, written, frames>>

\* Mutation: a cancelled session waits for the goroutine that writes only.
JoinWriterOnly ==
  /\ \/ main \in {"join_writer", "join_both"} /\ wr = "done"
     \/ main = "join_reader" /\ rd = "done"
  /\ main' = "put_end"
  /\ UNCHANGED <<rd, wr, registered, cancelled, closing, queue, client, link, closeSent,
                 written, frames>>

\* <-readDone and <-writeDone.
Join ==
  /\ \/ main = "join_writer" /\ wr = "done"
     \/ main = "join_reader" /\ rd = "done"
     \/ main = "join_both" /\ rd = "done" /\ wr = "done"
  /\ main' = "put_end"
  /\ UNCHANGED <<rd, wr, registered, cancelled, closing, queue, client, link, closeSent,
                 written, frames>>

\* The deferred functions: the connection is closed, the maps forget the request.
Deferred ==
  /\ main = "deferred"
  /\ main' = "ended"
  /\ registered' = FALSE
  /\ UNCHANGED <<rd, wr, cancelled, closing, queue, client, link, closeSent, written, frames>>

-----------------------------------------------------------------------------
Main == Connect \/ MainPut \/ Start \/ Select \/ Join \/ Deferred
Reader == ReadMessage \/ ReaderPut
Writer == TakeCommand \/ StopWriting \/ WriterPut

Next ==
  \/ \E k \in Kinds : Issue(k)
  \/ Cancel \/ ServerSends \/ ServerAnswers \/ ServerLeaves
  \/ Main \/ Reader \/ Writer

Spec == Init /\ [][Next]_vars

\* Goroutines are scheduled, dialling and writing come back, writeSocket takes
\* frames for ever; the server answers a close frame, and need not do more.
Fairness ==
  WF_vars(Main) /\ WF_vars(Reader) /\ WF_vars(Writer) /\ WF_vars(ServerAnswers)

FairSpec == Spec /\ Fairness

-----------------------------------------------------------------------------
TypeOK ==
  /\ main \in {"connecting", "body", "waiting", "join_writer", "join_reader", "join_both",
               "deferred", "ended"} \cup Putting
  /\ rd \in {"none", "reading", "done"} \cup Putting
  /\ wr \in {"none", "select", "done"} \cup Putting
  /\ {registered, cancelled, closing, closeSent} \subseteq BOOLEAN
  /\ queue \in Seq(Command) /\ Len(queue) <= Capacity
  /\ issued \in 0..MaxCommands /\ accepted \in Seq(Command)
  /\ server \in {"open", "closed", "lost"}
  /\ sent \in 0..MaxMessages /\ inbox \in 0..sent
  /\ written \in Seq(Command)
  /\ frames \in Seq({Offers[l] : l \in Putting})

(* The client's view of a session, three goroutines writing to one         *)
(* channel: a failed connection is one ws_error; otherwise response and    *)
(* ws_open come first, and "end" is last, with a ws_close or ws_error      *)
(* somewhere before it that says why, on every path, cancellation          *)
(* included.                                                               *)
FramesInOrder ==
  \A i \in 1..Len(frames) :
    /\ frames[1] = "ws_error" => Len(frames) = 1
    /\ frames[1] # "ws_error" => /\ (frames[i] = "response") <=> (i = 1)
                                 /\ (frames[i] = "ws_open") <=> (i = 2)
    /\ frames[i] = "end" => /\ i = Len(frames)
                            /\ \E j \in 1..i : frames[j] \in {"ws_close", "ws_error"}

(* What the server receives is what the client sent, in that order and     *)
(* once each, its body first.  A close frame comes last, after everything  *)
(* queued before it, so closing never overtakes a message.                 *)
ServerSeesCommandsInOrder ==
  \A i \in 1..Len(written) :
    /\ \A j \in 1..(i - 1) : written[j].n < written[i].n
    /\ written[i].kind = "close" =>
         /\ i = Len(written)
         /\ \A c \in {accepted[a] : a \in 1..Len(accepted)} :
              c.n < written[i].n => \E j \in 1..i : written[j] = c

(* Every message read from the server reaches the client before "end":     *)
(* none is in the hands of a goroutine nobody waits for.                   *)
MessagesArriveBeforeEnd ==
  main \in {"put_end", "deferred"} /\ frames # <<>> /\ frames[1] = "response" =>
    Cardinality({i \in 1..Len(frames) : frames[i] = "ws_message"}) = sent - inbox

(* Three goroutines share the client's channel and the server's link, and  *)
(* both ends see a session in order and whole.                             *)
BothEndsInOrder ==
  TypeOK /\ FramesInOrder /\ ServerSeesCommandsInOrder /\ MessagesArriveBeforeEnd

(* A session ends once the server has gone, whatever the client was doing, *)
(* and once its close command has been queued and the server answers it.   *)
(* The exception is a cancelled session: cancelling does not close the     *)
(* connection, so the session waits for a server that need not say         *)
(* anything, a queued close command included.                              *)
SessionEnds ==
  (server # "open" \/ \E i \in 1..Len(accepted) : accepted[i].kind = "close")
    ~> (main = "ended" \/ (cancelled /\ server = "open"))
=============================================================================
