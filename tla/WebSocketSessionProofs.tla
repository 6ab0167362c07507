----------------------- MODULE WebSocketSessionProofs -----------------------
(***************************************************************************)
(* Safety of WebSocketSession for every capacity of the command queue and  *)
(* any number of commands and messages.  BothEndsInOrder looks at what the *)
(* two ends have received; to be kept by every step it needs where each of *)
(* the three goroutines is (only one at a time may be past the others),    *)
(* and what the queue still holds while the link to the server works.      *)
(***************************************************************************)
EXTENDS WebSocketSession, FiniteSetTheorems, TLAPS

Talking == {"waiting", "join_writer", "join_reader", "join_both", "put_end"}
Leaving == {"deferred", "ended"}

(* The two goroutines run only while dispatchWebSocketAsync waits for      *)
(* them, and each offers its own frames.                                   *)
Goroutines ==
  /\ main \in {"connecting", "put_failed", "put_response", "put_open", "body"}
              \cup Talking \cup Leaving
  /\ rd \in {"none", "reading", "put_message", "put_close", "put_error", "done"}
  /\ wr \in {"none", "select", "put_close", "put_senderror", "done"}
  /\ main \notin Talking => rd \in {"none", "done"} /\ wr \in {"none", "done"}
  /\ main \in Talking => rd # "none" /\ wr # "none"
  /\ main \in {"join_writer", "put_end"} => rd = "done"
  /\ main \in {"join_reader", "put_end"} => wr = "done"

(* A session under way: response, ws_open, and no "end".                   *)
Opened ==
  /\ Len(frames) >= 2 /\ frames[1] = "response" /\ frames[2] = "ws_open"
  /\ \A i \in 3..Len(frames) : frames[i] \in {"ws_message", "ws_close", "ws_error"}

Reason == \E j \in 1..Len(frames) : frames[j] \in {"ws_close", "ws_error"}

(* What the client has received by then.                                   *)
FramesSoFar ==
  /\ main \in {"connecting", "put_failed", "put_response"} => frames = <<>>
  /\ main = "put_open" => Len(frames) = 1 /\ frames[1] = "response"
  /\ main = "body" => Opened /\ Len(frames) = 2
  /\ main \in Talking => Opened /\ (rd = "done" => Reason)

(* The messages that were handed on, and the one in the reader's hands.    *)
Messages == {i \in 1..Len(frames) : frames[i] = "ws_message"}

MessagesCounted ==
  /\ IsFiniteSet(Messages)
  /\ Cardinality(Messages) + (IF rd = "put_message" THEN 1 ELSE 0) = sent - inbox

(* The queue is sorted, and newer than everything written.                 *)
QueueSorted ==
  /\ \A i \in 1..Len(queue) : queue[i].n \in 1..issued
  /\ \A i, j \in 1..Len(queue) : i < j => queue[i].n < queue[j].n
  /\ \A i \in 1..Len(written), j \in 1..Len(queue) : written[i].n < queue[j].n
  /\ \A i \in 1..Len(written) : written[i].n <= issued

(* While the link works an accepted command is written or still queued.    *)
NothingSkipped ==
  ~closeSent /\ server # "lost" =>
    \A a \in 1..Len(accepted) :
      \/ \E j \in 1..Len(written) : written[j] = accepted[a]
      \/ \E j \in 1..Len(queue) : queue[j] = accepted[a]

(* Nothing is written before the body, and the library knows of a close    *)
(* frame that was written.                                                 *)
WrittenSoFar ==
  /\ main \in {"connecting", "put_failed", "put_response", "put_open", "body"} => written = <<>>
  /\ \A i \in 1..Len(written) : written[i].kind = "close" => closeSent

(* The inductive invariants.                                               *)
ClientInv == TypeOK /\ Goroutines /\ FramesSoFar /\ FramesInOrder /\ MessagesCounted
ServerInv == QueueSorted /\ NothingSkipped /\ WrittenSoFar /\ ServerSeesCommandsInOrder

-----------------------------------------------------------------------------
(* Facts the steps share.                                                  *)

AllFrames == {Offers[l] : l \in Putting}

(* What is offered at each label and where the goroutine goes on.          *)
LEMMA ChannelFacts ==
  /\ Putting = {"put_failed", "put_response", "put_open", "put_end", "put_message",
                "put_close", "put_error", "put_senderror"}
  /\ Offers["put_failed"] = "ws_error" /\ Then["put_failed"] = "deferred"
  /\ Offers["put_response"] = "response" /\ Then["put_response"] = "put_open"
  /\ Offers["put_open"] = "ws_open" /\ Then["put_open"] = "body"
  /\ Offers["put_end"] = "end" /\ Then["put_end"] = "deferred"
  /\ Offers["put_message"] = "ws_message" /\ Then["put_message"] = "reading"
  /\ Offers["put_close"] = "ws_close" /\ Then["put_close"] = "done"
  /\ Offers["put_error"] = "ws_error" /\ Then["put_error"] = "done"
  /\ Offers["put_senderror"] = "ws_error" /\ Then["put_senderror"] = "select"
<1>1. Putting = {"put_failed", "put_response", "put_open", "put_end", "put_message",
                 "put_close", "put_error", "put_senderror"}
  BY DEF Putting, Offers
<1>2. /\ Offers["put_failed"] = "ws_error" /\ Offers["put_response"] = "response"
      /\ Offers["put_open"] = "ws_open" /\ Offers["put_end"] = "end"
      /\ Offers["put_message"] = "ws_message" /\ Offers["put_close"] = "ws_close"
      /\ Offers["put_error"] = "ws_error" /\ Offers["put_senderror"] = "ws_error"
  BY DEF Offers
<1>3. /\ Then["put_failed"] = "deferred" /\ Then["put_response"] = "put_open"
      /\ Then["put_open"] = "body" /\ Then["put_end"] = "deferred"
      /\ Then["put_message"] = "reading" /\ Then["put_close"] = "done"
      /\ Then["put_error"] = "done" /\ Then["put_senderror"] = "select"
  BY DEF Then
<1> QED BY <1>1, <1>2, <1>3

(* Appending to a sequence.                                                *)
LEMMA AppendFacts ==
  ASSUME NEW S, NEW s \in Seq(S), NEW e \in S
  PROVE  /\ Append(s, e) \in Seq(S) /\ Len(s) \in Nat
         /\ Len(Append(s, e)) = Len(s) + 1
         /\ Append(s, e)[Len(s) + 1] = e
         /\ \A i \in 1..Len(s) : Append(s, e)[i] = s[i]
  OBVIOUS

(* Taking the head off a sequence.                                         *)
LEMMA TakeFacts ==
  ASSUME NEW S, NEW s \in Seq(S), s # <<>>
  PROVE  /\ Head(s) \in S /\ Head(s) = s[1]
         /\ Tail(s) \in Seq(S) /\ Len(s) \in Nat \ {0}
         /\ Len(Tail(s)) = Len(s) - 1
         /\ \A i \in 1..Len(Tail(s)) : Tail(s)[i] = s[i + 1]
  OBVIOUS

(* A frame that is no message leaves the count of messages, a message      *)
(* raises it by one.                                                       *)
LEMMA CountPut ==
  ASSUME NEW S, frames \in Seq(S), NEW f \in S, frames' = Append(frames, f),
         IsFiniteSet(Messages)
  PROVE  /\ IsFiniteSet(Messages') /\ Cardinality(Messages) \in Nat
         /\ f = "ws_message" => Cardinality(Messages') = Cardinality(Messages) + 1
         /\ f # "ws_message" => Cardinality(Messages') = Cardinality(Messages)
<1>1. /\ Len(frames) \in Nat /\ Len(frames') = Len(frames) + 1
      /\ frames'[Len(frames) + 1] = f /\ \A i \in 1..Len(frames) : frames'[i] = frames[i]
  BY AppendFacts
<1>2. Cardinality(Messages) \in Nat
  BY FS_CardinalityType
<1>3. CASE f = "ws_message"
  <2>1. Messages' = Messages \cup {Len(frames) + 1} /\ Len(frames) + 1 \notin Messages
    BY <1>1, <1>3 DEF Messages
  <2>2. IsFiniteSet(Messages') /\ Cardinality(Messages') = Cardinality(Messages) + 1
    BY <2>1, FS_AddElement
  <2> QED BY <1>2, <1>3, <2>2
<1>4. CASE f # "ws_message"
  <2>1. Messages' = Messages
    BY <1>1, <1>4 DEF Messages
  <2> QED BY <1>2, <1>4, <2>1
<1> QED BY <1>3, <1>4

-----------------------------------------------------------------------------
(* Before the connection nothing was sent either way.                      *)
LEMMA InitInv == Init => ClientInv /\ ServerInv
<1> SUFFICES ASSUME Init PROVE ClientInv /\ ServerInv
  OBVIOUS
<1>1. frames = <<>> /\ written = <<>> /\ queue = <<>> /\ accepted = <<>>
      /\ Len(frames) = 0 /\ Len(written) = 0 /\ Len(queue) = 0 /\ Len(accepted) = 0
  BY DEF Init
<1>2. TypeOK
  <2>1. {registered, cancelled, closing, closeSent} \subseteq BOOLEAN
    BY DEF Init
  <2>2. /\ issued \in 0..MaxCommands /\ sent \in 0..MaxMessages /\ inbox \in 0..sent
        /\ Len(queue) <= Capacity
    BY <1>1, SessionAssumption DEF Init
  <2>3. /\ queue \in Seq(Command) /\ accepted \in Seq(Command) /\ written \in Seq(Command)
        /\ frames \in Seq({Offers[l] : l \in Putting})
    BY <1>1
  <2> QED BY <2>1, <2>2, <2>3 DEF Init, TypeOK
<1>3. Goroutines /\ FramesSoFar
  BY <1>1 DEF Init, Goroutines, FramesSoFar, Talking, Leaving
<1>4. FramesInOrder
  BY <1>1 DEF FramesInOrder
<1>5. MessagesCounted
  <2>1. Messages = {}
    BY <1>1 DEF Messages
  <2> QED BY <2>1, FS_EmptySet DEF MessagesCounted, Init
<1>6. ServerInv
  BY <1>1 DEF ServerInv, QueueSorted, NothingSkipped, WrittenSoFar, ServerSeesCommandsInOrder
<1> QED BY <1>2, <1>3, <1>4, <1>5, <1>6 DEF ClientInv

-----------------------------------------------------------------------------
(* Types.                                                                  *)

(* Every step keeps the types.                                             *)
LEMMA NextType ==
  ASSUME TypeOK, Goroutines, Next
  PROVE  TypeOK'
<1>0. /\ main \in {"connecting", "body", "waiting", "join_writer", "join_reader", "join_both",
                   "deferred", "ended"} \cup Putting
      /\ rd \in {"none", "reading", "done"} \cup Putting
      /\ wr \in {"none", "select", "done"} \cup Putting
      /\ registered \in BOOLEAN /\ cancelled \in BOOLEAN /\ closing \in BOOLEAN
      /\ closeSent \in BOOLEAN
  BY DEF TypeOK
<1>a. /\ queue \in Seq(Command) /\ Len(queue) <= Capacity /\ accepted \in Seq(Command)
      /\ written \in Seq(Command) /\ frames \in Seq(AllFrames)
  BY DEF TypeOK, AllFrames
<1>b. /\ issued \in 0..MaxCommands /\ server \in {"open", "closed", "lost"}
      /\ sent \in 0..MaxMessages /\ inbox \in 0..sent
      /\ Capacity \in Nat /\ MaxCommands \in Nat /\ MaxMessages \in Nat
  BY SessionAssumption DEF TypeOK
<1> USE DEF client, link
<1> DEFINE Labels == main' \in {"connecting", "body", "waiting", "join_writer", "join_reader",
                                "join_both", "deferred", "ended"} \cup Putting
                     /\ rd' \in {"none", "reading", "done"} \cup Putting
                     /\ wr' \in {"none", "select", "done"} \cup Putting
           Flags == registered' \in BOOLEAN /\ cancelled' \in BOOLEAN /\ closing' \in BOOLEAN
                    /\ closeSent' \in BOOLEAN
           Seqs == queue' \in Seq(Command) /\ Len(queue') <= Capacity /\ accepted' \in Seq(Command)
                   /\ written' \in Seq(Command) /\ frames' \in Seq(AllFrames)
           Nums == issued' \in 0..MaxCommands /\ server' \in {"open", "closed", "lost"}
                   /\ sent' \in 0..MaxMessages /\ inbox' \in 0..sent'
<1> SUFFICES Labels /\ Flags /\ Seqs /\ Nums
  BY DEF TypeOK, AllFrames
<1>1. ASSUME NEW k \in Kinds, Issue(k) PROVE Labels /\ Flags /\ Seqs /\ Nums
  <2>1. Labels /\ Flags
    BY <1>0, <1>1 DEF Issue
  <2>2. Nums
    BY <1>b, <1>1 DEF Issue
  <2>3. Seqs
    <3>1. [n |-> issued + 1, kind |-> k] \in Command
      BY <1>b, <1>1 DEF Issue, Command
    <3>2. UNCHANGED <<written, frames>>
      BY <1>1 DEF Issue
    <3>3. CASE UNCHANGED <<queue, accepted>>
      BY <1>a, <3>2, <3>3
    <3>4. CASE /\ Len(queue) < Capacity
               /\ queue' = Append(queue, [n |-> issued + 1, kind |-> k])
               /\ accepted' = Append(accepted, [n |-> issued + 1, kind |-> k])
      BY <1>a, <1>b, <3>1, <3>2, <3>4, AppendFacts
    <3> QED BY <1>1, <3>3, <3>4 DEF Issue
  <2> QED BY <2>1, <2>2, <2>3
<1>2. CASE Cancel
  BY <1>0, <1>a, <1>b, <1>2 DEF Cancel
<1>3. CASE ServerSends
  BY <1>0, <1>a, <1>b, <1>3 DEF ServerSends
<1>4. CASE ServerAnswers \/ ServerLeaves
  BY <1>0, <1>a, <1>b, <1>4 DEF ServerAnswers, ServerLeaves
<1>5. ASSUME NEW l \in Putting, frames' = Append(frames, Offers[l])
      PROVE  frames' \in Seq(AllFrames)
  BY <1>a, <1>5, AppendFacts DEF AllFrames
<1>7. CASE MainPut \/ ReaderPut \/ WriterPut
  <2>1. CASE MainPut
    <3>1. frames' \in Seq(AllFrames)
      BY <1>5, <2>1 DEF MainPut
    <3>2. main' \in {"deferred", "put_open", "body"}
      BY <2>1, ChannelFacts DEF MainPut, Goroutines, Talking, Leaving
    <3> QED BY <1>0, <1>a, <1>b, <2>1, <3>1, <3>2, ChannelFacts DEF MainPut
  <2>2. CASE ReaderPut
    <3>1. frames' \in Seq(AllFrames)
      BY <1>5, <2>2 DEF ReaderPut
    <3>2. rd' \in {"reading", "done"}
      BY <2>2, ChannelFacts DEF ReaderPut, Goroutines
    <3> QED BY <1>0, <1>a, <1>b, <2>2, <3>1, <3>2 DEF ReaderPut
  <2>3. CASE WriterPut
    <3>1. frames' \in Seq(AllFrames)
      BY <1>5, <2>3 DEF WriterPut
    <3>2. wr' \in {"select", "done"}
      BY <2>3, ChannelFacts DEF WriterPut, Goroutines
    <3> QED BY <1>0, <1>a, <1>b, <2>3, <3>1, <3>2 DEF WriterPut
  <2> QED BY <1>7, <2>1, <2>2, <2>3
<1>8. CASE Connect \/ Select \/ Join \/ Deferred \/ StopWriting
  BY <1>0, <1>a, <1>b, <1>8, ChannelFacts DEF Connect, Select, Join, Deferred, StopWriting
<1>9. CASE Start
  <2>1. Body \in Command
    BY <1>b DEF Body, Command, Kinds
  <2>2. written' \in Seq(Command)
    BY <1>a, <1>9, <2>1, AppendFacts DEF Start, Writes
  <2> QED BY <1>0, <1>a, <1>b, <1>9, <2>2 DEF Start
<1>10. CASE ReadMessage
  <2>1. Labels
    BY <1>0, <1>10, ChannelFacts DEF ReadMessage
  <2>2. Flags
    BY <1>0, <1>10 DEF ReadMessage
  <2>3. Nums
    BY <1>b, <1>10 DEF ReadMessage
  <2>4. Seqs
    BY <1>a, <1>10 DEF ReadMessage
  <2> QED BY <2>1, <2>2, <2>3, <2>4
<1>11. CASE TakeCommand
  <2>1. /\ Head(queue) \in Command /\ queue' \in Seq(Command) /\ Len(queue') = Len(queue) - 1
        /\ Len(queue) \in Nat
    BY <1>a, <1>11, TakeFacts DEF TakeCommand
  <2>2. written' = written \/ written' = Append(written, Head(queue))
    <3>1. Writes(Head(queue)) \/ Refused \/ Vanishes
      BY <1>11 DEF TakeCommand
    <3> QED BY <3>1 DEF Writes, Refused, Vanishes
  <2>3. written' \in Seq(Command)
    <3>1. Append(written, Head(queue)) \in Seq(Command)
      BY <1>a, <2>1, AppendFacts
    <3> QED BY <1>a, <2>2, <3>1
  <2>4. Labels /\ Flags
    <3>1. /\ wr' \in {"select", "put_senderror", "put_close"}
          /\ closeSent' \in {TRUE, closeSent}
      BY <1>11 DEF TakeCommand
    <3> QED BY <1>0, <1>11, <3>1, ChannelFacts DEF TakeCommand
  <2>5. UNCHANGED <<issued, accepted, server, sent, inbox, frames>>
    BY <1>11 DEF TakeCommand
  <2> QED BY <1>a, <1>b, <2>1, <2>3, <2>4, <2>5
<1> HIDE DEF Labels, Flags, Seqs, Nums
<1> QED
  BY <1>1, <1>2, <1>3, <1>4, <1>7, <1>8, <1>9, <1>10, <1>11 DEF Next, Main, Reader, Writer

-----------------------------------------------------------------------------
(* The client's end.                                                       *)

(* An open session is in order, and stays open with a frame of one of the  *)
(* two goroutines.                                                         *)
LEMMA OpenedFacts ==
  ASSUME NEW S, frames \in Seq(S)
  PROVE  /\ Opened => FramesInOrder
         /\ \A f \in S : /\ Opened /\ frames' = Append(frames, f)
                         /\ f \in {"ws_message", "ws_close", "ws_error"}
                         => /\ Opened' /\ FramesInOrder'
                            /\ Reason => Reason'
                            /\ f # "ws_message" => Reason'
<1>1. Opened => FramesInOrder
  <2> SUFFICES ASSUME Opened, NEW i \in 1..Len(frames)
               PROVE  /\ (frames[i] = "response") <=> (i = 1)
                      /\ (frames[i] = "ws_open") <=> (i = 2)
                      /\ frames[i] # "end" /\ frames[1] # "ws_error"
    BY DEF FramesInOrder
  <2>1. i = 1 \/ i = 2 \/ i \in 3..Len(frames)
    OBVIOUS
  <2> QED BY <2>1 DEF Opened
<1>2. ASSUME NEW f \in S, Opened, frames' = Append(frames, f),
             f \in {"ws_message", "ws_close", "ws_error"}
      PROVE  /\ Opened' /\ (Reason => Reason') /\ (f # "ws_message" => Reason')
             /\ FramesInOrder'
  <2>1. /\ Len(frames) \in Nat /\ Len(frames') = Len(frames) + 1
        /\ frames'[Len(frames) + 1] = f /\ \A i \in 1..Len(frames) : frames'[i] = frames[i]
    BY <1>2, AppendFacts
  <2>2. /\ Len(frames') >= 2 /\ frames'[1] = "response" /\ frames'[2] = "ws_open"
        /\ \A i \in 3..Len(frames') : frames'[i] \in {"ws_message", "ws_close", "ws_error"}
    <3>1. Len(frames) >= 2 /\ frames[1] = "response" /\ frames[2] = "ws_open"
      BY <1>2 DEF Opened
    <3>2. ASSUME NEW i \in 3..Len(frames') PROVE frames'[i] \in {"ws_message", "ws_close", "ws_error"}
      <4>1. CASE i = Len(frames) + 1
        BY <1>2, <2>1, <4>1
      <4>2. CASE i \in 3..Len(frames)
        BY <1>2, <2>1, <4>2 DEF Opened
      <4> QED BY <2>1, <4>1, <4>2
    <3> QED BY <2>1, <3>1, <3>2
  <2>3. Reason => Reason'
    BY <2>1 DEF Reason
  <2>4. f # "ws_message" => Reason'
    BY <1>2, <2>1 DEF Reason
  <2>5. FramesInOrder'
    <3> SUFFICES ASSUME NEW i \in 1..Len(frames')
                 PROVE  /\ (frames'[i] = "response") <=> (i = 1)
                        /\ (frames'[i] = "ws_open") <=> (i = 2)
                        /\ frames'[i] # "end" /\ frames'[1] # "ws_error"
      BY DEF FramesInOrder
    <3>1. i = 1 \/ i = 2 \/ i \in 3..Len(frames')
      BY <2>1
    <3> QED BY <2>2, <3>1
  <2> QED BY <2>2, <2>3, <2>4, <2>5 DEF Opened
<1> QED BY <1>1, <1>2

(* dispatchWebSocketAsync's own frames: the failed connection's only one,  *)
(* the two that open the session, and the one that ends it.                *)
LEMMA MainPutClient ==
  ASSUME ClientInv, MainPut
  PROVE  Goroutines' /\ FramesSoFar' /\ FramesInOrder' /\ MessagesCounted'
<1>0. /\ TypeOK /\ Goroutines /\ FramesSoFar /\ FramesInOrder /\ MessagesCounted
      /\ frames \in Seq(AllFrames)
  BY DEF ClientInv, TypeOK, AllFrames
<1>1. /\ frames' = Append(frames, Offers[main]) /\ main' = Then[main] /\ main \in Putting
      /\ UNCHANGED <<rd, wr, sent, inbox>>
  BY DEF MainPut, link
<1>2. /\ Len(frames) \in Nat /\ Len(frames') = Len(frames) + 1
      /\ frames'[Len(frames) + 1] = Offers[main]
      /\ \A i \in 1..Len(frames) : frames'[i] = frames[i]
  BY <1>0, <1>1, AppendFacts DEF AllFrames
<1>3. \/ main = "put_failed" /\ Offers[main] = "ws_error" /\ main' = "deferred"
      \/ main = "put_response" /\ Offers[main] = "response" /\ main' = "put_open"
      \/ main = "put_open" /\ Offers[main] = "ws_open" /\ main' = "body"
      \/ main = "put_end" /\ Offers[main] = "end" /\ main' = "deferred"
  BY <1>0, <1>1, ChannelFacts DEF Goroutines, Talking, Leaving
<1>4. MessagesCounted'
  <2>1. Offers[main] \in AllFrames /\ Offers[main] # "ws_message"
    BY <1>1, <1>3 DEF AllFrames
  <2>2. IsFiniteSet(Messages') /\ Cardinality(Messages') = Cardinality(Messages)
    BY <1>0, <1>1, <2>1, CountPut DEF MessagesCounted
  <2> QED BY <1>0, <1>1, <2>2 DEF MessagesCounted
<1>5. Goroutines'
  BY <1>0, <1>1, <1>3 DEF Goroutines, Talking, Leaving
<1>6. CASE main \in {"put_failed", "put_response"}
  <2>1. Len(frames) = 0
    BY <1>0, <1>6 DEF FramesSoFar
  <2>2. Len(frames') = 1 /\ frames'[1] = Offers[main]
    BY <1>2, <2>1
  <2>3. FramesInOrder'
    BY <1>3, <1>6, <2>2 DEF FramesInOrder
  <2>4. FramesSoFar'
    BY <1>3, <1>6, <2>2 DEF FramesSoFar, Talking
  <2> QED BY <1>4, <1>5, <2>3, <2>4
<1>7. CASE main = "put_open"
  <2>1. Len(frames) = 1 /\ frames[1] = "response"
    BY <1>0, <1>7 DEF FramesSoFar
  <2>2. Len(frames') = 2 /\ frames'[1] = "response" /\ frames'[2] = "ws_open"
    BY <1>2, <1>3, <1>7, <2>1
  <2>3. FramesInOrder'
    BY <2>2 DEF FramesInOrder
  <2>4. FramesSoFar'
    BY <1>3, <1>7, <2>2 DEF FramesSoFar, Opened, Talking
  <2> QED BY <1>4, <1>5, <2>3, <2>4
<1>8. CASE main = "put_end"
  <2>1. Opened /\ Reason
    BY <1>0, <1>8 DEF FramesSoFar, Goroutines, Talking
  <2>2. FramesSoFar'
    BY <1>3, <1>8 DEF FramesSoFar, Talking
  <2>3. FramesInOrder'
    <3> SUFFICES ASSUME NEW i \in 1..Len(frames')
                 PROVE  /\ (frames'[i] = "response") <=> (i = 1)
                        /\ (frames'[i] = "ws_open") <=> (i = 2)
                        /\ frames'[1] # "ws_error"
                        /\ frames'[i] = "end" =>
                             /\ i = Len(frames')
                             /\ \E j \in 1..i : frames'[j] \in {"ws_close", "ws_error"}
      BY DEF FramesInOrder
    <3>1. i = 1 \/ i = 2 \/ i \in 3..Len(frames) \/ i = Len(frames')
      BY <1>2, <2>1 DEF Opened
    <3>2. PICK j \in 1..Len(frames) : frames[j] \in {"ws_close", "ws_error"}
      BY <2>1 DEF Reason
    <3>3. j \in 1..Len(frames') /\ frames'[j] \in {"ws_close", "ws_error"}
      BY <1>2, <3>2
    <3>4. Len(frames) >= 2 /\ frames'[1] = "response" /\ frames'[2] = "ws_open"
      BY <1>2, <2>1 DEF Opened
    <3>5. CASE i = Len(frames')
      BY <1>2, <1>3, <1>8, <3>3, <3>4, <3>5
    <3>6. CASE i \in 3..Len(frames)
      BY <1>2, <2>1, <3>4, <3>6 DEF Opened
    <3> QED BY <3>1, <3>4, <3>5, <3>6
  <2> QED BY <1>4, <1>5, <2>2, <2>3
<1> QED BY <1>3, <1>6, <1>7, <1>8

(* The reader's frames come while the session is open; a message is        *)
(* counted once, and the last frame is the reason of the end.              *)
LEMMA ReaderPutClient ==
  ASSUME ClientInv, ReaderPut
  PROVE  Goroutines' /\ FramesSoFar' /\ FramesInOrder' /\ MessagesCounted'
<1>0. /\ TypeOK /\ Goroutines /\ FramesSoFar /\ FramesInOrder /\ MessagesCounted
      /\ frames \in Seq(AllFrames) /\ sent \in Nat /\ inbox \in Nat
  BY SessionAssumption DEF ClientInv, TypeOK, AllFrames
<1>1. /\ frames' = Append(frames, Offers[rd]) /\ rd' = Then[rd] /\ rd \in Putting
      /\ UNCHANGED <<main, wr, sent, inbox>>
  BY DEF ReaderPut, link
<1>2. \/ rd = "put_message" /\ Offers[rd] = "ws_message" /\ rd' = "reading"
      \/ rd = "put_close" /\ Offers[rd] = "ws_close" /\ rd' = "done"
      \/ rd = "put_error" /\ Offers[rd] = "ws_error" /\ rd' = "done"
  BY <1>0, <1>1, ChannelFacts DEF Goroutines
<1>3. main \in Talking /\ main \notin {"join_writer", "put_end"} /\ Opened
  BY <1>0, <1>2 DEF Goroutines, FramesSoFar
<1>4. Offers[rd] \in AllFrames
  BY <1>1 DEF AllFrames
<1>5. MessagesCounted'
  <2>1. /\ IsFiniteSet(Messages') /\ Cardinality(Messages) \in Nat
        /\ Offers[rd] = "ws_message" => Cardinality(Messages') = Cardinality(Messages) + 1
        /\ Offers[rd] # "ws_message" => Cardinality(Messages') = Cardinality(Messages)
    BY <1>0, <1>1, <1>4, CountPut DEF MessagesCounted
  <2> QED BY <1>0, <1>1, <1>2, <2>1 DEF MessagesCounted
<1>6. Goroutines'
  BY <1>0, <1>1, <1>2, <1>3 DEF Goroutines, Talking, Leaving
<1>7. Opened' /\ FramesInOrder' /\ (Offers[rd] # "ws_message" => Reason')
  BY <1>0, <1>1, <1>2, <1>3, <1>4, OpenedFacts
<1>8. FramesSoFar'
  BY <1>1, <1>2, <1>3, <1>7 DEF FramesSoFar, Talking
<1> QED BY <1>5, <1>6, <1>7, <1>8

(* So do the writer's.                                                     *)
LEMMA WriterPutClient ==
  ASSUME ClientInv, WriterPut
  PROVE  Goroutines' /\ FramesSoFar' /\ FramesInOrder' /\ MessagesCounted'
<1>0. /\ TypeOK /\ Goroutines /\ FramesSoFar /\ FramesInOrder /\ MessagesCounted
      /\ frames \in Seq(AllFrames)
  BY DEF ClientInv, TypeOK, AllFrames
<1>1. /\ frames' = Append(frames, Offers[wr]) /\ wr' = Then[wr] /\ wr \in Putting
      /\ UNCHANGED <<main, rd, sent, inbox>>
  BY DEF WriterPut, link
<1>2. \/ wr = "put_close" /\ Offers[wr] = "ws_close" /\ wr' = "done"
      \/ wr = "put_senderror" /\ Offers[wr] = "ws_error" /\ wr' = "select"
  BY <1>0, <1>1, ChannelFacts DEF Goroutines
<1>3. main \in Talking /\ main \notin {"join_reader", "put_end"} /\ Opened
  BY <1>0, <1>2 DEF Goroutines, FramesSoFar
<1>4. Offers[wr] \in AllFrames
  BY <1>1 DEF AllFrames
<1>5. MessagesCounted'
  <2>1. IsFiniteSet(Messages') /\ Cardinality(Messages') = Cardinality(Messages)
    BY <1>0, <1>1, <1>2, <1>4, CountPut DEF MessagesCounted
  <2> QED BY <1>0, <1>1, <2>1 DEF MessagesCounted
<1>6. Goroutines'
  BY <1>0, <1>1, <1>2, <1>3 DEF Goroutines, Talking, Leaving
<1>7. Opened' /\ FramesInOrder' /\ (Reason => Reason')
  BY <1>0, <1>1, <1>2, <1>3, <1>4, OpenedFacts
<1>8. FramesSoFar'
  BY <1>0, <1>1, <1>3, <1>7 DEF FramesSoFar, Talking
<1> QED BY <1>5, <1>6, <1>7, <1>8

(* A step that puts no frame keeps the client's view in order, if the      *)
(* goroutines' positions still fit.                                        *)
LEMMA NextClient == ClientInv /\ [Next]_vars => ClientInv'
<1> SUFFICES ASSUME ClientInv, [Next]_vars PROVE ClientInv'
  OBVIOUS
<1>a. CASE UNCHANGED vars
  BY <1>a DEF vars, client, link, ClientInv, TypeOK, Goroutines, FramesSoFar, FramesInOrder,
     MessagesCounted, Messages, Opened, Reason
<1> SUFFICES ASSUME Next PROVE ClientInv'
  BY <1>a
<1>0. /\ TypeOK /\ Goroutines /\ FramesSoFar /\ FramesInOrder /\ MessagesCounted
      /\ sent \in Nat /\ inbox \in Nat
  BY SessionAssumption DEF ClientInv, TypeOK
<1>t. TypeOK'
  BY <1>0, NextType
<1> SUFFICES Goroutines' /\ FramesSoFar' /\ FramesInOrder' /\ MessagesCounted'
  BY <1>t DEF ClientInv
<1>b. ASSUME UNCHANGED frames
      PROVE  /\ FramesInOrder' /\ Messages' = Messages
             /\ Opened' <=> Opened
             /\ Reason' <=> Reason
  BY <1>0, <1>b DEF FramesInOrder, Messages, Opened, Reason
<1>c. ASSUME UNCHANGED <<main, rd, wr, frames>> PROVE Goroutines' /\ FramesSoFar' /\ FramesInOrder'
  BY <1>0, <1>b, <1>c DEF Goroutines, FramesSoFar
<1>1. CASE (\E k \in Kinds : Issue(k)) \/ Cancel \/ ServerAnswers \/ ServerLeaves
  <2>1. UNCHANGED <<main, rd, wr, frames, sent, inbox>>
    BY <1>1 DEF Issue, Cancel, ServerAnswers, ServerLeaves, link
  <2> QED BY <1>0, <1>b, <1>c, <2>1 DEF MessagesCounted
<1>2. CASE ServerSends
  <2>1. UNCHANGED <<main, rd, wr, frames>> /\ sent' = sent + 1 /\ inbox' = inbox + 1
    BY <1>2 DEF ServerSends
  <2> QED BY <1>0, <1>b, <1>c, <2>1 DEF MessagesCounted
<1>3. CASE Connect \/ Select \/ Join \/ Deferred \/ StopWriting \/ TakeCommand \/ Start
  <2>1. /\ UNCHANGED <<frames, sent, inbox>> /\ (rd' = rd \/ Start)
        /\ rd' = "put_message" <=> rd = "put_message"
    BY <1>0, <1>3
    DEF Connect, Select, Join, Deferred, StopWriting, TakeCommand, Start, link, Goroutines, Talking
  <2>2. MessagesCounted'
    BY <1>0, <1>b, <2>1 DEF MessagesCounted
  <2>3. Goroutines'
    <3>1. CASE Connect \/ Deferred
      BY <1>0, <3>1 DEF Connect, Deferred, Goroutines, Talking, Leaving
    <3>2. CASE Select
      BY <1>0, <3>2 DEF Select, Goroutines, Talking, Leaving
    <3>3. CASE Join
      BY <1>0, <3>3 DEF Join, Goroutines, Talking, Leaving
    <3>4. CASE StopWriting
      BY <1>0, <3>4 DEF StopWriting, Goroutines, Talking, Leaving
    <3>5. CASE TakeCommand
      <4>1. wr = "select" /\ wr' \in {"select", "put_senderror", "put_close"} /\ UNCHANGED <<main, rd>>
        BY <3>5 DEF TakeCommand
      <4> QED BY <1>0, <4>1 DEF Goroutines, Talking, Leaving
    <3>6. CASE Start
      BY <1>0, <3>6 DEF Start, Goroutines, Talking, Leaving
    <3> QED BY <1>3, <3>1, <3>2, <3>3, <3>4, <3>5, <3>6
  <2>4. FramesSoFar'
    <3>1. CASE Connect \/ Deferred
      BY <1>0, <1>b, <2>1, <3>1 DEF Connect, Deferred, FramesSoFar, Talking
    <3>2. CASE Select \/ Join
      BY <1>0, <1>b, <2>1, <3>2 DEF Select, Join, FramesSoFar, Talking
    <3>3. CASE StopWriting \/ TakeCommand
      <4>1. UNCHANGED <<main, rd, frames>>
        BY <3>3 DEF StopWriting, TakeCommand
      <4> QED BY <1>0, <1>b, <4>1 DEF FramesSoFar
    <3>4. CASE Start
      BY <1>0, <1>b, <2>1, <3>4 DEF Start, FramesSoFar, Talking
    <3> QED BY <1>3, <3>1, <3>2, <3>3, <3>4
  <2> QED BY <1>b, <2>1, <2>2, <2>3, <2>4
<1>4. CASE ReadMessage
  <2>1. /\ UNCHANGED <<main, wr, frames, sent>> /\ rd = "reading"
        /\ \/ rd' = "put_message" /\ inbox' = inbox - 1
           \/ rd' \in {"put_close", "put_error"} /\ inbox' = inbox
    BY <1>4 DEF ReadMessage
  <2>2. Goroutines'
    BY <1>0, <2>1 DEF Goroutines, Talking, Leaving
  <2>3. FramesSoFar'
    BY <1>0, <1>b, <2>1 DEF FramesSoFar
  <2>4. MessagesCounted'
    <3>1. Cardinality(Messages) \in Nat
      BY <1>0, FS_CardinalityType DEF MessagesCounted
    <3> QED BY <1>0, <1>b, <2>1, <3>1 DEF MessagesCounted
  <2> QED BY <1>b, <2>1, <2>2, <2>3, <2>4
<1>5. CASE MainPut \/ ReaderPut \/ WriterPut
  BY <1>5, MainPutClient, ReaderPutClient, WriterPutClient
<1> QED BY <1>1, <1>2, <1>3, <1>4, <1>5 DEF Next, Main, Reader, Writer

-----------------------------------------------------------------------------
(* The server's end.                                                       *)

(* Commands are numbered.                                                  *)
LEMMA CommandNumbers ==
  ASSUME NEW s \in Seq(Command)
  PROVE  \A i \in 1..Len(s) : s[i].n \in Nat
<1>1. \A i \in 1..Len(s) : s[i] \in Command
  OBVIOUS
<1>2. \A c \in Command : c.n \in Nat
  BY SessionAssumption DEF Command
<1> QED BY <1>1, <1>2

(* A command the client sends is newer than all before it.                 *)
LEMMA IssueServer ==
  ASSUME TypeOK, ServerInv, NEW k \in Kinds, Issue(k)
  PROVE  ServerInv'
<1> DEFINE c == [n |-> issued + 1, kind |-> k]
<1>0. /\ QueueSorted /\ NothingSkipped /\ WrittenSoFar /\ ServerSeesCommandsInOrder
      /\ queue \in Seq(Command) /\ accepted \in Seq(Command) /\ written \in Seq(Command)
      /\ issued \in Nat /\ issued < MaxCommands /\ MaxCommands \in Nat
  BY SessionAssumption DEF ServerInv, TypeOK, Issue
<1>1. issued' = issued + 1 /\ UNCHANGED <<main, server, closeSent, written>>
  BY DEF Issue, link
<1>2. c \in Command /\ c.n = issued + 1
  BY <1>0 DEF Command
<1>3. WrittenSoFar'
  BY <1>0, <1>1 DEF WrittenSoFar
<1>4. \A i \in 1..Len(written) : written[i].n \in Nat /\ written[i].n <= issued
  BY <1>0, CommandNumbers DEF QueueSorted
<1>5. CASE UNCHANGED <<queue, accepted>>
  <2>1. QueueSorted'
    BY <1>0, <1>1, <1>4, <1>5 DEF QueueSorted
  <2>2. NothingSkipped' /\ ServerSeesCommandsInOrder'
    BY <1>0, <1>1, <1>5 DEF NothingSkipped, ServerSeesCommandsInOrder
  <2> QED BY <1>3, <2>1, <2>2 DEF ServerInv
<1>6. CASE queue' = Append(queue, c) /\ accepted' = Append(accepted, c)
  <2> HIDE DEF c
  <2>1. /\ Len(queue) \in Nat /\ Len(queue') = Len(queue) + 1 /\ queue'[Len(queue) + 1] = c
        /\ \A i \in 1..Len(queue) : queue'[i] = queue[i]
    BY <1>0, <1>2, <1>6, AppendFacts
  <2>2. /\ Len(accepted) \in Nat /\ Len(accepted') = Len(accepted) + 1
        /\ accepted'[Len(accepted) + 1] = c
        /\ \A i \in 1..Len(accepted) : accepted'[i] = accepted[i]
    BY <1>0, <1>2, <1>6, AppendFacts
  <2>3. \A i \in 1..Len(queue) : queue[i].n \in 1..issued
    BY <1>0 DEF QueueSorted
  <2>4. \A i \in 1..Len(queue') : i \in 1..Len(queue) \/ i = Len(queue) + 1
    BY <2>1
  <2>5. QueueSorted'
    <3>1. \A i \in 1..Len(queue') : queue'[i].n \in 1..issued'
      BY <1>0, <1>1, <1>2, <2>1, <2>3, <2>4
    <3>2. ASSUME NEW i \in 1..Len(queue'), NEW j \in 1..Len(queue'), i < j
          PROVE  queue'[i].n < queue'[j].n
      <4>1. i \in 1..Len(queue)
        BY <2>1, <3>2
      <4>2. CASE j = Len(queue) + 1
        BY <1>0, <1>2, <2>1, <2>3, <4>1, <4>2
      <4>3. CASE j \in 1..Len(queue)
        BY <1>0, <2>1, <3>2, <4>1, <4>3 DEF QueueSorted
      <4> QED BY <2>4, <4>2, <4>3
    <3>3. ASSUME NEW i \in 1..Len(written), NEW j \in 1..Len(queue')
          PROVE  written[i].n < queue'[j].n
      <4>1. CASE j = Len(queue) + 1
        BY <1>0, <1>2, <1>4, <2>1, <4>1
      <4>2. CASE j \in 1..Len(queue)
        BY <1>0, <2>1, <4>2 DEF QueueSorted
      <4> QED BY <2>4, <4>1, <4>2
    <3>4. \A i \in 1..Len(written) : written[i].n <= issued'
      BY <1>0, <1>1, <1>4
    <3> QED BY <1>1, <3>1, <3>2, <3>3, <3>4 DEF QueueSorted
  <2>6. NothingSkipped'
    <3> SUFFICES ASSUME ~closeSent, server # "lost", NEW a \in 1..Len(accepted')
                 PROVE  \/ \E j \in 1..Len(written) : written[j] = accepted'[a]
                        \/ \E j \in 1..Len(queue') : queue'[j] = accepted'[a]
      BY <1>1 DEF NothingSkipped
    <3>1. CASE a = Len(accepted) + 1
      BY <2>1, <2>2, <3>1
    <3>2. CASE a \in 1..Len(accepted)
      <4>1. \/ \E j \in 1..Len(written) : written[j] = accepted[a]
            \/ \E j \in 1..Len(queue) : queue[j] = accepted[a]
        BY <1>0, <3>2 DEF NothingSkipped
      <4> QED BY <2>1, <2>2, <3>2, <4>1
    <3> QED BY <2>2, <3>1, <3>2
  <2>7. ServerSeesCommandsInOrder'
    <3> SUFFICES ASSUME NEW i \in 1..Len(written)
                 PROVE  /\ \A j \in 1..(i - 1) : written[j].n < written[i].n
                        /\ written[i].kind = "close" =>
                             /\ i = Len(written)
                             /\ \A d \in {accepted'[a] : a \in 1..Len(accepted')} :
                                  d.n < written[i].n => \E j \in 1..i : written[j] = d
      BY <1>1 DEF ServerSeesCommandsInOrder
    <3>1. ASSUME written[i].kind = "close", NEW a \in 1..Len(accepted'),
                 accepted'[a].n < written[i].n
          PROVE  \E j \in 1..i : written[j] = accepted'[a]
      <4>1. a # Len(accepted) + 1
        BY <1>0, <1>2, <1>4, <2>2, <3>1
      <4>2. a \in 1..Len(accepted) /\ accepted'[a] = accepted[a]
        BY <2>2, <4>1
      <4> QED BY <1>0, <3>1, <4>2 DEF ServerSeesCommandsInOrder
    <3> QED BY <1>0, <3>1 DEF ServerSeesCommandsInOrder
  <2> QED BY <1>3, <2>5, <2>6, <2>7 DEF ServerInv
<1> QED BY <1>5, <1>6 DEF Issue

(* What the writer takes off the queue is the next command, and a close    *)
(* frame follows everything accepted before it.                            *)
LEMMA TakeServer ==
  ASSUME TypeOK, Goroutines, ServerInv, TakeCommand
  PROVE  ServerInv'
<1> DEFINE c == Head(queue)
<1>0. /\ QueueSorted /\ NothingSkipped /\ WrittenSoFar /\ ServerSeesCommandsInOrder
      /\ queue \in Seq(Command) /\ accepted \in Seq(Command) /\ written \in Seq(Command)
      /\ issued \in Nat /\ queue # <<>>
  BY SessionAssumption DEF ServerInv, TypeOK, TakeCommand
<1>1. queue' = Tail(queue) /\ UNCHANGED <<main, issued, accepted, server>> /\ wr = "select"
  BY DEF TakeCommand, client, link
<1>2. /\ c \in Command /\ c = queue[1] /\ Len(queue) \in Nat \ {0}
      /\ Len(queue') = Len(queue) - 1 /\ \A i \in 1..Len(queue') : queue'[i] = queue[i + 1]
  BY <1>0, <1>1, TakeFacts
<1>3. /\ Writes(c) \/ Refused \/ Vanishes
      /\ closeSent' = closeSent \/ closeSent'
      /\ c.kind = "close" => closeSent'
      /\ closeSent => closeSent'
  BY DEF TakeCommand, Kinds
<1>4. main \in Talking
  BY <1>1 DEF Goroutines
<1> HIDE DEF c
<1>5. /\ c.n \in Nat /\ c.n <= issued
      /\ \A i \in 1..Len(queue) : queue[i].n \in Nat
      /\ \A i \in 1..Len(written) : written[i].n \in Nat /\ written[i].n < c.n /\ written[i].n <= issued
      /\ \A i \in 1..Len(queue') : /\ i + 1 \in 1..Len(queue) /\ queue'[i].n \in 1..issued
                                   /\ c.n < queue'[i].n
      /\ \A i, j \in 1..Len(queue') : i < j => queue'[i].n < queue'[j].n
  <2>1. \A i \in 1..Len(queue') : i + 1 \in 1..Len(queue) /\ 1 < i + 1 /\ queue'[i] = queue[i + 1]
    BY <1>2
  <2>2. 1 \in 1..Len(queue)
    BY <1>2
  <2>3. \A i \in 1..Len(queue) : queue[i].n \in Nat /\ queue[i].n \in 1..issued
    BY <1>0 DEF QueueSorted
  <2>4. c.n \in Nat /\ c.n <= issued
    BY <1>0, <1>2, <2>2, <2>3
  <2>5. \A i \in 1..Len(written) : written[i].n \in Nat /\ written[i].n < c.n /\ written[i].n <= issued
    <3>1. \A i \in 1..Len(written) : written[i].n \in Nat
      BY <1>0, CommandNumbers
    <3> QED BY <1>0, <1>2, <2>2, <3>1 DEF QueueSorted
  <2>6. \A i \in 1..Len(queue') : c.n < queue'[i].n
    BY <1>0, <1>2, <2>1, <2>2 DEF QueueSorted
  <2>7. ASSUME NEW i \in 1..Len(queue'), NEW j \in 1..Len(queue'), i < j PROVE queue'[i].n < queue'[j].n
    <3>1. i + 1 < j + 1
      BY <2>7
    <3> QED BY <1>0, <2>1, <3>1 DEF QueueSorted
  <2> QED BY <2>1, <2>3, <2>4, <2>5, <2>6, <2>7
<1>6. \A a \in 1..Len(queue) : queue[a] = c \/ \E j \in 1..Len(queue') : queue'[j] = queue[a]
  <2> SUFFICES ASSUME NEW a \in 1..Len(queue), a # 1 PROVE \E j \in 1..Len(queue') : queue'[j] = queue[a]
    BY <1>2
  <2>1. a - 1 \in 1..Len(queue') /\ queue'[a - 1] = queue[a]
    BY <1>2
  <2> QED BY <2>1
<1>7. CASE UNCHANGED written /\ (closeSent \/ server = "lost")
  <2>1. QueueSorted'
    <3>1. \A i \in 1..Len(written), j \in 1..Len(queue') : written[i].n < queue'[j].n
      BY <1>0, <1>2, <1>5 DEF QueueSorted
    <3> QED BY <1>1, <1>5, <1>7, <3>1 DEF QueueSorted
  <2>2. NothingSkipped' /\ WrittenSoFar' /\ ServerSeesCommandsInOrder'
    BY <1>0, <1>1, <1>3, <1>7 DEF NothingSkipped, WrittenSoFar, ServerSeesCommandsInOrder
  <2> QED BY <2>1, <2>2 DEF ServerInv
<1>8. CASE written' = Append(written, c) /\ ~closeSent /\ server # "lost"
  <2>1. /\ Len(written) \in Nat /\ Len(written') = Len(written) + 1
        /\ written'[Len(written) + 1] = c
        /\ \A i \in 1..Len(written) : written'[i] = written[i]
    BY <1>0, <1>2, <1>8, AppendFacts
  <2>2. \A i \in 1..Len(written') : i \in 1..Len(written) \/ i = Len(written) + 1
    BY <2>1
  <2>3. QueueSorted'
    <3>1. \A i \in 1..Len(written') : written'[i].n \in Nat /\ written'[i].n <= c.n /\ written'[i].n <= issued
      BY <1>5, <2>1, <2>2
    <3>2. ASSUME NEW i \in 1..Len(written'), NEW j \in 1..Len(queue') PROVE written'[i].n < queue'[j].n
      BY <1>0, <1>5, <3>1
    <3> QED BY <1>1, <1>5, <3>1, <3>2 DEF QueueSorted
  <2>4. \A i \in 1..Len(written) : written[i].kind # "close"
    BY <1>0, <1>8 DEF WrittenSoFar
  <2>5. WrittenSoFar'
    <3>1. \A i \in 1..Len(written') : written'[i].kind = "close" => closeSent'
      BY <1>3, <2>1, <2>2, <2>4
    <3> QED BY <1>1, <1>4, <3>1 DEF WrittenSoFar, Talking
  <2>6. \A a \in 1..Len(accepted) :
          \/ \E j \in 1..Len(written') : written'[j] = accepted[a]
          \/ \E j \in 1..Len(queue') : queue'[j] = accepted[a]
    <3> SUFFICES ASSUME NEW a \in 1..Len(accepted)
                 PROVE  \/ \E j \in 1..Len(written') : written'[j] = accepted[a]
                        \/ \E j \in 1..Len(queue') : queue'[j] = accepted[a]
      OBVIOUS
    <3>1. CASE \E j \in 1..Len(written) : written[j] = accepted[a]
      BY <2>1, <3>1
    <3>2. CASE \E j \in 1..Len(queue) : queue[j] = accepted[a]
      BY <1>6, <2>1, <3>2
    <3> QED BY <1>0, <1>8, <3>1, <3>2 DEF NothingSkipped
  <2>7. NothingSkipped'
    BY <1>1, <2>6 DEF NothingSkipped
  <2>8. ServerSeesCommandsInOrder'
    <3> SUFFICES ASSUME NEW i \in 1..Len(written')
                 PROVE  /\ \A j \in 1..(i - 1) : written'[j].n < written'[i].n
                        /\ written'[i].kind = "close" =>
                             /\ i = Len(written')
                             /\ \A d \in {accepted[a] : a \in 1..Len(accepted)} :
                                  d.n < written'[i].n => \E j \in 1..i : written'[j] = d
      BY <1>1 DEF ServerSeesCommandsInOrder
    <3>1. CASE i \in 1..Len(written)
      <4>1. written'[i] = written[i] /\ written[i].kind # "close"
        BY <2>1, <2>4, <3>1
      <4>2. \A j \in 1..(i - 1) : j \in 1..Len(written) /\ written'[j] = written[j]
        BY <2>1, <3>1
      <4> QED BY <1>0, <3>1, <4>1, <4>2 DEF ServerSeesCommandsInOrder
    <3>2. CASE i = Len(written) + 1
      <4>1. \A j \in 1..(i - 1) : written'[j].n < written'[i].n
        BY <1>5, <2>1, <3>2
      <4>2. ASSUME NEW a \in 1..Len(accepted), accepted[a].n < c.n
            PROVE  \E j \in 1..i : written'[j] = accepted[a]
        <5>1. \A j \in 1..Len(queue') : queue'[j] # accepted[a]
          <6>1. accepted[a].n \in Nat
            BY <1>0, CommandNumbers
          <6>2. \A j \in 1..Len(queue') : queue'[j].n \in Nat /\ c.n < queue'[j].n
            BY <1>0, <1>5
          <6> QED BY <1>5, <4>2, <6>1, <6>2
        <5> QED BY <2>1, <2>6, <3>2, <5>1
      <4> QED BY <2>1, <3>2, <4>1, <4>2
    <3> QED BY <2>2, <3>1, <3>2
  <2> QED BY <2>3, <2>5, <2>7, <2>8 DEF ServerInv
<1> QED BY <1>3, <1>7, <1>8 DEF Writes, Refused, Vanishes

(* Every step keeps the server's view in order.                            *)
LEMMA NextServer == ClientInv /\ ServerInv /\ [Next]_vars => ServerInv'
<1> SUFFICES ASSUME ClientInv, ServerInv, [Next]_vars PROVE ServerInv'
  OBVIOUS
<1>0. /\ TypeOK /\ Goroutines
      /\ QueueSorted /\ NothingSkipped /\ WrittenSoFar /\ ServerSeesCommandsInOrder
  BY DEF ClientInv, ServerInv
<1> DEFINE First == {"connecting", "put_failed", "put_response", "put_open", "body"}
<1>1. ASSUME UNCHANGED <<queue, issued, accepted, written>>,
             main' \in First => main \in First,
             closeSent => closeSent', server = "lost" => server' = "lost"
      PROVE  ServerInv'
  <2>1. QueueSorted'
    BY <1>0, <1>1 DEF QueueSorted
  <2>2. NothingSkipped'
    BY <1>0, <1>1 DEF NothingSkipped
  <2>3. WrittenSoFar'
    BY <1>0, <1>1 DEF WrittenSoFar
  <2>4. ServerSeesCommandsInOrder'
    BY <1>0, <1>1 DEF ServerSeesCommandsInOrder
  <2> QED BY <2>1, <2>2, <2>3, <2>4 DEF ServerInv
<1> USE DEF client, link
<1>2. ASSUME NEW k \in Kinds, Issue(k) PROVE ServerInv'
  BY <1>0, <1>2, IssueServer
<1>3. CASE Cancel \/ ServerSends \/ ServerAnswers \/ ServerLeaves
  BY <1>1, <1>3 DEF Cancel, ServerSends, ServerAnswers, ServerLeaves
<1>4. CASE ReaderPut \/ WriterPut \/ StopWriting \/ ReadMessage
  BY <1>1, <1>4 DEF ReaderPut, WriterPut, StopWriting, ReadMessage
<1>5. CASE MainPut
  <2>1. UNCHANGED <<queue, issued, accepted, written, closeSent, server>> /\ main' = Then[main] /\ main \in Putting
    BY <1>5 DEF MainPut
  <2>2. main' \in First => main \in First
    BY <1>0, <2>1, ChannelFacts DEF Goroutines, Talking, Leaving
  <2> QED BY <1>1, <2>1, <2>2
<1>6. CASE Connect \/ Select \/ Join \/ Deferred
  BY <1>1, <1>6 DEF Connect, Select, Join, Deferred
<1>7. CASE Start
  <2>0. /\ UNCHANGED <<queue, issued, accepted, server, closeSent>> /\ main' = "waiting"
        /\ main = "body" /\ (written' = written \/ written' = Append(written, Body))
    BY <1>7 DEF Start, Writes
  <2>1. CASE written' = written
    BY <1>1, <2>0, <2>1
  <2>2. CASE written' = Append(written, Body)
    <3>1. written = <<>>
      BY <1>0, <2>0 DEF WrittenSoFar
    <3>2. Len(written') = 1 /\ written'[1] = Body /\ Body.n = 0 /\ Body.kind = "send"
      BY <2>2, <3>1 DEF Body
    <3>3. QueueSorted'
      <4>1. \A i \in 1..Len(queue) : queue[i].n \in 1..issued
        BY <1>0 DEF QueueSorted
      <4>2. issued \in Nat
        BY <1>0, SessionAssumption DEF TypeOK
      <4>3. \A i \in 1..Len(written') : written'[i].n = 0
        BY <3>2
      <4>4. \A i \in 1..Len(written'), j \in 1..Len(queue') : written'[i].n < queue'[j].n
        BY <2>0, <4>1, <4>2, <4>3
      <4> QED BY <1>0, <2>0, <4>2, <4>3, <4>4 DEF QueueSorted
    <3>4. NothingSkipped'
      BY <1>0, <2>0, <3>1 DEF NothingSkipped
    <3>5. WrittenSoFar' /\ ServerSeesCommandsInOrder'
      BY <2>0, <3>2 DEF WrittenSoFar, ServerSeesCommandsInOrder
    <3> QED BY <3>3, <3>4, <3>5 DEF ServerInv
  <2> QED BY <2>0, <2>1, <2>2
<1>8. CASE TakeCommand
  BY <1>0, <1>8, TakeServer
<1>9. CASE UNCHANGED vars
  BY <1>1, <1>9 DEF vars
<1> QED
  BY <1>2, <1>3, <1>4, <1>5, <1>6, <1>7, <1>8, <1>9 DEF Next, Main, Reader, Writer

-----------------------------------------------------------------------------
(* What both ends of a session see is in order and whole, whatever the     *)
(* capacity of commandChan and however the three goroutines, the client    *)
(* and the server take turns: the frames of the client begin and end as    *)
(* they should, the server gets the commands in the order of the client    *)
(* with a close frame last, and every message read is handed on before     *)
(* "end".                                                                  *)
THEOREM SessionSafe == Spec => []BothEndsInOrder
<1>1. ClientInv /\ ServerInv => BothEndsInOrder
  <2> SUFFICES ASSUME ClientInv, ServerInv PROVE MessagesArriveBeforeEnd
    BY DEF ClientInv, ServerInv, BothEndsInOrder
  <2>1. main \in {"put_end", "deferred"} => rd # "put_message"
    BY DEF ClientInv, Goroutines, Talking
  <2>2. rd # "put_message" => Cardinality(Messages) = sent - inbox
    <3>1. Cardinality(Messages) \in Nat
      BY FS_CardinalityType DEF ClientInv, MessagesCounted
    <3> QED BY <3>1 DEF ClientInv, MessagesCounted
  <2> QED BY <2>1, <2>2 DEF MessagesArriveBeforeEnd, Messages
<1> QED BY InitInv, NextClient, NextServer, <1>1, PTL DEF Spec
=============================================================================
