------------------------ MODULE RequestServiceProofs ------------------------
(***************************************************************************)
(* Safety of RequestService for any number of requests, of either kind,    *)
(* and any number of chunks.  The order of the frames a client has seen    *)
(* says nothing of what a dispatcher may put next: the invariant is about  *)
(* the frames a dispatcher has got rid of, the one writeSocket holds       *)
(* included, and ties them to the dispatcher's program point.              *)
(***************************************************************************)
EXTENDS RequestService, TLAPS

(* The frames of r that have left its dispatcher.                          *)
InHand(r) == writer \in [of : {r}, frame : Frames]
Sent(r) == IF InHand(r) THEN Append(seen[r], writer.frame) ELSE seen[r]

(* FramesInOrder, of one sequence of frames.                               *)
InOrder(s) ==
  \A i \in 1..Len(s) :
    /\ (s[i] = "response") <=> (i = 1 /\ s[1] # "error")
    /\ s[i] = "end" => i = Len(s)
    /\ s[i] = "error" => \A j \in (i + 1)..Len(s) : i > 1 /\ s[j] = "end"

(* A response and so far nothing but its data.                             *)
Answering(s) ==
  s # <<>> /\ s[1] = "response" /\ \A i \in 2..Len(s) : s[i] = "data"

(* The same, with perhaps the error that says the body broke off.          *)
Answered(s) ==
  /\ s # <<>> /\ s[1] = "response"
  /\ \A i \in 2..Len(s) : s[i] = "data" \/ (s[i] = "error" /\ i = Len(s))

Reported(s) == \E i \in 1..Len(s) : s[i] = "error"

(* What the position of r's dispatcher says of the frames it has put.      *)
Story(r) ==
  /\ pc[r] \in {"new", "do", "put_response", "put_error"} => Sent(r) = <<>>
  /\ pc[r] \in {"loop", "read", "put_data", "put_last", "put_failure"} => Answering(Sent(r))
  /\ pc[r] = "put_end" => Answered(Sent(r))
  /\ InOrder(Sent(r))

(* The server's body is over, or the request's context is.                 *)
Over(r) == source[r] = "over" \/ ctx[r] # "live"

(* An "end" is put only when the body is over or the error was put.        *)
NoSilentEnd(r) ==
  /\ pc[r] = "put_last" => Over(r)
  /\ pc[r] = "put_end" => Over(r) \/ Reported(Sent(r))
  /\ (\E i \in 1..Len(Sent(r)) : Sent(r)[i] = "end") => Over(r) \/ Reported(Sent(r))

(* The inductive invariants.  Once the client has gone what it has seen    *)
(* does not change any more.                                               *)
ActiveInv == ActiveIsCancellable /\ \A r \in Reqs : pc[r] = "new" => ctx[r] = "live"

StoryInv ==
  /\ FramesTellTheStory
  /\ peer = "up" => /\ \A r \in Reqs : Story(r)
                    /\ \A r \in Https : NoSilentEnd(r)

-----------------------------------------------------------------------------
(* Facts the steps share.                                                  *)

(* What is offered at each label and where the dispatcher goes on.         *)
LEMMA ChannelFacts ==
  /\ Putting = {"put_response", "put_data", "put_last", "put_failure", "put_error", "put_end"}
  /\ \A l \in Putting : Offers[l] \in Frames /\ Then[l] \in Running
  /\ Offers["put_response"] = "response" /\ Then["put_response"] = "loop"
  /\ Offers["put_data"] = "data" /\ Then["put_data"] = "loop"
  /\ Offers["put_last"] = "data" /\ Then["put_last"] = "put_end"
  /\ Offers["put_failure"] = "error" /\ Then["put_failure"] = "put_end"
  /\ Offers["put_error"] = "error" /\ Then["put_error"] = "cleanup"
  /\ Offers["put_end"] = "end" /\ Then["put_end"] = "cleanup"
<1>1. Putting = {"put_response", "put_data", "put_last", "put_failure", "put_error", "put_end"}
  BY DEF Putting, Offers
<1>2. \A l \in Putting : Offers[l] \in Frames
  BY <1>1 DEF Offers, Frames
<1>3. \A l \in Putting : Then[l] \in {"loop", "put_end", "cleanup"}
  BY <1>1 DEF Then
<1>4. {"loop", "put_end", "cleanup"} \subseteq Running
  BY <1>1 DEF Running
<1>5. /\ Offers["put_response"] = "response" /\ Offers["put_data"] = "data"
      /\ Offers["put_last"] = "data" /\ Offers["put_failure"] = "error"
      /\ Offers["put_error"] = "error" /\ Offers["put_end"] = "end"
  BY DEF Offers
<1>6. /\ Then["put_response"] = "loop" /\ Then["put_data"] = "loop"
      /\ Then["put_last"] = "put_end" /\ Then["put_failure"] = "put_end"
      /\ Then["put_error"] = "cleanup" /\ Then["put_end"] = "cleanup"
  BY DEF Then
<1> QED BY <1>1, <1>2, <1>3, <1>4, <1>5, <1>6

(* The labels of a running dispatcher, spelled out.                        *)
LEMMA RunningIs ==
  Running = {"do", "loop", "read", "cleanup", "put_response", "put_data", "put_last",
             "put_failure", "put_error", "put_end"}
  BY ChannelFacts DEF Running

(* writeSocket holds a frame of one request, or it is idle or gone.        *)
LEMMA WriterFacts ==
  ASSUME TypeOK
  PROVE  /\ writer \notin {Idle, Killed, Panicked} => writer.of \in Reqs /\ InHand(writer.of)
         /\ \A r : InHand(r) => /\ writer \notin {Idle, Killed, Panicked}
                                /\ writer.of = r /\ writer.frame \in Frames
  BY DEF TypeOK, InHand, Idle, Killed, Panicked, Frames

(* Putting one more frame.                                                 *)
LEMMA AppendFacts ==
  ASSUME NEW s \in Seq(Frames), NEW f \in Frames
  PROVE  /\ Append(s, f) \in Seq(Frames) /\ Len(s) \in Nat
         /\ Len(Append(s, f)) = Len(s) + 1
         /\ Append(s, f)[Len(s) + 1] = f
         /\ \A i \in 1..Len(s) : Append(s, f)[i] = s[i]
  OBVIOUS

(* The frames that have left a dispatcher are a sequence of frames.        *)
LEMMA SentType ==
  ASSUME TypeOK, NEW r \in Reqs
  PROVE  Sent(r) \in Seq(Frames)
<1>1. CASE InHand(r)
  BY <1>1, WriterFacts, AppendFacts DEF Sent, TypeOK
<1>2. CASE ~InHand(r)
  BY <1>2 DEF Sent, TypeOK
<1> QED BY <1>1, <1>2

-----------------------------------------------------------------------------
(* Types and activeRequests.                                               *)

(* Before the first message there are no requests and no frames.           *)
LEMMA InitInv == Init => ActiveInv /\ StoryInv
<1> SUFFICES ASSUME Init PROVE ActiveInv /\ StoryInv
  OBVIOUS
<1>1. TypeOK
  <2>1. 0 \in 0..MaxChunks /\ <<>> \in Seq(Frames)
    BY ServiceAssumption
  <2> QED BY <2>1 DEF Init, TypeOK, Idle
<1>2. ActiveInv
  BY <1>1, RunningIs DEF Init, ActiveInv, ActiveIsCancellable
<1>3. \A r \in Reqs : Sent(r) = <<>>
  BY DEF Init, Sent, InHand, Idle, Frames
<1>4. \A r \in Reqs : seen[r] = <<>> /\ pc[r] = "new"
  BY DEF Init
<1>5. \A r \in Https : r \in Reqs
  BY DEF Reqs
<1>6. FramesTellTheStory
  BY <1>4, <1>5 DEF FramesTellTheStory, FramesInOrder, EndMeansComplete
<1>7. \A r \in Reqs : Story(r)
  BY <1>3, <1>4 DEF Story, InOrder
<1>8. \A r \in Https : NoSilentEnd(r)
  <2>1. ASSUME NEW r \in Https PROVE NoSilentEnd(r)
    <3>1. Sent(r) = <<>> /\ Len(Sent(r)) = 0 /\ pc[r] = "new"
      BY <1>3, <1>4, <1>5
    <3> QED BY <3>1 DEF NoSilentEnd
  <2> QED BY <2>1
<1> QED BY <1>2, <1>6, <1>7, <1>8 DEF StoryInv

(* Every step keeps the types; contexts that ended and bodies that are     *)
(* over stay so.                                                           *)
LEMMA NextType ==
  ASSUME ActiveInv, Next
  PROVE  TypeOK' /\ \A r \in Reqs : Over(r) => Over(r)'
<1>0. TypeOK
  BY DEF ActiveInv, ActiveIsCancellable
<1> DEFINE Goal == TypeOK' /\ \A r \in Reqs : Over(r) => Over(r)'
<1> SUFFICES Goal
  OBVIOUS
<1> USE RunningIs DEF TypeOK, Over, dispVars, Goto
<1>1. ASSUME Exits, UNCHANGED <<ctx, source, chunks, seen>> PROVE Goal
  BY <1>0, <1>1 DEF Exits
<1>2. ASSUME NEW r \in Reqs, ReadRequest(r) PROVE Goal
  <2>1. CASE r \in Invalid
    BY <1>1, <1>2, <2>1 DEF ReadRequest
  <2>2. CASE r \notin Invalid
    BY <1>0, <1>2, <2>2 DEF ReadRequest
  <2> QED BY <2>1, <2>2
<1>3. ASSUME NEW r \in Reqs, ReadCancel(r) PROVE Goal
  BY <1>0, <1>3 DEF ReadCancel
<1>4. CASE ReadExit
  <2>1. CASE Exits
    BY <1>1, <1>4, <2>1 DEF ReadExit
  <2>2. CASE ~Exits
    BY <1>0, <1>4, <2>2 DEF ReadExit
  <2> QED BY <2>1, <2>2
<1>5. CASE ReadGarbage \/ ReadError \/ Disconnect
  BY <1>0, <1>5 DEF ReadGarbage, ReadError, Disconnect
<1>6. CASE Write
  <2>1. writer.of \in Reqs /\ writer.frame \in Frames
    BY <1>0, <1>6, WriterFacts DEF Write
  <2>2. seen' \in [Reqs -> Seq(Frames)]
    <3>1. CASE peer = "up"
      <4>1. seen[writer.of] \in Seq(Frames)
        BY <1>0, <2>1
      <4>2. Append(seen[writer.of], writer.frame) \in Seq(Frames)
        BY <2>1, <4>1, AppendFacts
      <4> QED BY <1>0, <1>6, <3>1, <4>2 DEF Write
    <3>2. CASE peer # "up"
      BY <1>0, <1>6, <3>2 DEF Write
    <3> QED BY <3>1, <3>2
  <2> QED BY <1>0, <1>6, <2>2 DEF Write
<1>7. ASSUME NEW r \in Reqs, Take(r) PROVE Goal
  <2>1. Offers[pc[r]] \in Frames /\ Then[pc[r]] \in Running
    BY <1>7, ChannelFacts DEF Take
  <2>2. writer' \in [of : Reqs, frame : Frames]
    BY <1>7, <2>1 DEF Take
  <2> QED BY <1>0, <1>7, <2>1, <2>2 DEF Take
<1>8. ASSUME NEW r \in Reqs, Do(r) \/ ConnectStream(r) \/ Loop(r) \/ Cleanup(r) PROVE Goal
  <2>1. CASE Do(r) \/ ConnectStream(r)
    <3>1. PICK l \in {"put_response", "put_error", "cleanup"} : pc' = [pc EXCEPT ![r] = l]
      BY <2>1 DEF Do, ConnectStream
    <3>2. UNCHANGED <<peer, reader, writer, active, ctx, source, chunks, seen>>
      BY <2>1 DEF Do, ConnectStream
    <3> QED BY <1>0, <3>1, <3>2
  <2>2. CASE Loop(r)
    BY <1>0, <2>2 DEF Loop
  <2>3. CASE Cleanup(r)
    BY <1>0, <2>3 DEF Cleanup
  <2> QED BY <1>8, <2>1, <2>2, <2>3
<1>9. ASSUME NEW r \in Reqs, BodyRead(r) PROVE Goal
  <2>1. chunks' \in [Reqs -> 0..MaxChunks]
    BY <1>0, <1>9, ServiceAssumption DEF BodyRead
  <2>2. source' \in [Reqs -> {"open", "failed", "over"}] /\ \A q \in Reqs : source[q] = "over" => source'[q] = "over"
    BY <1>0, <1>9 DEF BodyRead
  <2>3. pc' \in [Reqs -> Running \cup {"new", "ended", "killed"}]
    BY <1>0, <1>9 DEF BodyRead
  <2> QED BY <1>0, <1>9, <2>1, <2>2, <2>3 DEF BodyRead
<1>10. ASSUME NEW r \in Reqs, EventRead(r) PROVE Goal
  <2>1. PICK x \in NextEvent(r) :
          /\ pc' = [pc EXCEPT ![r] = [event |-> "put_data", error |-> "put_end", nothing |-> "loop"][x]]
          /\ chunks' = [chunks EXCEPT ![r] = IF x = "event" THEN @ + 1 ELSE @]
    BY <1>10 DEF EventRead
  <2>2. x \in {"event", "error", "nothing"} /\ (x = "event" => chunks[r] < MaxChunks)
    BY DEF NextEvent
  <2>3. chunks' \in [Reqs -> 0..MaxChunks]
    BY <1>0, <2>1, <2>2, ServiceAssumption
  <2>4. [event |-> "put_data", error |-> "put_end", nothing |-> "loop"][x] \in Running
    BY <2>2
  <2>5. pc' \in [Reqs -> Running \cup {"new", "ended", "killed"}]
    BY <1>0, <2>1, <2>4
  <2> QED BY <1>0, <1>10, <2>3, <2>5 DEF EventRead
<1>11. ASSUME NEW r \in Reqs, ServerEnds(r) \/ Expire(r) PROVE Goal
  BY <1>0, <1>11 DEF ServerEnds, Expire
<1>12. Https \subseteq Reqs
  BY DEF Reqs
<1> HIDE DEF Goal, TypeOK, Over
<1> QED
  BY <1>2, <1>3, <1>4, <1>5, <1>6, <1>7, <1>8, <1>9, <1>10, <1>11, <1>12
  DEF Next, Read, Dispatcher

(* The dispatcher's steps stay within the running labels until the         *)
(* deferred functions, and touch neither context nor activeRequests.       *)
LEMMA DispatcherStays ==
  ASSUME TypeOK, NEW r \in Reqs,
         Take(r) \/ Do(r) \/ ConnectStream(r) \/ Loop(r) \/ BodyRead(r) \/ EventRead(r)
  PROVE  /\ pc[r] \in Running /\ pc'[r] \in Running
         /\ \A s \in Reqs \ {r} : pc'[s] = pc[s]
         /\ UNCHANGED <<active, ctx>>
<1> USE RunningIs DEF TypeOK, Goto
<1>1. CASE Take(r)
  <2>1. Then[pc[r]] \in Running /\ pc[r] \in Running
    BY <1>1, ChannelFacts DEF Take
  <2> QED BY <1>1, <2>1 DEF Take
<1>2. CASE Do(r) \/ ConnectStream(r)
  BY <1>2 DEF Do, ConnectStream
<1>3. CASE Loop(r)
  BY <1>3 DEF Loop
<1>4. CASE BodyRead(r)
  BY <1>4 DEF BodyRead
<1>5. CASE EventRead(r)
  <2>1. PICK x \in {"event", "error", "nothing"} :
          pc' = [pc EXCEPT ![r] = [event |-> "put_data", error |-> "put_end", nothing |-> "loop"][x]]
    BY <1>5 DEF EventRead, NextEvent
  <2>2. [event |-> "put_data", error |-> "put_end", nothing |-> "loop"][x] \in Running
    OBVIOUS
  <2> QED BY <1>5, <2>1, <2>2 DEF EventRead
<1> QED BY <1>1, <1>2, <1>3, <1>4, <1>5

(* Every step keeps activeRequests what can be cancelled.                  *)
LEMMA NextActive == ActiveInv /\ [Next]_vars => ActiveInv'
<1> SUFFICES ASSUME ActiveInv, [Next]_vars PROVE ActiveInv'
  OBVIOUS
<1>0. /\ TypeOK
      /\ \A r \in Reqs : pc[r] # "killed" => (active[r] <=> pc[r] \in Running /\ ctx[r] # "cancelled")
      /\ \A r \in Reqs : pc[r] = "new" => ctx[r] = "live"
  BY DEF ActiveInv, ActiveIsCancellable
<1>a. CASE UNCHANGED vars
  BY <1>a DEF vars, dispVars, ActiveInv, ActiveIsCancellable, TypeOK
<1> SUFFICES ASSUME Next PROVE ActiveInv'
  BY <1>a
<1>t. TypeOK'
  BY NextType
<1> DEFINE Goal == /\ \A r \in Reqs : pc'[r] # "killed" => (active'[r] <=> pc'[r] \in Running /\ ctx'[r] # "cancelled")
                   /\ \A r \in Reqs : pc'[r] = "new" => ctx'[r] = "live"
<1> SUFFICES Goal
  BY <1>t DEF ActiveInv, ActiveIsCancellable
<1> USE RunningIs
<1>1. ASSUME Exits, UNCHANGED ctx PROVE Goal
  BY <1>0, <1>1 DEF Exits, TypeOK
<1>2. ASSUME NEW r \in Reqs, ReadRequest(r) PROVE Goal
  <2>1. CASE r \in Invalid
    BY <1>1, <1>2, <2>1 DEF ReadRequest
  <2>2. CASE r \notin Invalid
    BY <1>0, <1>2, <2>2 DEF ReadRequest, Goto, TypeOK
  <2> QED BY <2>1, <2>2
<1>3. ASSUME NEW r \in Reqs, ReadCancel(r) PROVE Goal
  BY <1>0, <1>3 DEF ReadCancel, TypeOK
<1>4. CASE ReadExit
  <2>1. CASE Exits
    BY <1>1, <1>4, <2>1 DEF ReadExit
  <2>2. CASE UNCHANGED <<active, pc>>
    BY <1>0, <1>4, <2>2 DEF ReadExit
  <2> QED BY <1>4, <2>1, <2>2 DEF ReadExit
<1>5. CASE ReadGarbage \/ ReadError \/ Disconnect \/ Write
  <2>1. UNCHANGED <<active, pc, ctx>>
    BY <1>5 DEF ReadGarbage, ReadError, Disconnect, Write, dispVars
  <2> QED BY <1>0, <2>1
<1>6. ASSUME NEW r \in Reqs,
             Take(r) \/ Do(r) \/ ConnectStream(r) \/ Loop(r) \/ BodyRead(r) \/ EventRead(r)
      PROVE  Goal
  BY <1>0, <1>6, DispatcherStays
<1>7. ASSUME NEW r \in Reqs, Cleanup(r) PROVE Goal
  BY <1>0, <1>7 DEF Cleanup, Goto, TypeOK
<1>8. ASSUME NEW r \in Reqs, ServerEnds(r) PROVE Goal
  BY <1>0, <1>8 DEF ServerEnds
<1>9. ASSUME NEW r \in Reqs, Expire(r) PROVE Goal
  BY <1>0, <1>9 DEF Expire, TypeOK
<1>10. Https \subseteq Reqs
  BY DEF Reqs
<1> HIDE DEF Goal
<1> QED
  BY <1>2, <1>3, <1>4, <1>5, <1>6, <1>7, <1>8, <1>9, <1>10 DEF Next, Read, Dispatcher

-----------------------------------------------------------------------------
(* The frames.                                                             *)

(* What a client has seen stays in order and honest while it sees no more. *)
LEMMA SeenStays ==
  ASSUME FramesTellTheStory, seen' = seen, \A r \in Reqs : Over(r) => Over(r)'
  PROVE  FramesTellTheStory'
<1>1. Https \subseteq Reqs
  BY DEF Reqs
<1>2. FramesInOrder'
  BY DEF FramesTellTheStory, FramesInOrder
<1>3. EndMeansComplete'
  BY <1>1 DEF FramesTellTheStory, EndMeansComplete, Over
<1> QED BY <1>2, <1>3 DEF FramesTellTheStory

(* A step of one request that moves no frame keeps the story if the        *)
(* request's own position still agrees with its frames.                    *)
LEMMA QuietStep ==
  ASSUME StoryInv, NEW r \in Reqs,
         UNCHANGED <<writer, seen>>, peer' = "up" => peer = "up",
         \A s \in Reqs : Over(s) => Over(s)',
         \A s \in Reqs \ {r} : pc'[s] = pc[s],
         pc'[r] = pc[r] \/ (peer = "up" => Story(r)' /\ (r \in Https => NoSilentEnd(r)'))
  PROVE  StoryInv'
<1>1. FramesTellTheStory'
  BY SeenStays DEF StoryInv
<1>2. ASSUME peer' = "up"
      PROVE  (\A s \in Reqs : Story(s)') /\ (\A s \in Https : NoSilentEnd(s)')
  <2>0. \A s \in Reqs : Sent(s)' = Sent(s)
    BY DEF Sent, InHand
  <2>1. /\ peer = "up" /\ \A s \in Reqs : Story(s)
        /\ \A s \in Https : NoSilentEnd(s) /\ s \in Reqs
    BY <1>2 DEF StoryInv, Reqs
  <2>2. ASSUME NEW s \in Reqs, pc'[s] = pc[s] PROVE Story(s)'
    BY <2>0, <2>1, <2>2 DEF Story
  <2>3. ASSUME NEW s \in Https, pc'[s] = pc[s] PROVE NoSilentEnd(s)'
    BY <2>0, <2>1, <2>3 DEF NoSilentEnd
  <2> QED BY <2>1, <2>2, <2>3
<1> QED BY <1>1, <1>2 DEF StoryInv

(* Once the client has gone nothing it has seen changes.                   *)
LEMMA GoneStep ==
  ASSUME StoryInv, peer' # "up", seen' = seen, \A r \in Reqs : Over(r) => Over(r)'
  PROVE  StoryInv'
  BY SeenStays DEF StoryInv

(* A dispatcher's own steps move it only to labels its frames allow.       *)
LEMMA DispatcherStory ==
  ASSUME ActiveInv, StoryInv, NEW r \in Reqs, Dispatcher(r), TypeOK',
         \A s \in Reqs : Over(s) => Over(s)'
  PROVE  StoryInv'
<1>0. TypeOK
  BY DEF ActiveInv, ActiveIsCancellable
<1>1. UNCHANGED <<peer, writer, seen>> /\ \A s \in Reqs \ {r} : pc'[s] = pc[s]
  BY <1>0 DEF Dispatcher, Do, ConnectStream, Loop, BodyRead, EventRead, Cleanup, Goto, TypeOK
<1> SUFFICES ASSUME peer = "up" PROVE Story(r)' /\ (r \in Https => NoSilentEnd(r)')
  BY <1>1, QuietStep
<1>2. Story(r) /\ (r \in Https => NoSilentEnd(r)) /\ Sent(r)' = Sent(r)
  BY <1>1 DEF StoryInv, Sent, InHand
<1>3. Sent(r) \in Seq(Frames)
  BY <1>0, SentType
<1>4. Answering(Sent(r)) => Answered(Sent(r))
  BY DEF Answering, Answered
<1>5. \/ pc[r] = "do" /\ pc'[r] \in {"put_response", "put_error", "cleanup"}
      \/ pc[r] \in {"loop", "read"} /\ pc'[r] \in {"loop", "read", "put_data", "put_last", "put_failure", "put_end"}
      \/ pc[r] = "cleanup" /\ pc'[r] = "ended"
  <2>1. CASE Do(r) \/ ConnectStream(r)
    BY <1>0, <2>1 DEF Do, ConnectStream, Goto, TypeOK
  <2>2. CASE Loop(r)
    BY <1>0, <2>2 DEF Loop, Goto, TypeOK
  <2>3. CASE BodyRead(r)
    BY <1>0, <2>3 DEF BodyRead, Goto, TypeOK
  <2>4. CASE EventRead(r)
    <3>1. PICK x \in {"event", "error", "nothing"} :
            pc' = [pc EXCEPT ![r] = [event |-> "put_data", error |-> "put_end", nothing |-> "loop"][x]]
      BY <2>4 DEF EventRead, NextEvent, Goto
    <3>2. [event |-> "put_data", error |-> "put_end", nothing |-> "loop"][x]
            \in {"put_data", "put_end", "loop"}
      OBVIOUS
    <3> QED BY <1>0, <2>4, <3>1, <3>2 DEF EventRead, TypeOK
  <2>5. CASE Cleanup(r)
    BY <1>0, <2>5 DEF Cleanup, Goto, TypeOK
  <2> QED BY <2>1, <2>2, <2>3, <2>4, <2>5 DEF Dispatcher
<1>6. Story(r)'
  BY <1>2, <1>4, <1>5 DEF Story
<1>7. ASSUME r \in Https, pc'[r] \in {"put_last", "put_end"} PROVE Over(r)'
  <2>1. r \notin Streams
    BY <1>7, ServiceAssumption
  <2>2. CASE Loop(r)
    BY <1>0, <1>7, <2>2 DEF Loop, Goto, TypeOK, Over
  <2>3. CASE BodyRead(r)
    BY <1>0, <1>7, <2>3 DEF BodyRead, Goto, TypeOK, Over
  <2>4. CASE Do(r) \/ Cleanup(r)
    BY <1>0, <1>7, <2>4 DEF Do, Cleanup, Goto, TypeOK
  <2> QED BY <2>1, <2>2, <2>3, <2>4 DEF Dispatcher, ConnectStream, EventRead
<1>8. ASSUME r \in Https PROVE NoSilentEnd(r)'
  BY <1>2, <1>7, <1>8 DEF NoSilentEnd
<1> QED BY <1>6, <1>8

(* What one more frame does to the story, at each label that offers one.   *)
LEMMA PutStory ==
  ASSUME NEW s \in Seq(Frames), NEW f \in Frames, NEW t, t = Append(s, f)
  PROVE  /\ s = <<>> /\ f = "response" => Answering(t)
         /\ Answering(s) /\ f = "data" => Answering(t) /\ Answered(t)
         /\ Answering(s) /\ f = "error" => Answered(t) /\ Reported(t)
         /\ (\/ s = <<>> /\ f \in {"response", "error"}
             \/ Answering(s) /\ f \in {"data", "error"}
             \/ Answered(s) /\ f = "end") => InOrder(t)
         /\ Reported(s) => Reported(t)
         /\ (\E i \in 1..Len(t) : t[i] = "end") => f = "end" \/ (\E i \in 1..Len(s) : s[i] = "end")
<1>1. /\ Len(s) \in Nat /\ Len(t) = Len(s) + 1 /\ t[Len(s) + 1] = f
      /\ \A i \in 1..Len(s) : t[i] = s[i]
  BY AppendFacts
<1>2. (s = <<>> => Len(s) = 0) /\ (s # <<>> => Len(s) >= 1)
  OBVIOUS
<1>3. t # <<>>
  BY <1>1, <1>2
<1>4. \A i \in 1..Len(t) : i \in 1..Len(s) \/ i = Len(s) + 1
  BY <1>1
<1>5. s = <<>> /\ f = "response" => Answering(t)
  BY <1>1, <1>2, <1>3 DEF Answering
<1>6. Answering(s) /\ f = "data" => Answering(t) /\ Answered(t)
  <2> SUFFICES ASSUME Answering(s), f = "data" PROVE Answering(t)
    BY DEF Answering, Answered
  <2>1. t[1] = "response"
    BY <1>1, <1>2 DEF Answering
  <2>2. ASSUME NEW i \in 2..Len(t) PROVE t[i] = "data"
    <3>1. CASE i = Len(s) + 1
      BY <1>1, <3>1
    <3>2. CASE i \in 2..Len(s)
      BY <1>1, <3>2 DEF Answering
    <3> QED BY <1>1, <3>1, <3>2
  <2> QED BY <1>3, <2>1, <2>2 DEF Answering
<1>7. Answering(s) /\ f = "error" => Answered(t) /\ Reported(t)
  <2> SUFFICES ASSUME Answering(s), f = "error" PROVE Answered(t) /\ Reported(t)
    OBVIOUS
  <2>1. t[1] = "response"
    BY <1>1, <1>2 DEF Answering
  <2>2. ASSUME NEW i \in 2..Len(t) PROVE t[i] = "data" \/ (t[i] = "error" /\ i = Len(t))
    <3>1. CASE i = Len(s) + 1
      BY <1>1, <3>1
    <3>2. CASE i \in 2..Len(s)
      BY <1>1, <3>2 DEF Answering
    <3> QED BY <1>1, <3>1, <3>2
  <2>3. Reported(t)
    BY <1>1 DEF Reported
  <2> QED BY <1>3, <2>1, <2>2, <2>3 DEF Answered
<1>8. ASSUME s = <<>>, f \in {"response", "error"} PROVE InOrder(t)
  <2>1. Len(t) = 1 /\ t[1] = f
    BY <1>1, <1>2, <1>8
  <2> QED BY <1>8, <2>1 DEF InOrder
<1>9. ASSUME Answered(s), \/ f = "end"
                          \/ Answering(s) /\ f \in {"data", "error"}
      PROVE  InOrder(t)
  <2>1. t[1] = "response"
    BY <1>1, <1>2, <1>9 DEF Answered
  <2>2. ASSUME NEW i \in 1..Len(t)
        PROVE  /\ (t[i] = "response") <=> (i = 1 /\ t[1] # "error")
               /\ t[i] = "end" => i = Len(t)
               /\ t[i] = "error" => \A j \in (i + 1)..Len(t) : i > 1 /\ t[j] = "end"
    <3>1. CASE i = 1
      BY <2>1, <3>1
    <3>2. CASE i \in 2..Len(s)
      <4>1. t[i] = "data" \/ (t[i] = "error" /\ i = Len(s) /\ f = "end")
        BY <1>1, <1>9, <3>2 DEF Answered, Answering
      <4> QED BY <1>1, <3>2, <4>1
    <3>3. CASE i = Len(s) + 1 /\ i # 1
      BY <1>1, <1>9, <3>3 DEF Frames
    <3> QED BY <1>1, <3>1, <3>2, <3>3
  <2> QED BY <2>2 DEF InOrder
<1>10. Answering(s) => Answered(s)
  BY DEF Answering, Answered
<1>11. Reported(s) => Reported(t)
  BY <1>1 DEF Reported
<1>12. (\E i \in 1..Len(t) : t[i] = "end") => f = "end" \/ (\E i \in 1..Len(s) : s[i] = "end")
  BY <1>1, <1>4
<1> QED BY <1>5, <1>6, <1>7, <1>8, <1>9, <1>10, <1>11, <1>12

(* The rendezvous hands writeSocket the frame that comes next in the       *)
(* story of that request, and touches no other.                            *)
LEMMA TakeStory ==
  ASSUME ActiveInv, StoryInv, NEW r \in Reqs, Take(r), TypeOK',
         \A s \in Reqs : Over(s) => Over(s)'
  PROVE  StoryInv'
<1>0. TypeOK
  BY DEF ActiveInv, ActiveIsCancellable
<1>1. UNCHANGED <<peer, seen, ctx, source>> /\ writer = Idle /\ pc[r] \in Putting
      /\ writer' = [of |-> r, frame |-> Offers[pc[r]]]
  BY DEF Take
<1>2. pc'[r] = Then[pc[r]] /\ \A s \in Reqs \ {r} : pc'[s] = pc[s]
  BY <1>0 DEF Take, Goto, TypeOK
<1>3. FramesTellTheStory'
  BY <1>1, SeenStays DEF StoryInv
<1> SUFFICES ASSUME peer = "up"
             PROVE  (\A s \in Reqs : Story(s)') /\ (\A s \in Https : NoSilentEnd(s)')
  BY <1>1, <1>3 DEF StoryInv
<1>4. \A s \in Reqs : Story(s) /\ ~InHand(s) /\ Sent(s) = seen[s]
  BY <1>0, <1>1, WriterFacts DEF StoryInv, Sent
<1>5. \A s \in Https : NoSilentEnd(s) /\ s \in Reqs
  BY DEF StoryInv, Reqs
<1>6. Offers[pc[r]] \in Frames
  BY <1>1, ChannelFacts
<1>7. \A s \in Reqs \ {r} : Sent(s)' = Sent(s)
  <2>1. ASSUME NEW s \in Reqs, s # r PROVE Sent(s)' = Sent(s)
    <3>1. ~InHand(s)'
      BY <1>1, <2>1 DEF InHand
    <3> QED BY <1>1, <1>4, <3>1 DEF Sent
  <2> QED BY <2>1
<1>8. Sent(r)' = Append(Sent(r), Offers[pc[r]])
  <2>1. InHand(r)' /\ writer'.frame = Offers[pc[r]]
    BY <1>1, <1>6 DEF InHand, Frames
  <2> QED BY <1>1, <1>4, <2>1 DEF Sent
<1>9. ASSUME NEW s \in Reqs, s # r PROVE Story(s)'
  BY <1>2, <1>4, <1>7, <1>9 DEF Story
<1>10. ASSUME NEW s \in Https, s # r PROVE NoSilentEnd(s)'
  BY <1>2, <1>5, <1>7, <1>10 DEF NoSilentEnd
<1> DEFINE a == Sent(r)
           b == Sent(r)'
           f == Offers[pc[r]]
<1>11. a \in Seq(Frames) /\ b = Append(a, f) /\ Story(r)
  BY <1>0, <1>4, <1>8, SentType
<1>12. /\ a = <<>> /\ f = "response" => Answering(b)
       /\ Answering(a) /\ f = "data" => Answering(b) /\ Answered(b)
       /\ Answering(a) /\ f = "error" => Answered(b) /\ Reported(b)
       /\ (\/ a = <<>> /\ f \in {"response", "error"}
           \/ Answering(a) /\ f \in {"data", "error"}
           \/ Answered(a) /\ f = "end") => InOrder(b)
       /\ Reported(a) => Reported(b)
       /\ (\E i \in 1..Len(b) : b[i] = "end") => f = "end" \/ (\E i \in 1..Len(a) : a[i] = "end")
  BY <1>6, <1>11, PutStory
<1> HIDE DEF a, b, f
<1>13. /\ pc[r] \in {"put_response", "put_error"} => a = <<>>
       /\ pc[r] \in {"put_data", "put_last", "put_failure"} => Answering(a)
       /\ pc[r] = "put_end" => Answered(a)
  BY <1>11 DEF Story, a
<1>14. \/ pc[r] = "put_response" /\ f = "response" /\ pc'[r] = "loop"
       \/ pc[r] = "put_data" /\ f = "data" /\ pc'[r] = "loop"
       \/ pc[r] = "put_last" /\ f = "data" /\ pc'[r] = "put_end"
       \/ pc[r] = "put_failure" /\ f = "error" /\ pc'[r] = "put_end"
       \/ pc[r] = "put_error" /\ f = "error" /\ pc'[r] = "cleanup"
       \/ pc[r] = "put_end" /\ f = "end" /\ pc'[r] = "cleanup"
  BY <1>1, <1>2, ChannelFacts DEF f
<1>15. /\ pc'[r] = "loop" => Answering(b)
       /\ pc'[r] = "put_end" => Answered(b)
       /\ InOrder(b) /\ pc'[r] \in {"loop", "put_end", "cleanup"}
  BY <1>12, <1>13, <1>14
<1>16. Story(r)'
  BY <1>15 DEF Story, b
<1>17. ASSUME r \in Https PROVE NoSilentEnd(r)'
  <2>1. /\ pc[r] = "put_last" => Over(r)
        /\ pc[r] = "put_end" => Over(r) \/ Reported(a)
        /\ (\E i \in 1..Len(a) : a[i] = "end") => Over(r) \/ Reported(a)
    BY <1>5, <1>17 DEF NoSilentEnd, a
  <2>2. Over(r)' <=> Over(r)
    BY <1>1 DEF Over
  <2>3. pc'[r] = "put_end" => Over(r) \/ Reported(b)
    BY <1>12, <1>13, <1>14, <2>1
  <2>4. (\E i \in 1..Len(b) : b[i] = "end") => Over(r) \/ Reported(b)
    BY <1>12, <1>14, <2>1
  <2> QED BY <1>15, <2>2, <2>3, <2>4 DEF NoSilentEnd, b
<1> QED BY <1>9, <1>10, <1>16, <1>17

(* writeSocket's frame reaches the client, whose view becomes what the     *)
(* dispatcher had put, or is lost with the connection.                     *)
LEMMA WriteStory ==
  ASSUME ActiveInv, StoryInv, Write, TypeOK'
  PROVE  StoryInv'
<1>0. TypeOK
  BY DEF ActiveInv, ActiveIsCancellable
<1>1. UNCHANGED <<peer, pc, ctx, source>> /\ writer' = Idle
  BY DEF Write, dispVars
<1>2. CASE peer # "up"
  <2>1. seen' = seen /\ \A r \in Reqs : Over(r) => Over(r)'
    BY <1>1, <1>2 DEF Write, Over
  <2> QED BY <1>1, <1>2, <2>1, GoneStep
<1>3. CASE peer = "up"
  <2> DEFINE w == writer.of
  <2>1. w \in Reqs /\ InHand(w) /\ seen' = [seen EXCEPT ![w] = Append(@, writer.frame)]
    BY <1>0, <1>3, WriterFacts DEF Write
  <2>2. ASSUME NEW r \in Reqs PROVE Sent(r)' = Sent(r) /\ seen'[r] = Sent(r)
    <3>1. ~InHand(r)'
      BY <1>1 DEF InHand, Idle, Frames
    <3>2. Sent(r)' = seen'[r]
      BY <3>1 DEF Sent
    <3>3. CASE r = w
      BY <1>0, <2>1, <3>2, <3>3 DEF Sent, TypeOK
    <3>4. CASE r # w
      <4>1. ~InHand(r)
        BY <1>0, <3>4, WriterFacts
      <4> QED BY <1>0, <2>1, <3>2, <3>4, <4>1 DEF Sent, TypeOK
    <3> QED BY <3>3, <3>4
  <2>3. \A r \in Reqs : Story(r) /\ (Over(r)' <=> Over(r))
    BY <1>1, <1>3 DEF StoryInv, Over
  <2>4. \A r \in Https : NoSilentEnd(r) /\ r \in Reqs
    BY <1>3 DEF StoryInv, Reqs
  <2>5. \A r \in Reqs : Story(r)'
    BY <1>1, <2>2, <2>3 DEF Story
  <2>6. \A r \in Https : NoSilentEnd(r)'
    BY <1>1, <2>2, <2>3, <2>4 DEF NoSilentEnd
  <2>7. FramesInOrder'
    <3>1. \A r \in Reqs : InOrder(seen'[r])
      BY <2>2, <2>3 DEF Story
    <3> QED BY <3>1 DEF FramesInOrder, InOrder
  <2>8. EndMeansComplete'
    <3> SUFFICES ASSUME NEW r \in Https, \E i \in 1..Len(seen'[r]) : seen'[r][i] = "end",
                        \A i \in 1..Len(seen'[r]) : seen'[r][i] # "error"
                 PROVE  Over(r)'
      BY DEF EndMeansComplete, Over
    <3>1. seen'[r] = Sent(r)
      BY <2>2, <2>4
    <3>2. ~Reported(Sent(r)) /\ \E i \in 1..Len(Sent(r)) : Sent(r)[i] = "end"
      BY <3>1 DEF Reported
    <3> QED BY <2>3, <2>4, <3>2 DEF NoSilentEnd
  <2> QED BY <2>5, <2>6, <2>7, <2>8 DEF StoryInv, FramesTellTheStory
<1> QED BY <1>2, <1>3

(* Every step keeps the story.                                             *)
LEMMA NextStory == ActiveInv /\ StoryInv /\ [Next]_vars => StoryInv'
<1> SUFFICES ASSUME ActiveInv, StoryInv, [Next]_vars PROVE StoryInv'
  OBVIOUS
<1>a. CASE UNCHANGED vars
  BY <1>a DEF vars, dispVars, StoryInv, FramesTellTheStory, FramesInOrder, EndMeansComplete,
     Story, NoSilentEnd, Sent, InHand, Over
<1> SUFFICES ASSUME Next PROVE StoryInv'
  BY <1>a
<1>0. TypeOK
  BY DEF ActiveInv, ActiveIsCancellable
<1>t. TypeOK' /\ \A r \in Reqs : Over(r) => Over(r)'
  BY NextType
<1>1. ASSUME NEW r \in Reqs, ReadRequest(r) PROVE StoryInv'
  <2>1. CASE r \in Invalid
    BY <1>1, <1>t, <2>1, GoneStep DEF ReadRequest, Exits
  <2>2. CASE r \notin Invalid
    <3>1. /\ UNCHANGED <<peer, writer, seen>> /\ pc[r] = "new" /\ pc'[r] = "do"
          /\ \A s \in Reqs \ {r} : pc'[s] = pc[s]
      BY <1>0, <1>1, <2>2 DEF ReadRequest, Goto, TypeOK
    <3>2. ASSUME peer = "up" PROVE Story(r)' /\ (r \in Https => NoSilentEnd(r)')
      <4>1. Story(r) /\ (r \in Https => NoSilentEnd(r)) /\ Sent(r)' = Sent(r)
        BY <3>1, <3>2 DEF StoryInv, Sent, InHand
      <4>2. Sent(r) = <<>> /\ Len(Sent(r)) = 0
        BY <3>1, <4>1 DEF Story
      <4> QED BY <3>1, <4>1, <4>2 DEF Story, NoSilentEnd
    <3> QED BY <1>t, <3>1, <3>2, QuietStep
  <2> QED BY <2>1, <2>2
<1>2. ASSUME NEW r \in Reqs, ReadCancel(r) \/ ServerEnds(r) \/ Expire(r) PROVE StoryInv'
  <2>1. UNCHANGED <<peer, writer, seen, pc>>
    BY <1>2 DEF ReadCancel, ServerEnds, Expire
  <2> QED BY <1>t, <2>1, QuietStep
<1>3. CASE ReadExit \/ Disconnect
  <2>1. peer' = "gone" /\ seen' = seen
    BY <1>3 DEF ReadExit, Exits, Disconnect
  <2> QED BY <1>t, <2>1, GoneStep
<1>4. CASE ReadGarbage \/ ReadError
  <2>1. UNCHANGED <<peer, writer, seen, pc, ctx, source>>
    BY <1>4 DEF ReadGarbage, ReadError, dispVars
  <2> QED
    BY <2>1 DEF StoryInv, FramesTellTheStory, FramesInOrder, EndMeansComplete,
       Story, NoSilentEnd, Sent, InHand, Over
<1>5. CASE Write
  BY <1>5, <1>t, WriteStory
<1>6. ASSUME NEW r \in Reqs, Take(r) PROVE StoryInv'
  BY <1>6, <1>t, TakeStory
<1>7. ASSUME NEW r \in Reqs, Dispatcher(r) PROVE StoryInv'
  BY <1>7, <1>t, DispatcherStory
<1>8. Https \subseteq Reqs
  BY DEF Reqs
<1> QED BY <1>1, <1>2, <1>3, <1>4, <1>5, <1>6, <1>7, <1>8 DEF Next, Read

-----------------------------------------------------------------------------
(* activeRequests holds exactly the running requests nobody cancelled,     *)
(* whichever way a dispatcher ends and whatever the client or the writer   *)
(* does in the meantime.                                                   *)
THEOREM ActiveSafe == Spec => []ActiveIsCancellable
<1>1. ActiveInv => ActiveIsCancellable
  BY DEF ActiveInv
<1> QED BY InitInv, NextActive, <1>1, PTL DEF Spec

(* However many dispatchers share the channel to writeSocket, the client   *)
(* sees the frames of each request in order, and an HTTP response that     *)
(* ends without an error frame is whole unless its context ended.          *)
THEOREM StorySafe == Spec => []FramesTellTheStory
<1>1. StoryInv => FramesTellTheStory
  BY DEF StoryInv
<1> QED BY InitInv, NextActive, NextStory, <1>1, PTL DEF Spec
=============================================================================
