-------------------------- MODULE NotifyPipeProofs --------------------------
(***************************************************************************)
(* Safety of NotifyPipe for any number of requests, descriptors and        *)
(* executor threads.  DescriptorsOwned is inductive once the numbers that  *)
(* goroutines and executor jobs keep are known to be descriptors.          *)
(* EarlyWakeUpNeedsAbandon is not: a byte that is not a request's own may  *)
(* have come from a request that itself was woken by a stray byte, so the  *)
(* invariant follows the chain back to an abandoned request that had the   *)
(* same write descriptor.                                                  *)
(***************************************************************************)
EXTENDS NotifyPipe, TLAPS

(* Goroutine and executor job of a request keep numbers of descriptors.    *)
NumbersGiven ==
  \A r \in Reqs :
    Open(r) \/ go[r] # "none" \/ job[r] # "none" => rfd[r] \in Fds /\ wfd[r] \in Fds

(* What the coroutine's position says of its goroutine, job and entry.     *)
Progress(r) ==
  /\ py[r] = "idle" => bytes[r] = 0
  /\ py[r] \in {"idle", "submit"} => job[r] = "none" /\ go[r] = "none"
  /\ py[r] \in {"idle", "submit", "await", "fetch"} <=> ended[r] = "no"
  /\ py[r] = "fetch" => job[r] = "done"
  /\ py[r] \in {"await", "fetch"} => go[r] # "none" /\ entry[r] # "deleted"
  /\ go[r] \in {"stored", "done"} => entry[r] \in {"ready", "deleted"}

(* A blocked os.read is in some request's pipe, and in its own as long as  *)
(* the request waits for it.                                               *)
SourceKnown(r) ==
  /\ job[r] = "reading" => source[r] \in Reqs
  /\ job[r] = "reading" /\ py[r] = "await" => source[r] = r

(* An abandoned request had the write descriptor of r.                     *)
Stray(r) == \E q \in Reqs \ {r} : ended[q] = "abandoned" /\ wfd[q] = wfd[r]

(* A byte, or a wake-up, that the request's own goroutine did not cause    *)
(* goes back to an abandoned request.                                      *)
ByteExplained(r) ==
  py[r] \in {"submit", "await", "fetch"} /\ go[r] # "done"
    /\ (bytes[r] > 0 \/ job[r] = "done") => Stray(r)

(* A goroutine outlives its call only if the call was abandoned or was     *)
(* itself woken by a stray byte.                                           *)
LateWriterExplained(r) ==
  py[r] \in {"close", "finished"} /\ go[r] \in {"working", "stored"} =>
    ended[r] = "abandoned" \/ Stray(r)

(* The inductive invariant.                                                *)
Explained ==
  \A r \in Reqs : /\ Progress(r) /\ SourceKnown(r)
                  /\ ByteExplained(r) /\ LateWriterExplained(r)

PipeInv == DescriptorsOwned /\ NumbersGiven /\ Explained

-----------------------------------------------------------------------------
(* Facts the steps share.                                                  *)

(* A step that opens and closes nothing leaves the descriptors owned.      *)
LEMMA OwnedFrame ==
  ASSUME DescriptorsOwned, TypeOK', UNCHANGED <<rfd, wfd, table>>,
         \A r \in Reqs : Open(r)' <=> Open(r)
  PROVE  DescriptorsOwned'
<1>1. \A f \in Fds : table[f] # Free => table[f].pipe \in Reqs
  BY DEF DescriptorsOwned, TypeOK
<1>2. \A r \in Reqs : Open(r)' => /\ table'[rfd'[r]] = ReadEnd(r)
                                  /\ table'[wfd'[r]] = WriteEnd(r)
  BY DEF DescriptorsOwned
<1>3. \A f \in Fds : table'[f] # Free => /\ Open(table[f].pipe)'
                                         /\ f \in {rfd'[table'[f].pipe], wfd'[table'[f].pipe]}
  BY <1>1 DEF DescriptorsOwned
<1> QED BY <1>2, <1>3 DEF DescriptorsOwned, Open, ReadEnd, WriteEnd, Free

(* The two ends of all pipes and the free descriptor are told apart.       *)
LEMMA EndsDiffer ==
  ASSUME NEW r, NEW s
  PROVE  /\ ReadEnd(r) # WriteEnd(s) /\ ReadEnd(r) # Free /\ WriteEnd(r) # Free
         /\ r # s => ReadEnd(r) # ReadEnd(s) /\ WriteEnd(r) # WriteEnd(s)
         /\ ReadEnd(r).pipe = r /\ WriteEnd(r).pipe = r
         /\ ReadEnd(r).end = "r" /\ WriteEnd(r).end = "w" /\ Free.end = "free"
  BY DEF ReadEnd, WriteEnd, Free

(* A write end found in the table is the one of an open request, under the *)
(* number that request was given.                                          *)
LEMMA WriterIsOwner ==
  ASSUME DescriptorsOwned, NEW f \in Fds, table[f].end = "w"
  PROVE  /\ table[f].pipe \in Reqs /\ Open(table[f].pipe)
         /\ wfd[table[f].pipe] = f /\ table[f] = WriteEnd(table[f].pipe)
<1>1. table[f] \in [end : {"r", "w"}, pipe : Reqs] /\ table[f] # Free
  BY DEF DescriptorsOwned, TypeOK, Free
<1> DEFINE p == table[f].pipe
<1>2. p \in Reqs /\ table[f] = WriteEnd(p)
  BY <1>1 DEF WriteEnd
<1>3. Open(p) /\ f \in {rfd[p], wfd[p]}
  BY <1>1 DEF DescriptorsOwned
<1>4. table[rfd[p]] = ReadEnd(p)
  BY <1>2, <1>3 DEF DescriptorsOwned
<1>5. rfd[p] # f
  BY <1>2, <1>4, EndsDiffer
<1> QED BY <1>2, <1>3, <1>5

(* Having been abandoned lasts, and a number is given once: what is        *)
(* explained by an abandoned request stays explained.                      *)
LEMMA StrayStays ==
  ASSUME Explained, NEW r \in Reqs, py[r] # "idle", Stray(r),
         \A q \in Reqs : ended[q] = "abandoned" => ended'[q] = "abandoned",
         \A q \in Reqs : py[q] = "idle" \/ wfd'[q] = wfd[q]
  PROVE  Stray(r)'
<1>1. PICK q \in Reqs \ {r} : ended[q] = "abandoned" /\ wfd[q] = wfd[r]
  BY DEF Stray
<1>2. py[q] # "idle"
  BY <1>1 DEF Explained, Progress
<1>3. ended'[q] = "abandoned" /\ wfd'[q] = wfd'[r]
  BY <1>1, <1>2
<1> QED BY <1>1, <1>3 DEF Stray

(* A request to which a step does nothing but let another one take its     *)
(* bytes stays explained.                                                  *)
LEMMA ExplainedFrame ==
  ASSUME TypeOK, Explained, NEW r \in Reqs,
         py'[r] = py[r], ended'[r] = ended[r], job'[r] = job[r],
         source'[r] = source[r], go'[r] = go[r], entry'[r] = entry[r],
         bytes'[r] \in Nat, bytes'[r] <= bytes[r],
         \A q \in Reqs : ended[q] = "abandoned" => ended'[q] = "abandoned",
         \A q \in Reqs : py[q] = "idle" \/ wfd'[q] = wfd[q]
  PROVE  Progress(r)' /\ SourceKnown(r)' /\ ByteExplained(r)' /\ LateWriterExplained(r)'
<1>0. bytes[r] \in Nat
  BY DEF TypeOK
<1>1. Progress(r) /\ SourceKnown(r) /\ ByteExplained(r) /\ LateWriterExplained(r)
  BY DEF Explained
<1>2. Progress(r)' /\ SourceKnown(r)'
  BY <1>0, <1>1 DEF Progress, SourceKnown
<1>3. ASSUME py[r] # "idle", Stray(r) PROVE Stray(r)'
  BY <1>3, StrayStays
<1>4. ByteExplained(r)'
  BY <1>0, <1>1, <1>3 DEF ByteExplained
<1>5. LateWriterExplained(r)'
  BY <1>1, <1>3 DEF LateWriterExplained
<1> QED BY <1>2, <1>4, <1>5

(* A step of one request that opens and closes nothing and writes no byte  *)
(* keeps the invariant if the request itself stays explained.              *)
LEMMA LocalStep ==
  ASSUME PipeInv, TypeOK', NEW r \in Reqs,
         UNCHANGED <<rfd, wfd, table>>,
         \A s \in Reqs \ {r} : /\ py'[s] = py[s] /\ ended'[s] = ended[s]
                               /\ job'[s] = job[s] /\ source'[s] = source[s]
                               /\ go'[s] = go[s] /\ entry'[s] = entry[s]
                               /\ bytes'[s] <= bytes[s],
         Open(r)' <=> Open(r),
         go'[r] # "none" \/ job'[r] # "none" => Open(r) \/ go[r] # "none" \/ job[r] # "none",
         ended[r] = "abandoned" => ended'[r] = "abandoned",
         Progress(r)', SourceKnown(r)', ByteExplained(r)', LateWriterExplained(r)'
  PROVE  PipeInv'
<1>0. DescriptorsOwned /\ TypeOK /\ NumbersGiven /\ Explained
  BY DEF PipeInv, DescriptorsOwned
<1>1. \A s \in Reqs : Open(s)' <=> Open(s)
  BY DEF Open
<1>2. DescriptorsOwned'
  BY <1>0, <1>1, OwnedFrame
<1>3. NumbersGiven'
  BY <1>0, <1>1 DEF NumbersGiven
<1>4. ASSUME NEW s \in Reqs, s # r
      PROVE  Progress(s)' /\ SourceKnown(s)' /\ ByteExplained(s)' /\ LateWriterExplained(s)'
  <2>1. bytes'[s] \in Nat
    BY DEF TypeOK
  <2>2. \A q \in Reqs : ended[q] = "abandoned" => ended'[q] = "abandoned"
    OBVIOUS
  <2> QED BY <1>0, <1>4, <2>1, <2>2, ExplainedFrame
<1>5. Explained'
  BY <1>4 DEF Explained
<1> QED BY <1>2, <1>3, <1>5 DEF PipeInv

-----------------------------------------------------------------------------
(* The steps.                                                              *)

(* Before any call nothing is open and nobody waits.                       *)
LEMMA InitInv == Init => PipeInv
<1> SUFFICES ASSUME Init PROVE PipeInv
  OBVIOUS
<1>1. TypeOK
  BY PipeAssumption DEF Init, TypeOK, Fds, Free, Nobody
<1>2. DescriptorsOwned /\ NumbersGiven
  BY <1>1 DEF Init, DescriptorsOwned, NumbersGiven, Open
<1>3. Explained
  BY DEF Init, Explained, Progress, SourceKnown, ByteExplained, LateWriterExplained
<1> QED BY <1>2, <1>3 DEF PipeInv

(* os.pipe() gives two descriptors that nobody has, or fails.              *)
LEMMA OpenPipeInv ==
  ASSUME PipeInv, NEW r \in Reqs, OpenPipe(r)
  PROVE  PipeInv'
<1>0. DescriptorsOwned /\ TypeOK /\ NumbersGiven /\ Explained
  BY DEF PipeInv, DescriptorsOwned
<1>a. py[r] = "idle" /\ Progress(r) /\ UNCHANGED <<bytes, job, source, go, entry>>
  BY <1>0 DEF OpenPipe, Explained
<1>b. /\ bytes[r] = 0 /\ job[r] = "none" /\ go[r] = "none" /\ ended[r] = "no"
  BY <1>a DEF Progress
<1>1. CASE UNCHANGED <<rfd, wfd, table>> /\ py' = [py EXCEPT ![r] = "finished"]
           /\ ended' = [ended EXCEPT ![r] = "emfile"]
  <2>1. TypeOK'
    BY <1>0, <1>1, <1>a DEF TypeOK
  <2>2. \A s \in Reqs : Open(s)' <=> Open(s)
    BY <1>0, <1>1, <1>a DEF Open, TypeOK
  <2>3. DescriptorsOwned'
    BY <1>0, <1>1, <2>1, <2>2, OwnedFrame
  <2>4. NumbersGiven'
    BY <1>0, <1>1, <1>a, <2>2 DEF NumbersGiven
  <2>5. \A q \in Reqs : ended[q] = "abandoned" => ended'[q] = "abandoned"
    BY <1>0, <1>1, <1>b DEF TypeOK
  <2>6. ASSUME NEW s \in Reqs, s # r
        PROVE  Progress(s)' /\ SourceKnown(s)' /\ ByteExplained(s)' /\ LateWriterExplained(s)'
    <3>1. py'[s] = py[s] /\ ended'[s] = ended[s] /\ bytes[s] \in Nat
      BY <1>0, <1>1, <2>6 DEF TypeOK
    <3> QED BY <1>0, <1>1, <1>a, <2>5, <3>1, ExplainedFrame
  <2>7. Progress(r)' /\ SourceKnown(r)' /\ ByteExplained(r)' /\ LateWriterExplained(r)'
    <3>1. /\ py'[r] = "finished" /\ ended'[r] = "emfile" /\ job'[r] = "none" /\ go'[r] = "none"
      BY <1>0, <1>1, <1>a, <1>b DEF TypeOK
    <3> QED BY <3>1 DEF Progress, SourceKnown, ByteExplained, LateWriterExplained
  <2> QED BY <2>3, <2>4, <2>6, <2>7 DEF PipeInv, Explained
<1>2. ASSUME NEW f \in FreeFds, NEW g \in FreeFds, f < g,
             rfd' = [rfd EXCEPT ![r] = f], wfd' = [wfd EXCEPT ![r] = g],
             table' = [table EXCEPT ![f] = ReadEnd(r), ![g] = WriteEnd(r)],
             py' = [py EXCEPT ![r] = "submit"], ended' = ended
      PROVE  PipeInv'
  <2>0. f \in Fds /\ g \in Fds /\ f # g /\ table[f] = Free /\ table[g] = Free
    BY <1>2, PipeAssumption DEF FreeFds, Fds
  <2>1. TypeOK'
    <3>1. rfd' \in [Reqs -> 0..MaxFd] /\ wfd' \in [Reqs -> 0..MaxFd]
      BY <1>0, <1>2, <2>0, PipeAssumption DEF TypeOK, Fds
    <3>2. table' \in [Fds -> {Free} \cup [end : {"r", "w"}, pipe : Reqs]]
      <4>1. ReadEnd(r) \in [end : {"r", "w"}, pipe : Reqs] /\ WriteEnd(r) \in [end : {"r", "w"}, pipe : Reqs]
        BY DEF ReadEnd, WriteEnd
      <4> QED BY <1>0, <1>2, <4>1 DEF TypeOK
    <3>3. py' \in [Reqs -> {"idle", "submit", "await", "fetch", "close", "finished"}]
      BY <1>0, <1>2 DEF TypeOK
    <3> QED BY <1>0, <1>a, <1>2, <3>1, <3>2, <3>3 DEF TypeOK
  <2>2. \A s \in Reqs \ {r} : /\ py'[s] = py[s] /\ rfd'[s] = rfd[s] /\ wfd'[s] = wfd[s]
                              /\ Open(s)' <=> Open(s)
    BY <1>0, <1>2 DEF TypeOK, Open
  <2>3. py'[r] = "submit" /\ rfd'[r] = f /\ wfd'[r] = g
    BY <1>0, <1>2 DEF TypeOK
  <2>4. /\ table'[f] = ReadEnd(r) /\ table'[g] = WriteEnd(r)
        /\ \A h \in Fds \ {f, g} : table'[h] = table[h]
    BY <1>0, <1>2, <2>0 DEF TypeOK
  <2>5. DescriptorsOwned'
    <3>1. ASSUME NEW s \in Reqs, Open(s)'
          PROVE  table'[rfd'[s]] = ReadEnd(s) /\ table'[wfd'[s]] = WriteEnd(s)
      <4>1. CASE s = r  BY <2>3, <2>4, <4>1
      <4>2. CASE s # r
        <5>1. /\ table[rfd[s]] = ReadEnd(s) /\ table[wfd[s]] = WriteEnd(s)
              /\ rfd[s] \in Fds /\ wfd[s] \in Fds
          BY <1>0, <2>2, <3>1, <4>2 DEF DescriptorsOwned, NumbersGiven
        <5>2. rfd[s] \notin {f, g} /\ wfd[s] \notin {f, g}
          BY <2>0, <5>1, EndsDiffer
        <5> QED BY <2>2, <2>4, <4>2, <5>1, <5>2
      <4> QED BY <4>1, <4>2
    <3>2. ASSUME NEW h \in Fds, table'[h] # Free
          PROVE  /\ Open(table[h].pipe)' \/ h \in {f, g}
                 /\ h \in {rfd'[table'[h].pipe], wfd'[table'[h].pipe]}
                 /\ h \notin {f, g} => table'[h] = table[h]
                 /\ h \in {f, g} => table'[h].pipe = r
      <4>1. CASE h \in {f, g}
        <5>1. table'[h].pipe = r
          BY <2>4, <4>1, EndsDiffer
        <5> QED BY <2>3, <4>1, <5>1
      <4>2. CASE h \notin {f, g}
        <5>1. table'[h] = table[h]
          BY <2>4, <4>2
        <5>2. /\ Open(table[h].pipe) /\ h \in {rfd[table[h].pipe], wfd[table[h].pipe]}
              /\ table[h].pipe \in Reqs
          BY <1>0, <3>2, <5>1 DEF DescriptorsOwned, TypeOK
        <5>3. table[h].pipe # r
          BY <1>a, <5>2 DEF Open
        <5> QED BY <2>2, <4>2, <5>1, <5>2, <5>3
      <4> QED BY <4>1, <4>2
    <3>3. \A h \in Fds : table'[h] # Free => py'[table'[h].pipe] \in {"submit", "await", "fetch", "close"}
      BY <2>3, <3>2 DEF Open
    <3> QED BY <2>1, <3>1, <3>2, <3>3 DEF DescriptorsOwned, Open, Free, ReadEnd, WriteEnd
  <2>6. NumbersGiven'
    <3>1. ASSUME NEW s \in Reqs, Open(s)' \/ go'[s] # "none" \/ job'[s] # "none"
          PROVE  rfd'[s] \in Fds /\ wfd'[s] \in Fds
      BY <1>0, <1>a, <2>0, <2>2, <2>3, <3>1 DEF NumbersGiven
    <3> QED BY <3>1 DEF NumbersGiven
  <2>7. \A q \in Reqs : py[q] = "idle" \/ wfd'[q] = wfd[q]
    BY <1>a, <2>2
  <2>8. ASSUME NEW s \in Reqs, s # r
        PROVE  Progress(s)' /\ SourceKnown(s)' /\ ByteExplained(s)' /\ LateWriterExplained(s)'
    <3>1. py'[s] = py[s] /\ bytes[s] \in Nat
      BY <1>0, <2>2, <2>8 DEF TypeOK
    <3> QED BY <1>0, <1>a, <1>2, <2>7, <3>1, <2>8, ExplainedFrame
  <2>9. Progress(r)' /\ SourceKnown(r)' /\ ByteExplained(r)' /\ LateWriterExplained(r)'
    <3>1. /\ py'[r] = "submit" /\ ended'[r] = "no" /\ job'[r] = "none" /\ go'[r] = "none"
          /\ bytes'[r] = 0
      BY <1>a, <1>b, <1>2, <2>3
    <3> QED BY <3>1 DEF Progress, SourceKnown, ByteExplained, LateWriterExplained
  <2> QED BY <2>5, <2>6, <2>8, <2>9 DEF PipeInv, Explained
<1> QED BY <1>1, <1>2 DEF OpenPipe

(* A submission starts goroutine and job, or is refused and starts         *)
(* neither.                                                                *)
LEMMA SubmitInv ==
  ASSUME PipeInv, NEW r \in Reqs, Submit(r)
  PROVE  PipeInv'
<1>0. TypeOK /\ Explained /\ Progress(r) /\ SourceKnown(r) /\ ByteExplained(r) /\ LateWriterExplained(r)
  BY DEF PipeInv, DescriptorsOwned, Explained
<1>1. TypeOK'
  BY <1>0 DEF Submit, TypeOK
<1>2. \A s \in Reqs \ {r} : /\ py'[s] = py[s] /\ ended'[s] = ended[s]
                            /\ job'[s] = job[s] /\ source'[s] = source[s]
                            /\ go'[s] = go[s] /\ entry'[s] = entry[s]
                            /\ bytes'[s] \in Nat /\ bytes'[s] <= bytes[s]
  BY <1>0 DEF Submit, TypeOK
<1>3. \A q \in Reqs : ended[q] = "abandoned" => ended'[q] = "abandoned"
  BY <1>0 DEF Submit, TypeOK, Explained, Progress
<1>4. py[r] # "idle" /\ wfd' = wfd /\ bytes[r] \in Nat /\ bytes'[r] = bytes[r]
  BY <1>0 DEF Submit, TypeOK, Progress
<1>5. Stray(r) => Stray(r)'
  BY <1>0, <1>3, <1>4, StrayStays
<1>6. Progress(r)' /\ SourceKnown(r)'
  BY <1>0 DEF Submit, TypeOK, Progress, SourceKnown
<1>7. ByteExplained(r)'
  BY <1>0, <1>4, <1>5 DEF Submit, TypeOK, ByteExplained, Progress
<1>8. LateWriterExplained(r)'
  BY <1>0, <1>5 DEF Submit, TypeOK, LateWriterExplained, ByteExplained, Progress
<1>9. /\ Open(r)' <=> Open(r)
      /\ go'[r] # "none" \/ job'[r] # "none" => Open(r) \/ go[r] # "none" \/ job[r] # "none"
  BY <1>0 DEF Submit, TypeOK, Open
<1> QED BY <1>1, <1>2, <1>3, <1>6, <1>7, <1>8, <1>9, LocalStep DEF Submit

(* Giving up explains whatever the goroutine writes later.                 *)
LEMMA AbandonInv ==
  ASSUME PipeInv, NEW r \in Reqs, Abandon(r)
  PROVE  PipeInv'
<1>0. TypeOK /\ Explained /\ Progress(r) /\ SourceKnown(r) /\ ByteExplained(r) /\ LateWriterExplained(r)
  BY DEF PipeInv, DescriptorsOwned, Explained
<1>1. TypeOK'
  BY <1>0 DEF Abandon, TypeOK
<1>2. \A s \in Reqs \ {r} : /\ py'[s] = py[s] /\ ended'[s] = ended[s]
                            /\ job'[s] = job[s] /\ source'[s] = source[s]
                            /\ go'[s] = go[s] /\ entry'[s] = entry[s]
                            /\ bytes'[s] \in Nat /\ bytes'[s] <= bytes[s]
  BY <1>0 DEF Abandon, TypeOK
<1>3. \A q \in Reqs : ended[q] = "abandoned" => ended'[q] = "abandoned"
  BY <1>0 DEF Abandon, TypeOK, Explained, Progress
<1>4. py[r] # "idle" /\ wfd' = wfd /\ bytes[r] \in Nat /\ bytes'[r] = bytes[r]
  BY <1>0 DEF Abandon, TypeOK, Progress
<1>5. Stray(r) => Stray(r)'
  BY <1>0, <1>3, <1>4, StrayStays
<1>6. Progress(r)' /\ SourceKnown(r)'
  BY <1>0 DEF Abandon, TypeOK, Progress, SourceKnown
<1>7. ByteExplained(r)'
  BY <1>0, <1>4, <1>5 DEF Abandon, TypeOK, ByteExplained
<1>8. LateWriterExplained(r)'
  BY <1>0, <1>5 DEF Abandon, TypeOK, LateWriterExplained, ByteExplained, Progress
<1>9. /\ Open(r)' <=> Open(r)
      /\ go'[r] # "none" \/ job'[r] # "none" => Open(r) \/ go[r] # "none" \/ job[r] # "none"
  BY <1>0 DEF Abandon, TypeOK, Open
<1> QED BY <1>1, <1>2, <1>3, <1>6, <1>7, <1>8, <1>9, LocalStep DEF Abandon

(* A wake-up changes nothing but the coroutine's position.                 *)
LEMMA NotifiedInv ==
  ASSUME PipeInv, NEW r \in Reqs, Notified(r)
  PROVE  PipeInv'
<1>0. TypeOK /\ Explained /\ Progress(r) /\ SourceKnown(r) /\ ByteExplained(r) /\ LateWriterExplained(r)
  BY DEF PipeInv, DescriptorsOwned, Explained
<1>1. TypeOK'
  BY <1>0 DEF Notified, TypeOK
<1>2. \A s \in Reqs \ {r} : /\ py'[s] = py[s] /\ ended'[s] = ended[s]
                            /\ job'[s] = job[s] /\ source'[s] = source[s]
                            /\ go'[s] = go[s] /\ entry'[s] = entry[s]
                            /\ bytes'[s] \in Nat /\ bytes'[s] <= bytes[s]
  BY <1>0 DEF Notified, TypeOK
<1>3. \A q \in Reqs : ended[q] = "abandoned" => ended'[q] = "abandoned"
  BY <1>0 DEF Notified, TypeOK, Explained, Progress
<1>4. py[r] # "idle" /\ wfd' = wfd /\ bytes[r] \in Nat /\ bytes'[r] = bytes[r]
  BY <1>0 DEF Notified, TypeOK, Progress
<1>5. Stray(r) => Stray(r)'
  BY <1>0, <1>3, <1>4, StrayStays
<1>6. Progress(r)' /\ SourceKnown(r)'
  BY <1>0 DEF Notified, TypeOK, Progress, SourceKnown
<1>7. ByteExplained(r)'
  BY <1>0, <1>4, <1>5 DEF Notified, TypeOK, ByteExplained
<1>8. LateWriterExplained(r)'
  BY <1>0, <1>5 DEF Notified, TypeOK, LateWriterExplained, ByteExplained, Progress
<1>9. /\ Open(r)' <=> Open(r)
      /\ go'[r] # "none" \/ job'[r] # "none" => Open(r) \/ go[r] # "none" \/ job[r] # "none"
  BY <1>0 DEF Notified, TypeOK, Open
<1> QED BY <1>1, <1>2, <1>3, <1>6, <1>7, <1>8, <1>9, LocalStep DEF Notified

(* Fetching before the own goroutine has written leaves a late writer,     *)
(* which an abandoned request explains.                                    *)
LEMMA FetchInv ==
  ASSUME PipeInv, NEW r \in Reqs, Fetch(r)
  PROVE  PipeInv'
<1>0. TypeOK /\ Explained /\ Progress(r) /\ SourceKnown(r) /\ ByteExplained(r) /\ LateWriterExplained(r)
  BY DEF PipeInv, DescriptorsOwned, Explained
<1>1. TypeOK'
  BY <1>0 DEF Fetch, TypeOK
<1>2. \A s \in Reqs \ {r} : /\ py'[s] = py[s] /\ ended'[s] = ended[s]
                            /\ job'[s] = job[s] /\ source'[s] = source[s]
                            /\ go'[s] = go[s] /\ entry'[s] = entry[s]
                            /\ bytes'[s] \in Nat /\ bytes'[s] <= bytes[s]
  BY <1>0 DEF Fetch, TypeOK
<1>3. \A q \in Reqs : ended[q] = "abandoned" => ended'[q] = "abandoned"
  BY <1>0 DEF Fetch, TypeOK, Explained, Progress
<1>4. py[r] # "idle" /\ wfd' = wfd /\ bytes[r] \in Nat /\ bytes'[r] = bytes[r]
  BY <1>0 DEF Fetch, TypeOK, Progress
<1>5. Stray(r) => Stray(r)'
  BY <1>0, <1>3, <1>4, StrayStays
<1>6. Progress(r)' /\ SourceKnown(r)'
  BY <1>0 DEF Fetch, TypeOK, Progress, SourceKnown
<1>7. ByteExplained(r)'
  BY <1>0, <1>4, <1>5 DEF Fetch, TypeOK, ByteExplained
<1>8. LateWriterExplained(r)'
  BY <1>0, <1>5 DEF Fetch, TypeOK, LateWriterExplained, ByteExplained, Progress
<1>9. /\ Open(r)' <=> Open(r)
      /\ go'[r] # "none" \/ job'[r] # "none" => Open(r) \/ go[r] # "none" \/ job[r] # "none"
  BY <1>0 DEF Fetch, TypeOK, Open
<1> QED BY <1>1, <1>2, <1>3, <1>6, <1>7, <1>8, <1>9, LocalStep DEF Fetch

(* A worker takes the job.                                                 *)
LEMMA JobStartInv ==
  ASSUME PipeInv, NEW r \in Reqs, JobStart(r)
  PROVE  PipeInv'
<1>0. TypeOK /\ Explained /\ Progress(r) /\ SourceKnown(r) /\ ByteExplained(r) /\ LateWriterExplained(r)
  BY DEF PipeInv, DescriptorsOwned, Explained
<1>1. TypeOK'
  BY <1>0 DEF JobStart, TypeOK
<1>2. \A s \in Reqs \ {r} : /\ py'[s] = py[s] /\ ended'[s] = ended[s]
                            /\ job'[s] = job[s] /\ source'[s] = source[s]
                            /\ go'[s] = go[s] /\ entry'[s] = entry[s]
                            /\ bytes'[s] \in Nat /\ bytes'[s] <= bytes[s]
  BY <1>0 DEF JobStart, TypeOK
<1>3. \A q \in Reqs : ended[q] = "abandoned" => ended'[q] = "abandoned"
  BY <1>0 DEF JobStart, TypeOK, Explained, Progress
<1>4. py[r] # "idle" /\ wfd' = wfd /\ bytes[r] \in Nat /\ bytes'[r] = bytes[r]
  BY <1>0 DEF JobStart, TypeOK, Progress
<1>5. Stray(r) => Stray(r)'
  BY <1>0, <1>3, <1>4, StrayStays
<1>6. Progress(r)' /\ SourceKnown(r)'
  BY <1>0 DEF JobStart, TypeOK, Progress, SourceKnown
<1>7. ByteExplained(r)'
  BY <1>0, <1>4, <1>5 DEF JobStart, TypeOK, ByteExplained
<1>8. LateWriterExplained(r)'
  BY <1>0, <1>5 DEF JobStart, TypeOK, LateWriterExplained, ByteExplained, Progress
<1>9. /\ Open(r)' <=> Open(r)
      /\ go'[r] # "none" \/ job'[r] # "none" => Open(r) \/ go[r] # "none" \/ job[r] # "none"
  BY <1>0 DEF JobStart, TypeOK, Open
<1> QED BY <1>1, <1>2, <1>3, <1>6, <1>7, <1>8, <1>9, LocalStep DEF JobStart

(* The result is ready before the byte is written.                         *)
LEMMA GoStoreInv ==
  ASSUME PipeInv, NEW r \in Reqs, GoStore(r)
  PROVE  PipeInv'
<1>0. TypeOK /\ Explained /\ Progress(r) /\ SourceKnown(r) /\ ByteExplained(r) /\ LateWriterExplained(r)
  BY DEF PipeInv, DescriptorsOwned, Explained
<1>1. TypeOK'
  BY <1>0 DEF GoStore, TypeOK
<1>2. \A s \in Reqs \ {r} : /\ py'[s] = py[s] /\ ended'[s] = ended[s]
                            /\ job'[s] = job[s] /\ source'[s] = source[s]
                            /\ go'[s] = go[s] /\ entry'[s] = entry[s]
                            /\ bytes'[s] \in Nat /\ bytes'[s] <= bytes[s]
  BY <1>0 DEF GoStore, TypeOK
<1>3. \A q \in Reqs : ended[q] = "abandoned" => ended'[q] = "abandoned"
  BY <1>0 DEF GoStore, TypeOK, Explained, Progress
<1>4. py[r] # "idle" /\ wfd' = wfd /\ bytes[r] \in Nat /\ bytes'[r] = bytes[r]
  BY <1>0 DEF GoStore, TypeOK, Progress
<1>5. Stray(r) => Stray(r)'
  BY <1>0, <1>3, <1>4, StrayStays
<1>6. Progress(r)' /\ SourceKnown(r)'
  BY <1>0 DEF GoStore, TypeOK, Progress, SourceKnown
<1>7. ByteExplained(r)'
  BY <1>0, <1>4, <1>5 DEF GoStore, TypeOK, ByteExplained
<1>8. LateWriterExplained(r)'
  BY <1>0, <1>5 DEF GoStore, TypeOK, LateWriterExplained, ByteExplained, Progress
<1>9. /\ Open(r)' <=> Open(r)
      /\ go'[r] # "none" \/ job'[r] # "none" => Open(r) \/ go[r] # "none" \/ job[r] # "none"
  BY <1>0 DEF GoStore, TypeOK, Open
<1> QED BY <1>1, <1>2, <1>3, <1>6, <1>7, <1>8, <1>9, LocalStep DEF GoStore

(* A number looked up while the request waits denotes the request's own    *)
(* pipe; looked up later it may denote any pipe.                           *)
LEMMA JobReadInv ==
  ASSUME PipeInv, NEW r \in Reqs, JobRead(r)
  PROVE  PipeInv'
<1>0. TypeOK /\ Explained /\ Progress(r) /\ SourceKnown(r) /\ ByteExplained(r) /\ LateWriterExplained(r)
  BY DEF PipeInv, DescriptorsOwned, Explained
<1>a. rfd[r] \in Fds
  BY DEF PipeInv, NumbersGiven, JobRead
<1>b. table[rfd[r]].end = "r" => table[rfd[r]].pipe \in Reqs
  BY <1>0, <1>a DEF TypeOK, Free
<1>c. py[r] = "await" => table[rfd[r]].pipe = r
  BY EndsDiffer DEF PipeInv, DescriptorsOwned, Open
<1>1. TypeOK'
  BY <1>0, <1>b DEF JobRead, TypeOK
<1>2. \A s \in Reqs \ {r} : job'[s] = job[s] /\ source'[s] = source[s]
  BY <1>0 DEF JobRead, TypeOK
<1>3. UNCHANGED <<py, ended, rfd, wfd, table, bytes, go, entry>> /\ bytes \in [Reqs -> Nat]
  BY <1>0 DEF JobRead, TypeOK
<1>4. Stray(r) => Stray(r)'
  BY <1>3 DEF Stray
<1>5. job[r] = "running" /\ job'[r] \in {"reading", "ebadf"}
  BY <1>0 DEF JobRead, TypeOK
<1>6. job'[r] = "reading" => source'[r] = table[rfd[r]].pipe /\ table[rfd[r]].end = "r"
  BY <1>0 DEF JobRead, TypeOK
<1>7. Progress(r)' /\ SourceKnown(r)'
  BY <1>0, <1>b, <1>c, <1>3, <1>5, <1>6 DEF Progress, SourceKnown
<1>8. ByteExplained(r)' /\ LateWriterExplained(r)'
  BY <1>0, <1>3, <1>4, <1>5 DEF ByteExplained, LateWriterExplained
<1>9. /\ Open(r)' <=> Open(r)
      /\ go'[r] # "none" \/ job'[r] # "none" => Open(r) \/ go[r] # "none" \/ job[r] # "none"
  BY <1>3, <1>5 DEF Open
<1> QED BY <1>1, <1>2, <1>3, <1>7, <1>8, <1>9, LocalStep

(* A request that still waits is woken by a byte of its own pipe, whose    *)
(* write end is open as long as it waits.                                  *)
LEMMA JobReturnInv ==
  ASSUME PipeInv, NEW r \in Reqs, JobReturn(r)
  PROVE  PipeInv'
<1>0. TypeOK /\ Explained /\ Progress(r) /\ SourceKnown(r) /\ ByteExplained(r) /\ LateWriterExplained(r)
  BY DEF PipeInv, DescriptorsOwned, Explained
<1> DEFINE p == source[r]
<1>a. p \in Reqs /\ job[r] = "reading" /\ (bytes[p] > 0 \/ ~HasWriter(p))
  BY <1>0 DEF SourceKnown, JobReturn
<1>b. UNCHANGED <<py, ended, rfd, wfd, table, source, go, entry>> /\ job' = [job EXCEPT ![r] = "done"]
  BY DEF JobReturn
<1>c. bytes' \in [Reqs -> Nat] /\ \A s \in Reqs : bytes'[s] <= bytes[s]
  <2>1. CASE bytes[p] > 0 /\ bytes' = [bytes EXCEPT ![p] = @ - 1]
    BY <1>0, <1>a, <2>1 DEF TypeOK
  <2>2. CASE UNCHANGED bytes
    BY <1>0, <2>2 DEF TypeOK
  <2> QED BY <2>1, <2>2 DEF JobReturn
<1>1. TypeOK'
  BY <1>0, <1>b, <1>c DEF TypeOK
<1>2. job'[r] = "done" /\ \A s \in Reqs \ {r} : job'[s] = job[s]
  BY <1>0, <1>b DEF TypeOK
<1>3. Stray(r) => Stray(r)'
  BY <1>b DEF Stray
<1>4. Progress(r)' /\ SourceKnown(r)'
  <2>1. bytes[r] \in Nat /\ bytes'[r] \in Nat /\ bytes'[r] <= bytes[r]
    BY <1>0, <1>c DEF TypeOK
  <2> QED BY <1>0, <1>a, <1>b, <1>2, <2>1 DEF Progress, SourceKnown
<1>5. ByteExplained(r)'
  <2> SUFFICES ASSUME py[r] \in {"submit", "await", "fetch"}, go[r] # "done" PROVE Stray(r)'
    BY <1>b DEF ByteExplained
  <2>1. py[r] = "await"
    BY <1>0, <1>a DEF Progress
  <2>2. p = r
    BY <1>0, <1>a, <2>1 DEF SourceKnown
  <2>3. HasWriter(r)
    <3>1. wfd[r] \in Fds /\ table[wfd[r]] = WriteEnd(r)
      BY <2>1 DEF PipeInv, NumbersGiven, DescriptorsOwned, Open
    <3> QED BY <3>1 DEF HasWriter
  <2>4. bytes[r] > 0
    BY <1>a, <2>2, <2>3
  <2> QED BY <1>0, <1>3, <2>4 DEF ByteExplained
<1>6. LateWriterExplained(r)'
  BY <1>0, <1>b, <1>3 DEF LateWriterExplained
<1>7. /\ Open(r)' <=> Open(r)
      /\ go'[r] # "none" \/ job'[r] # "none" => Open(r) \/ go[r] # "none" \/ job[r] # "none"
  BY <1>a, <1>b DEF Open
<1> QED BY <1>b, <1>c, <1>1, <1>2, <1>4, <1>5, <1>6, <1>7, LocalStep

(* The goroutine writes to its own request, to nobody, or to the request   *)
(* that has its number now; in the last case its own call was given up or  *)
(* woken too early.                                                        *)
LEMMA GoNotifyInv ==
  ASSUME PipeInv, NEW r \in Reqs, GoNotify(r)
  PROVE  PipeInv'
<1>0. DescriptorsOwned /\ TypeOK /\ NumbersGiven /\ Explained /\ Progress(r) /\ LateWriterExplained(r)
  BY DEF PipeInv, DescriptorsOwned, Explained
<1>a. UNCHANGED <<py, ended, rfd, wfd, table, job, source, entry>>
      /\ go' = [go EXCEPT ![r] = "done"] /\ go[r] = "stored"
  BY DEF GoNotify
<1>b. go'[r] = "done" /\ \A s \in Reqs \ {r} : go'[s] = go[s]
  BY <1>0, <1>a DEF TypeOK
<1>c. wfd[r] \in Fds
  BY <1>0, <1>a DEF NumbersGiven
<1> DEFINE e == table[wfd[r]]
<1>d. /\ bytes' \in [Reqs -> Nat]
      /\ \A s \in Reqs : bytes'[s] > bytes[s] => e.end = "w" /\ e.pipe = s
  <2>1. CASE e.end = "w" /\ bytes' = [bytes EXCEPT ![e.pipe] = @ + 1]
    <3>1. e.pipe \in Reqs
      BY <1>0, <1>c, <2>1, WriterIsOwner
    <3> QED BY <1>0, <2>1, <3>1 DEF TypeOK
  <2>2. CASE UNCHANGED bytes
    BY <1>0, <2>2 DEF TypeOK
  <2> QED BY <2>1, <2>2 DEF GoNotify
<1>1. TypeOK'
  BY <1>0, <1>a, <1>d DEF TypeOK
<1>2. \A s \in Reqs : Open(s)' <=> Open(s)
  BY <1>a DEF Open
<1>3. DescriptorsOwned'
  BY <1>0, <1>a, <1>1, <1>2, OwnedFrame
<1>4. NumbersGiven'
  BY <1>0, <1>a, <1>b, <1>2 DEF NumbersGiven
<1>5. ASSUME NEW s \in Reqs
      PROVE  Progress(s)' /\ SourceKnown(s)' /\ ByteExplained(s)' /\ LateWriterExplained(s)'
  <2>0. /\ Progress(s) /\ SourceKnown(s) /\ ByteExplained(s) /\ LateWriterExplained(s)
        /\ bytes[s] \in Nat /\ bytes'[s] \in Nat
    BY <1>0, <1>d DEF Explained, TypeOK
  <2>1. Stray(s) => Stray(s)'
    BY <1>a DEF Stray
  <2>2. bytes'[s] > bytes[s] => Open(s) /\ wfd[s] = wfd[r]
    BY <1>0, <1>c, <1>d, WriterIsOwner
  <2>3. Progress(s)'
    <3>1. py[s] = "idle" => ~(bytes'[s] > bytes[s])
      BY <2>2 DEF Open
    <3> QED BY <1>a, <1>b, <2>0, <3>1 DEF Progress
  <2>4. SourceKnown(s)' /\ LateWriterExplained(s)'
    BY <1>a, <1>b, <2>0, <2>1 DEF SourceKnown, LateWriterExplained
  <2>5. ByteExplained(s)'
    <3> SUFFICES ASSUME py[s] \in {"submit", "await", "fetch"}, go'[s] # "done",
                        bytes'[s] > 0 \/ job[s] = "done"
                 PROVE  Stray(s)'
      BY <1>a DEF ByteExplained
    <3>1. s # r /\ go[s] # "done"
      BY <1>b
    <3>2. CASE bytes[s] > 0 \/ job[s] = "done"
      BY <2>0, <2>1, <3>1, <3>2 DEF ByteExplained
    <3>3. CASE bytes'[s] > bytes[s]
      <4>1. wfd[s] = wfd[r] /\ e = WriteEnd(s)
        BY <1>0, <1>c, <1>d, <3>3, WriterIsOwner
      <4>2. ~Open(r)
        BY <1>0, <3>1, <4>1, EndsDiffer DEF DescriptorsOwned
      <4>3. py[r] \in {"close", "finished"}
        BY <1>0, <1>a, <4>2 DEF TypeOK, Open, Progress
      <4>4. ended[s] # "abandoned"
        BY <2>0 DEF Progress
      <4>5. CASE ended[r] = "abandoned"
        BY <1>a, <3>1, <4>1, <4>5 DEF Stray
      <4>6. CASE Stray(r)
        <5>1. PICK q \in Reqs \ {r} : ended[q] = "abandoned" /\ wfd[q] = wfd[r]
          BY <4>6 DEF Stray
        <5> QED BY <1>a, <4>1, <4>4, <5>1 DEF Stray
      <4> QED BY <1>0, <1>a, <4>3, <4>5, <4>6 DEF LateWriterExplained
    <3> QED BY <2>0, <3>2, <3>3
  <2> QED BY <2>3, <2>4, <2>5
<1> QED BY <1>3, <1>4, <1>5 DEF PipeInv, Explained

(* The finally clause frees the request's own two descriptors and no       *)
(* other's.                                                                *)
LEMMA CloseBothInv ==
  ASSUME PipeInv, NEW r \in Reqs, CloseBoth(r)
  PROVE  PipeInv'
<1>0. DescriptorsOwned /\ TypeOK /\ NumbersGiven /\ Explained /\ Progress(r) /\ LateWriterExplained(r)
  BY DEF PipeInv, DescriptorsOwned, Explained
<1>a. /\ UNCHANGED <<ended, rfd, wfd, bytes, job, source, go, entry>>
      /\ py[r] = "close" /\ py' = [py EXCEPT ![r] = "finished"]
      /\ table' = [table EXCEPT ![rfd[r]] = Free, ![wfd[r]] = Free]
  BY DEF CloseBoth
<1>b. py'[r] = "finished" /\ \A s \in Reqs \ {r} : py'[s] = py[s]
  BY <1>0, <1>a DEF TypeOK
<1>c. Open(r) /\ rfd[r] \in Fds /\ wfd[r] \in Fds
  BY <1>0, <1>a DEF NumbersGiven, Open
<1>d. table[rfd[r]] = ReadEnd(r) /\ table[wfd[r]] = WriteEnd(r)
  BY <1>0, <1>c DEF DescriptorsOwned
<1>e. /\ \A h \in Fds \ {rfd[r], wfd[r]} : table'[h] = table[h]
      /\ table'[rfd[r]] = Free /\ table'[wfd[r]] = Free
  BY <1>0, <1>a, <1>c DEF TypeOK
<1>1. TypeOK'
  BY <1>0, <1>a DEF TypeOK
<1>2. ~Open(r)' /\ \A s \in Reqs \ {r} : Open(s)' <=> Open(s)
  BY <1>b DEF Open
<1>3. DescriptorsOwned'
  <2>1. ASSUME NEW s \in Reqs, Open(s)'
        PROVE  table'[rfd'[s]] = ReadEnd(s) /\ table'[wfd'[s]] = WriteEnd(s)
    <3>1. s # r /\ Open(s)
      BY <1>2, <2>1
    <3>2. /\ table[rfd[s]] = ReadEnd(s) /\ table[wfd[s]] = WriteEnd(s)
          /\ rfd[s] \in Fds /\ wfd[s] \in Fds
      BY <1>0, <3>1 DEF DescriptorsOwned, NumbersGiven
    <3>3. rfd[s] \notin {rfd[r], wfd[r]} /\ wfd[s] \notin {rfd[r], wfd[r]}
      BY <1>d, <3>1, <3>2, EndsDiffer
    <3> QED BY <1>a, <1>e, <3>2, <3>3
  <2>2. ASSUME NEW h \in Fds, table'[h] # Free
        PROVE  /\ py'[table'[h].pipe] \in {"submit", "await", "fetch", "close"}
               /\ h \in {rfd'[table'[h].pipe], wfd'[table'[h].pipe]}
    <3>1. h \notin {rfd[r], wfd[r]} /\ table'[h] = table[h]
      BY <1>e, <2>2
    <3>2. /\ Open(table[h].pipe) /\ h \in {rfd[table[h].pipe], wfd[table[h].pipe]}
          /\ table[h].pipe \in Reqs
      BY <1>0, <2>2, <3>1 DEF DescriptorsOwned, TypeOK
    <3>3. table[h].pipe # r
      BY <3>1, <3>2
    <3> QED BY <1>a, <1>b, <3>1, <3>2, <3>3 DEF Open
  <2> QED BY <1>1, <2>1, <2>2 DEF DescriptorsOwned, Open, Free, ReadEnd, WriteEnd
<1>4. NumbersGiven'
  BY <1>0, <1>a, <1>2 DEF NumbersGiven
<1>5. ASSUME NEW s \in Reqs, s # r
      PROVE  Progress(s)' /\ SourceKnown(s)' /\ ByteExplained(s)' /\ LateWriterExplained(s)'
  <2>1. py'[s] = py[s] /\ bytes[s] \in Nat
    BY <1>0, <1>b, <1>5 DEF TypeOK
  <2> QED BY <1>0, <1>a, <2>1, ExplainedFrame
<1>6. Progress(r)' /\ SourceKnown(r)' /\ ByteExplained(r)' /\ LateWriterExplained(r)'
  <2>1. Stray(r) => Stray(r)'
    BY <1>a DEF Stray
  <2>2. Progress(r)' /\ SourceKnown(r)' /\ ByteExplained(r)'
    BY <1>0, <1>a, <1>b DEF Progress, SourceKnown, ByteExplained, Explained
  <2>3. LateWriterExplained(r)'
    BY <1>0, <1>a, <1>b, <2>1 DEF LateWriterExplained
  <2> QED BY <2>2, <2>3
<1> QED BY <1>3, <1>4, <1>5, <1>6 DEF PipeInv, Explained

-----------------------------------------------------------------------------
(* Every step keeps the inductive invariant.                               *)
LEMMA NextInv == PipeInv /\ [Next]_vars => PipeInv'
<1> SUFFICES ASSUME PipeInv, [Next]_vars PROVE PipeInv'
  OBVIOUS
<1>1. ASSUME NEW r \in Reqs, OpenPipe(r) \/ Loop(r) \/ Executor(r) \/ Goroutine(r)
      PROVE  PipeInv'
  <2>1. CASE OpenPipe(r)
    BY <2>1, OpenPipeInv
  <2>2. CASE Loop(r)
    BY <2>2, SubmitInv, NotifiedInv, FetchInv, CloseBothInv DEF Loop
  <2>3. CASE Executor(r)
    BY <2>3, JobStartInv, JobReadInv, JobReturnInv DEF Executor
  <2>4. CASE Goroutine(r)
    BY <2>4, GoStoreInv, GoNotifyInv DEF Goroutine
  <2> QED BY <1>1, <2>1, <2>2, <2>3, <2>4
<1>2. ASSUME NEW r \in Abandons, Abandon(r) PROVE PipeInv'
  BY <1>2, AbandonInv, PipeAssumption
<1>3. CASE UNCHANGED vars
  BY <1>3 DEF vars, PipeInv, DescriptorsOwned, TypeOK, NumbersGiven, Explained, Progress,
     SourceKnown, ByteExplained, LateWriterExplained, Stray, Open, ReadEnd, WriteEnd, Free
<1> QED BY <1>1, <1>2, <1>3 DEF Next

(* Whatever requests time out, however late their executor jobs and        *)
(* goroutines run and however often the system gives a number out again,   *)
(* the finally clause of send_request_async_callback only ever closes the  *)
(* request's own two descriptors, and every other one is free.             *)
THEOREM DescriptorsSafe == Spec => []DescriptorsOwned
<1>1. PipeInv => DescriptorsOwned
  BY DEF PipeInv
<1> QED BY InitInv, NextInv, <1>1, PTL DEF Spec

(* A waiting request is woken before its result is stored only through the *)
(* descriptor number of an abandoned request, also when the stray byte     *)
(* came from a call that a stray byte had woken before.                    *)
THEOREM EarlyWakeUpSafe == Spec => []EarlyWakeUpNeedsAbandon
<1>1. PipeInv => EarlyWakeUpNeedsAbandon
  <2> SUFFICES ASSUME PipeInv, NEW r \in Reqs, py[r] = "fetch", entry[r] # "ready"
               PROVE  \E s \in Reqs \ {r} : Disturbs(s, r)
    BY DEF EarlyWakeUpNeedsAbandon
  <2>1. Progress(r) /\ ByteExplained(r)
    BY DEF PipeInv, Explained
  <2>2. job[r] = "done" /\ go[r] # "done"
    BY <2>1 DEF Progress
  <2>3. PICK q \in Reqs \ {r} : ended[q] = "abandoned" /\ wfd[q] = wfd[r]
    BY <2>1, <2>2 DEF ByteExplained, Stray
  <2>4. Disturbs(q, r)
    BY <2>3 DEF Disturbs
  <2> QED BY <2>3, <2>4
<1> QED BY InitInv, NextInv, <1>1, PTL DEF Spec
=============================================================================
