----------------------------- MODULE FfiHandles -----------------------------
(***************************************************************************)
(* Both users of cgo handles together.  The two share the numbers of the   *)
(* handles and nothing else, so a program of the model uses one of them.   *)
(***************************************************************************)
EXTENDS PolledRequests, StreamHandles

vars == <<cgoVars, polledVars, streamVars>>

Init == CgoInit /\ PolledInit /\ StreamInit

OnlyStreams == gather = "idle" /\ \A r \in Requests : rpc[r] = "idle"

(* The program is through, a receive() waits for a server that is silent,  *)
(* or Go has panicked.                                                     *)
Stop ==
  /\ \/ panicked
     \/ ops > 0 /\ \A t \in Threads : pc[t] \in {"idle", "reading"}
     \/ \A r \in Requests : rpc[r] \in Ends
  /\ UNCHANGED vars

Next ==
  \/ ops = 0 /\ PolledNext /\ UNCHANGED streamVars
  \/ OnlyStreams /\ StreamNext /\ UNCHANGED polledVars
  \/ Stop

Spec == Init /\ [][Next]_vars
FairSpec == Spec /\ PolledFairness

-----------------------------------------------------------------------------
TypeOK == issued \in Nat /\ panicked \in BOOLEAN /\ PolledTypeOK /\ StreamTypeOK

(* A caller is given its own answer and nothing else: see PolledAnswers    *)
(* and ReadsFollowTheServer for what the code does beyond that.            *)
OnlyWhatWasSent == PolledAnswers /\ ReadsFollowTheServer

(* Calls and connection objects that are through leave nothing behind in C *)
(* memory and in Go's tables, apart from what PolledLeavesNothing and      *)
(* NoConnectionLeft name: abandoned polls, ended streams, overlapping      *)
(* calls.                                                                  *)
NothingLeftBehind == ~panicked => TypeOK /\ PolledLeavesNothing /\ NoConnectionLeft
=============================================================================
