---------------------------- MODULE BatchService ----------------------------
(***************************************************************************)
(* What the batching backend of cycletls/_batcher.py promises its callers, *)
(* with no queue, thread, batch buffer or shutdown in it: requests are     *)
(* dispatched in groups, in the order they were accepted and at most once; *)
(* a request is resolved only after it was dispatched, once, and with the  *)
(* response to its own payload or with an error; its caller may give up.   *)
(***************************************************************************)
EXTENDS Integers

CONSTANTS Requests, None

VARIABLES
  stage,    \* "new", "waiting" or "dispatched"
  outcome,  \* "open", "given_up", "answered" or "failed"
  reply,    \* the response an answered request got
  turn,     \* the order of acceptance (0: not accepted)
  accepted  \* how many were accepted

vars == <<stage, outcome, reply, turn, accepted>>

Init ==
  /\ stage = [r \in Requests |-> "new"]
  /\ outcome = [r \in Requests |-> "open"]
  /\ reply = [r \in Requests |-> None]
  /\ turn = [r \in Requests |-> 0]
  /\ accepted = 0

Accept(r) ==
  /\ stage[r] = "new"
  /\ stage' = [stage EXCEPT ![r] = "waiting"]
  /\ turn' = [turn EXCEPT ![r] = accepted + 1]
  /\ accepted' = accepted + 1
  /\ UNCHANGED <<outcome, reply>>

Waiting == {r \in Requests : stage[r] = "waiting"}

\* Nobody is overtaken: what stays behind was accepted later.
Dispatch(S) ==
  /\ S # {}
  /\ \A r \in S, w \in Waiting \ S : turn[r] < turn[w]
  /\ stage' = [r \in Requests |-> IF r \in S THEN "dispatched" ELSE stage[r]]
  /\ UNCHANGED <<outcome, reply, turn, accepted>>

GiveUp(r) ==
  /\ stage[r] # "new"
  /\ outcome[r] = "open"
  /\ outcome' = [outcome EXCEPT ![r] = "given_up"]
  /\ UNCHANGED <<stage, reply, turn, accepted>>

Resolve(r) ==
  /\ stage[r] = "dispatched"
  /\ outcome[r] = "open"
  /\ \/ /\ outcome' = [outcome EXCEPT ![r] = "answered"]
        /\ reply' = [reply EXCEPT ![r] = r]
     \/ /\ outcome' = [outcome EXCEPT ![r] = "failed"]
        /\ UNCHANGED reply
  /\ UNCHANGED <<stage, turn, accepted>>

Next ==
  \/ \E r \in Requests : Accept(r) \/ GiveUp(r) \/ Resolve(r)
  \/ \E S \in SUBSET Waiting : Dispatch(S)

Spec == Init /\ [][Next]_vars
=============================================================================
