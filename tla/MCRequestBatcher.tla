-------------------------- MODULE MCRequestBatcher --------------------------
(* RequestBatcher on small sets of requests and of shutdown() callers.     *)
EXTENDS RequestBatcher

CONSTANTS r1, r2, r3, c1, c2

ThreeRequests == {r1, r2, r3}
TwoRequests == {r1, r2}
OneAsync == {r1}
TwoClosers == {c1, c2}
NoOne == {}
=============================================================================
