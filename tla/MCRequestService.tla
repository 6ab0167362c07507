-------------------------- MODULE MCRequestService --------------------------
(* RequestService with an HTTP request, an event stream and a request   *)
(* whose options are refused.                                              *)
EXTENDS RequestService

CONSTANTS h1, h2, s1

TwoHttps == {h1, h2}
OneStream == {s1}
Refused == {h2}
=============================================================================
