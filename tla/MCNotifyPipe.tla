---------------------------- MODULE MCNotifyPipe ----------------------------
(* NotifyPipe: descriptors for two requests and one to spare, so that the  *)
(* numbers of an abandoned request are given out again in another role.    *)
EXTENDS NotifyPipe

ThreeReqs == 1..3
FirstTwo == 1..2
=============================================================================
