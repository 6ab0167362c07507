-------------------------- MODULE MCBatchedClients --------------------------
(* BatchedClients with three clients, one of which makes a call.           *)
EXTENDS BatchedClients, TLC

CONSTANTS cl1, cl2, cl3, k1

ThreeClients == {cl1, cl2, cl3}
TwoClients == {cl1, cl2}
OneCall == {k1}
OwnerOfOne == k1 :> cl1
=============================================================================
