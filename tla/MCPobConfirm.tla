---------------------------- MODULE MCPobConfirm ----------------------------
(* Bounds for checking PobConfirm with TLC.                                *)
EXTENDS PobConfirm

CONSTANTS w1, w2, w3, w4

\* Four witnesses: the confirm limit is 4*2/3+1 = 3, a quorum short of all.
MCWitnessList4 == <<w1, w2, w3, w4>>
=============================================================================
