----------------------------- MODULE MCZohoSync -----------------------------
(* Small instances of ZohoSync for TLC.                                    *)
EXTENDS ZohoSync

CONSTANTS u1, u2

OneUser == <<u1>>
TwoUsers == <<u1, u2>>
=============================================================================
