-------------------------- MODULE MCAdministration --------------------------
(* Small instances of Administration for TLC.                              *)
EXTENDS Administration

CONSTANTS a, b

BothAdmins == {{[user |-> u, role |-> SuperAdmin] : u \in {a, b}}}
=============================================================================
