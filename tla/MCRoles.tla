------------------------------ MODULE MCRoles ------------------------------
(* Small instances of Roles for TLC.                                       *)
EXTENDS Roles, TLC

CONSTANTS a, b, i1

Admin(u) == [user |-> u, role |-> SuperAdmin]
Holder(u) == [user |-> u, role |-> i1]

(* Nobody; one Super Admin; two; one and a holder of another role.         *)
Worlds == {{}, {Admin(a)}, {Admin(a), Admin(b)}, {Admin(a), Holder(b)}}

Interchangeable == Permutations(Request)
=============================================================================
