-------------------------- MODULE MCRefreshSessions --------------------------
(***************************************************************************)
(* Small instances of RefreshSessions.                                     *)
(***************************************************************************)
EXTENDS RefreshSessions, TLC

CONSTANTS u1

(* All devices belong to one user; the others sign in without one.         *)
OneOwner == [d \in Device |-> u1]

(* Rows and request slots are interchangeable.                             *)
Interchangeable ==
    Permutations(Session) \cup Permutations(Token) \cup Permutations(Request)
=============================================================================
