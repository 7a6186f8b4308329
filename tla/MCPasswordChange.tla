--------------------------- MODULE MCPasswordChange ---------------------------
(***************************************************************************)
(* Small instances of PasswordChange, and of Login alone.                  *)
(***************************************************************************)
EXTENDS PasswordChange, TLC

(* Sessions, and requests that stop alike, are interchangeable.            *)
Interchangeable == Permutations(Session) \cup Permutations(Change)
=============================================================================
