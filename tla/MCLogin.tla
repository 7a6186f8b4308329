-------------------------------- MODULE MCLogin --------------------------------
(***************************************************************************)
(* Small instances of Login.                                               *)
(***************************************************************************)
EXTENDS Login, TLC

(* Sessions and challenges are interchangeable.                  *)
Interchangeable ==
    Permutations(Session) \cup Permutations(Challenge)
=============================================================================
