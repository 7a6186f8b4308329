---------------------------- MODULE MCFederation ----------------------------
(* Small instances of Federation for TLC.                                  *)
EXTENDS Federation

CONSTANTS q1, q2, a1, a2, k1, x1, x2, c1, c2, s1, s2

Bearers == ({s1, s2} \X {0, 1}) \cup {x1, x2}

Part(slots, n) == [slots |-> slots, incidents |-> n]

(* Two calls of the page; one, with more that goes wrong; one and two      *)
(* rotations; a code and two exchanges; a code, an exchange and a          *)
(* rotation; two administrators, a rotation and an exchange.               *)
Parts == {Part({c1, c2}, 1), Part({c1}, 2), Part({q1, q2, c1}, 1),
          Part({c1, k1, x1, x2}, 1), Part({q1, c1, k1, x1}, 1), Part({a1, a2, q1, x1}, 2)}
=============================================================================
