------------------------------ MODULE MCClient -------------------------------
(* Small instances of Client for TLC. *)
EXTENDS Client

CONSTANTS c1, c2, c3, b1, b2

(* c1 and c2 are for one broker, c3 for another.                           *)
TwoBrokers == [c \in Conns |-> IF c = c3 THEN b2 ELSE b1]
=============================================================================
