------------------------------- MODULE MCSeat -------------------------------
(* Instances of Seat for TLC: one client with two surfaces, one with one.  *)
EXTENDS Seat

CONSTANTS c1, c2, w3

MCOwner == [w \in Surface |-> IF w = w3 THEN c2 ELSE c1]

=============================================================================
