------------------------------ MODULE MCRefunds ------------------------------
(* Small instances of Refunds for TLC. *)
EXTENDS Refunds, TLC

CONSTANTS o1, o2, a, c

\* The second order resells tickets of the first.
MCOrderOf == [l \in Lines |-> IF l = c THEN o2 ELSE o1]
MCDouble == [l \in Lines |-> IF l = a THEN 2 ELSE 1]
MCPrice == [type \in Types |->
    CASE type = "Tickets" -> 4 [] type = "PerUnitFees" -> 2 [] type = "EventFees" -> 1]

Symmetry == Permutations(Requests) \cup Permutations(Tickets)
=============================================================================
