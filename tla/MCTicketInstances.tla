-------------------------- MODULE MCTicketInstances --------------------------
(* Small instances of TicketInstances for TLC. *)
EXTENDS TicketInstances, TLC

CONSTANTS t1, t2, t3, i1, i2, u1, u2, h1, h2

\* Two orders of two users; where there is one order it is the first user's.
MCBuyer == [i \in Items |-> IF i = i1 \/ u2 \notin Users THEN u1 ELSE u2]

\* h2 is a comp hold inside h1.
MCParent == [h \in Holds |-> IF h = h1 THEN Null ELSE h1]

Symmetry == Permutations(Tickets) \cup Permutations(Scanners) \cup Permutations(Keys)
=============================================================================
