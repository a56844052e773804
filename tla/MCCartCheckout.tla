--------------------------- MODULE MCCartCheckout ---------------------------
(* Small instances of CartCheckout for TLC. *)
EXTENDS CartCheckout, TLC

CONSTANTS r1, r2, r3, r4, u1, u2

\* The last request is another user's; the others are one user's.
MCCaller == [r \in Requests |-> IF r = r4 THEN u2 ELSE u1]

Symmetry == Permutations(Tickets) \cup Permutations(Requests \ (FreeOrders \cup Short \cup {r4}))
=============================================================================
