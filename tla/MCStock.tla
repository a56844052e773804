------------------------------- MODULE MCStock -------------------------------
(* A hold with a comp, each with a ticket, a third ticket in the pool.     *)
EXTENDS Stock, TLC
CONSTANTS h1, h2, h3, c1, lower, upper, other, t1, r1, r2
MCUpper == lower :> upper @@ upper :> upper @@ other :> other
MCFirstParent == h1 :> Null @@ h2 :> h1
MCFirstWord == h1 :> upper @@ h2 :> other
MCFirstTickets == <<h1, h2, Null>>
MCSymmetry == Permutations({r1, r2})
=============================================================================
