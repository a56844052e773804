---------------------------------- MODULE Sale ----------------------------------
(***************************************************************************)
(* What selling tickets promises, without carts, reservations, holds or    *)
(* clocks: an order is paid once and takes its tickets in that moment, each *)
(* of them sold to nobody else; a sold ticket is used at the door or given *)
(* back by a refund that names it, and nothing else ends its sale.         *)
(***************************************************************************)
EXTENDS Naturals

CONSTANTS Tickets, Items, Null

VARIABLES
    paid,       \* the order items that have been paid for
    sold,       \* the item each ticket is sold to
    used,       \* tickets that are marked as used
    refunds     \* how often each item was refunded

vars == <<paid, sold, used, refunds>>

Init ==
    /\ paid = {}
    /\ sold = [t \in Tickets |-> Null]
    /\ used = {}
    /\ refunds = [i \in Items |-> 0]

Unsold(T) == [t \in Tickets |-> IF t \in T THEN Null ELSE sold[t]]

Sell(i, T) ==
    /\ i \notin paid
    /\ \A t \in T : sold[t] = Null
    /\ paid' = paid \cup {i}
    /\ sold' = [t \in Tickets |-> IF t \in T THEN i ELSE sold[t]]
    /\ used' = used \ T
    /\ UNCHANGED refunds

\* The scanner may be late: it is the mark that is made, sold or not.
Use(t) ==
    /\ used' = used \cup {t}
    /\ sold' = Unsold({t})
    /\ UNCHANGED <<paid, refunds>>

\* A refund of item i gives back the one ticket it names, whichever item that was
\* sold to; one that was used stays as it is.
Refund(i, t) ==
    /\ refunds' = [refunds EXCEPT ![i] = @ + 1]
    /\ sold' \in {sold, Unsold({t})}
    /\ UNCHANGED <<paid, used>>

\* Used tickets can be put on sale again.
Reissue(T) ==
    /\ T \subseteq used
    /\ used' = used \ T
    /\ UNCHANGED <<paid, sold, refunds>>

Next ==
    \/ \E i \in Items, T \in SUBSET Tickets : Sell(i, T)
    \/ \E i \in Items, t \in Tickets : Refund(i, t)
    \/ \E t \in Tickets : Use(t)
    \/ \E T \in SUBSET Tickets : Reissue(T)

Spec == Init /\ [][Next]_vars
=============================================================================
