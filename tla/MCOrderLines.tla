---------------------------- MODULE MCOrderLines ----------------------------
(* Small instances of OrderLines for TLC. *)
EXTENDS OrderLines, TLC

CONSTANTS A, B, h, low, high, door, flat, e

\* Two types of one event; the hold is of the first.
MCHoldFor == [x \in Holds |-> A]
MCEventOf == [t \in Types |-> e]
MCEventFee == [x \in Events |-> 7]
MCPriceOf == [p \in Pricings |-> CASE p = low -> 2 [] p = high -> 4 [] p = door -> 1 [] p = flat -> 4]
\* A's regular period may end, which leaves the default price; B's price is fixed.
MCPeriods == [t \in Types |-> [kind \in Kinds |->
    IF t = B THEN IF kind = "regular" THEN {flat} ELSE {Null}
    ELSE CASE kind = "regular" -> {low, Null} [] kind = "default" -> {high}
           [] kind = "box" -> {door}]]
MCDiscount == [x \in Holds |-> 3]
MCLimit == [t \in Types |-> IF t = A THEN 2 ELSE 0]
MCIncrement == [t \in Types |-> IF t = B THEN 2 ELSE 1]
MCSchedules == {{[min |-> 1, fee |-> 1], [min |-> 4, fee |-> 2]}, {[min |-> 0, fee |-> 3]}}
MCStock == [p \in AllPools |-> IF p \notin Pools THEN 0 ELSE IF p[2] = Null THEN 2 ELSE 1]

Ticket(t, hold, n) == [type |-> t, hold |-> hold, quantity |-> n]
MCAsked ==
    {<<>>, <<Ticket(A, Null, 0)>>, <<Ticket(A, Null, 2)>>, <<Ticket(A, h, 1)>>,
     <<Ticket(A, Null, 1), Ticket(A, h, 1)>>, <<Ticket(A, Null, 1), Ticket(B, Null, 2)>>}

Symmetry == Permutations(Lines)
=============================================================================
