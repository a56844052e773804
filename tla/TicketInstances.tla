--------------------------- MODULE TicketInstances ---------------------------
(***************************************************************************)
(* The life of the tickets of one ticket type (db/src/models/              *)
(* ticket_instances.rs and its callers in orders.rs, holds.rs and the      *)
(* controllers).  A step is one function of the model layer as the other   *)
(* requests see it.  A function that reads a row, decides, and writes the  *)
(* row afterwards is two steps, because under READ COMMITTED another       *)
(* request's transaction can commit in between.                            *)
(*                                                                         *)
(* An order is represented by its one order item of type Tickets.          *)
(***************************************************************************)
EXTENDS TicketRows, FiniteSets

CONSTANTS
    Tickets,        \* ticket instances of the ticket type
    Items,          \* order items, one to an order
    Users,          \* user wallets
    Org,            \* the issuing organization's wallet
    Holds,          \* holds on the ticket type
    Scanners,       \* requests that redeem
    Keys,           \* transfer keys, one to an authorization
    Buyer,          \* Items -> Users: the user of the item's order
    Parent,         \* Holds -> Holds or Null: parent_hold_id
    EventFee,       \* whether the event charges its fee on an order
    CartTTL,        \* CART_EXPIRY_TIME_MINUTES, in ticks
    PayTTL,         \* the day a partially paid order is kept, in ticks
    KeyTTL,         \* validity of a transfer authorization, in ticks
    MaxTime         \* bound of the clock

ASSUME NullAssumption ==
    /\ Null \notin Nat
    /\ Null \notin Tickets \cup Items \cup Users \cup Holds \cup Keys
ASSUME TicketAssumption == IsFiniteSet(Tickets)
ASSUME WalletAssumption == Org \notin Users
ASSUME KeyAssumption == Keys \cap Users = {}
ASSUME OwnerAssumption == Buyer \in [Items -> Users]
ASSUME HoldAssumption == Parent \in [Holds -> Holds \cup {Null}]
ASSUME FeeAssumption == EventFee \in BOOLEAN
ASSUME TimeAssumption ==
    {CartTTL, PayTTL, KeyTTL} \subseteq Nat \ {0} /\ MaxTime \in Nat

VARIABLES
    now,        \* the database's clock
    row,        \* ticket_instances
    line,       \* the order items, each with its order's status and expiry
    scan,       \* redeem requests: the ticket each has found redeemable
    auth,       \* transfer authorizations
    recv,       \* requests that receive a transfer, one per receiving user
    refund,     \* refund requests, one per order item
    refunded    \* tickets that refunded_tickets records as refunded

vars == <<now, row, line, scan, auth, recv, refund, refunded>>

Times == 0..(MaxTime + CartTTL + PayTTL + KeyTTL)
Wallets == Users \cup {Org}

Rows ==
    [status : Statuses, item : Items \cup {Null}, until : Times \cup {Null},
     hold : Holds \cup {Null}, wallet : Wallets, key : Items \cup {Null},
     transfer : Keys \cup {Null}, lapse : Times \cup {Null},
     readers : SUBSET (Keys \cup Users)]

\* "Marking" is an order whose row mark_partially_paid has updated in a
\* transaction that has not yet updated the tickets.
Lines ==
    [status : {"Draft", "Marking", "PartiallyPaid", "Paid"},
     expires : Times \cup {Null}, quantity : Nat,
     hold : Holds \cup {Null}, refunds : Nat]

Auths ==
    [stage : {"unused", "reading", "issued"}, sender : Users \cup {Null},
     tickets : SUBSET Tickets]

\* The ticket that a refund has read, and the item it was sold to.
Refunding ==
    [ticket : Tickets \cup {Null}, item : Items \cup {Null}, redeemed : BOOLEAN]

TypeOK ==
    /\ now \in 0..MaxTime
    /\ row \in [Tickets -> Rows]
    /\ line \in [Items -> Lines]
    /\ scan \in [Scanners -> Tickets \cup {Null}]
    /\ auth \in [Keys -> Auths]
    /\ recv \in [Users -> [key : Keys \cup {Null}, tickets : SUBSET Tickets]]
    /\ refund \in [Items -> Refunding]
    /\ refunded \subseteq Tickets

NoRefund == [ticket |-> Null, item |-> Null, redeemed |-> FALSE]
NoTransfer == [key |-> Null, tickets |-> {}]

Init ==
    /\ now = 0
    /\ row = [t \in Tickets |-> Issued(Org)]
    /\ line = [i \in Items |-> [status |-> "Draft", expires |-> Null, quantity |-> 0,
                                hold |-> Null, refunds |-> 0]]
    /\ scan = [s \in Scanners |-> Null]
    /\ auth = [k \in Keys |-> [stage |-> "unused", sender |-> Null, tickets |-> {}]]
    /\ recv = [u \in Users |-> NoTransfer]
    /\ refund = [i \in Items |-> NoRefund]
    /\ refunded = {}

TicketsOf(i) == {t \in Tickets : row[t].item = i}

\* A cart that find_cart_for_user still returns.
Live(i) == line[i].status = "Draft" /\ ~Before(line[i].expires, now)

-----------------------------------------------------------------------------
(* Carts: update_quantities and the two halves of a payment.               *)

\* The expiry a cart has while it holds tickets: set_expiry gives one to a
\* cart that has none.
Expiry(i) == IF line[i].expires = Null THEN now + CartTTL ELSE line[i].expires

\* update_quantities raises the line by the tickets T.  An empty line may name
\* a hold, through its redemption code.
Reserve(i, h, T) ==
    /\ Live(i)
    /\ line[i].quantity = 0 \/ line[i].hold = h
    /\ \A t \in T : Takeable(row[t], h, now)
    /\ row' = [t \in Tickets |->
                  IF t \in T THEN ReservedFor(row[t], i, Expiry(i)) ELSE row[t]]
    /\ line' = [line EXCEPT ![i].expires = Expiry(i), ![i].hold = h,
                            ![i].quantity = @ + Cardinality(T)]
    /\ UNCHANGED <<now, scan, auth, recv, refund, refunded>>

\* update_quantities lowers the line by the tickets T, or deletes it.  A cart
\* left without items loses its expiry; the item of an event fee is still there
\* at that point, update_fees deletes it afterwards.
Release(i, T) ==
    LET empty == line[i].quantity = Cardinality(T) /\ ~EventFee
    IN  /\ Live(i)
        /\ Cardinality(T) <= line[i].quantity
        /\ empty => line[i].expires > now       \* remove_expiry
        /\ \A t \in T : Releasable(row[t], i, "Reserved")
        /\ row' = [t \in Tickets |-> IF t \in T THEN Released(row[t]) ELSE row[t]]
        /\ line' = [line EXCEPT ![i].quantity = @ - Cardinality(T),
                                ![i].expires = IF empty THEN Null ELSE @]
        /\ UNCHANGED <<now, scan, auth, recv, refund, refunded>>

\* The first statement of mark_partially_paid.
MarkOrder(i) ==
    /\ line[i].status = "Draft"
    /\ line[i].quantity > 0
    /\ line[i].expires # Null /\ line[i].expires >= now
    /\ line' = [line EXCEPT ![i].status = "Marking", ![i].expires = now + PayTTL]
    /\ UNCHANGED <<now, row, scan, auth, recv, refund, refunded>>

\* Its later ones: update_reserved_time for every item, and the commit.
MarkTickets(i) ==
    /\ line[i].status = "Marking"
    /\ line' = [line EXCEPT ![i].status = "PartiallyPaid"]
    /\ row' = [t \in Tickets |->
                  IF row[t].item = i THEN KeptUntil(row[t], line[i].expires) ELSE row[t]]
    /\ UNCHANGED <<now, scan, auth, recv, refund, refunded>>

\* complete_if_fully_paid, once the payments cover the total.
Complete(i) ==
    /\ line[i].status = "PartiallyPaid"
    /\ line' = [line EXCEPT ![i].status = "Paid"]
    /\ row' = [t \in Tickets |->
                  IF row[t].item = i THEN PurchasedBy(row[t], i, Buyer[i]) ELSE row[t]]
    /\ UNCHANGED <<now, scan, auth, recv, refund, refunded>>

-----------------------------------------------------------------------------
(* Holds: set_quantity and split move tickets between holds.               *)

\* The (to, from) pairs of add_to_hold: a hold grows out of its parent or the
\* pool, shrinks into its parent, or splits off a hold with the same parent.
HoldMoves ==
    {<<h, Parent[h]>> : h \in Holds}
        \cup {<<Parent[h], h>> : h \in {g \in Holds : Parent[g] # Null}}
        \cup {m \in Holds \X Holds : m[1] # m[2] /\ Parent[m[1]] = Parent[m[2]]}

AddToHold(to, from, T) ==
    /\ <<to, from>> \in HoldMoves
    /\ \A t \in T : Takeable(row[t], from, now)
    /\ row' = [t \in Tickets |-> IF t \in T THEN MovedToHold(row[t], to) ELSE row[t]]
    /\ UNCHANGED <<now, line, scan, auth, recv, refund, refunded>>

ReleaseFromHold(h, T) ==
    /\ Parent[h] = Null
    /\ \A t \in T : Droppable(row[t], h, now)
    /\ row' = [t \in Tickets |-> IF t \in T THEN MovedToHold(row[t], Null) ELSE row[t]]
    /\ UNCHANGED <<now, line, scan, auth, recv, refund, refunded>>

\* A capacity reduction withdraws tickets from sale.
Nullify(T) ==
    /\ \A t \in T : Nullifiable(row[t])
    /\ row' = [t \in Tickets |-> IF t \in T THEN Marked(row[t], "Nullified") ELSE row[t]]
    /\ UNCHANGED <<now, line, scan, auth, recv, refund, refunded>>

-----------------------------------------------------------------------------
(* The door: redeem_ticket reads the row, then writes its status by id.    *)

RedeemRead(s, t, key) ==
    /\ scan[s] = Null
    /\ row[t].status = "Purchased" /\ row[t].key = key
    /\ scan' = [scan EXCEPT ![s] = t]
    /\ UNCHANGED <<now, row, line, auth, recv, refund, refunded>>

RedeemWrite(s) ==
    /\ scan[s] # Null
    /\ row' = [row EXCEPT ![scan[s]] = Marked(@, "Redeemed")]
    /\ scan' = [scan EXCEPT ![s] = Null]
    /\ UNCHANGED <<now, line, auth, recv, refund, refunded>>

-----------------------------------------------------------------------------
(* Transfers: optimistic, each row is written only if updated_at is still  *)
(* what the request read, and a request that misses one is rolled back.    *)

\* Mutant: the writes do not compare updated_at.
Uncompared(T, request) == TRUE

Unchanged(T, request) == \A t \in T : request \in row[t].readers

AuthorizeRead(k, u, T) ==
    /\ auth[k].stage = "unused"
    /\ \A t \in T : row[t].wallet = u /\ row[t].status = "Purchased"
    /\ auth' = [auth EXCEPT ![k] = [stage |-> "reading", sender |-> u, tickets |-> T]]
    /\ row' = [t \in Tickets |-> IF t \in T THEN ReadBy(row[t], k) ELSE row[t]]
    /\ UNCHANGED <<now, line, scan, recv, refund, refunded>>

AuthorizeWrite(k) ==
    /\ auth[k].stage = "reading"
    /\ Unchanged(auth[k].tickets, k)
    /\ auth' = [auth EXCEPT ![k].stage = "issued"]
    /\ row' = [t \in Tickets |->
                  IF t \in auth[k].tickets
                  THEN Offered(row[t], k, now + KeyTTL) ELSE row[t]]
    /\ UNCHANGED <<now, line, scan, recv, refund, refunded>>

Carrying(k) == {t \in Tickets : row[t].transfer = k}

\* Mutant: the number of tickets found is not compared with the authorization.
ReceiveReadUncounted(u, k) ==
    LET found == {t \in Carrying(k) : row[t].lapse > now}
    IN  /\ recv[u] = NoTransfer
        /\ auth[k].stage = "issued"
        /\ \A t \in found : row[t].wallet = auth[k].sender
        /\ recv' = [recv EXCEPT ![u] = [key |-> k, tickets |-> found]]
        /\ row' = [t \in Tickets |-> IF t \in found THEN ReadBy(row[t], u) ELSE row[t]]
        /\ UNCHANGED <<now, line, scan, auth, refund, refunded>>

\* The tickets that carry key k and have not lapsed.  The signed authorization
\* names its sender and how many tickets it is for.
ReceiveRead(u, k) ==
    LET found == {t \in Carrying(k) : row[t].lapse > now}
    IN  /\ recv[u] = NoTransfer
        /\ auth[k].stage = "issued"
        /\ \A t \in found : row[t].wallet = auth[k].sender
        /\ Cardinality(found) = Cardinality(auth[k].tickets)
        /\ recv' = [recv EXCEPT ![u] = [key |-> k, tickets |-> found]]
        /\ row' = [t \in Tickets |-> IF t \in found THEN ReadBy(row[t], u) ELSE row[t]]
        /\ UNCHANGED <<now, line, scan, auth, refund, refunded>>

ReceiveWrite(u) ==
    /\ recv[u] # NoTransfer
    /\ Unchanged(recv[u].tickets, u)
    /\ row' = [t \in Tickets |->
                  IF t \in recv[u].tickets
                  THEN Received(row[t], u) ELSE row[t]]
    /\ recv' = [recv EXCEPT ![u] = NoTransfer]
    /\ UNCHANGED <<now, line, scan, auth, refund, refunded>>

\* A request that missed a row is rolled back.
AuthorizeAbort(k) ==
    /\ auth[k].stage = "reading" /\ ~Unchanged(auth[k].tickets, k)
    /\ auth' = [auth EXCEPT ![k] = [stage |-> "unused", sender |-> Null, tickets |-> {}]]
    /\ row' = [t \in Tickets |-> ForgottenBy(row[t], k)]
    /\ UNCHANGED <<now, line, scan, recv, refund, refunded>>

ReceiveAbort(u) ==
    /\ recv[u] # NoTransfer /\ ~Unchanged(recv[u].tickets, u)
    /\ recv' = [recv EXCEPT ![u] = NoTransfer]
    /\ row' = [t \in Tickets |-> ForgottenBy(row[t], u)]
    /\ UNCHANGED <<now, line, scan, auth, refund, refunded>>

-----------------------------------------------------------------------------
(* Refunds: Order::refund checks the ticket, then releases it; the          *)
(* controller then hands it to the organization's wallet.                  *)

\* A refund names an item of its order and a ticket, and it is the item that must
\* be the order's.  The ticket is asked whether it is with the buyer of the order
\* it belongs to (was_transferred), be that this order or another.
RefundRead(i, t) ==
    /\ refund[i] = NoRefund
    /\ line[i].status \in {"PartiallyPaid", "Paid"}
    /\ line[i].refunds < line[i].quantity
    /\ t \notin refunded
    /\ row[t].item # Null
    /\ row[t].wallet = Buyer[row[t].item]
    /\ refund' = [refund EXCEPT ![i] = [ticket |-> t, item |-> row[t].item,
                                        redeemed |-> row[t].status = "Redeemed"]]
    /\ UNCHANGED <<now, row, line, scan, auth, recv, refunded>>

\* release() finds the row by its id, its item as it was read, and its status.
CanRelease(i) == Releasable(row[refund[i].ticket], refund[i].item, "Purchased")

\* A redeemed ticket is not released.
RefundWrite(i) ==
    LET t == refund[i].ticket
    IN  /\ t # Null
        /\ refund[i].redeemed \/ CanRelease(i)
        /\ row' = [row EXCEPT ![t] =
                      InWallet(IF refund[i].redeemed THEN @ ELSE Released(@), Org)]
        /\ line' = [line EXCEPT ![i].refunds = @ + 1]
        /\ refunded' = refunded \cup {t}
        /\ refund' = [refund EXCEPT ![i] = NoRefund]
        /\ UNCHANGED <<now, scan, auth, recv>>

RefundAbort(i) ==
    /\ refund[i].ticket # Null
    /\ ~refund[i].redeemed /\ ~CanRelease(i)
    /\ refund' = [refund EXCEPT ![i] = NoRefund]
    /\ UNCHANGED <<now, row, line, scan, auth, recv, refunded>>

-----------------------------------------------------------------------------
Tick ==
    /\ now < MaxTime
    /\ now' = now + 1
    /\ UNCHANGED <<row, line, scan, auth, recv, refund, refunded>>

Some == (SUBSET Tickets) \ {{}}

CartStep ==
    \E i \in Items :
        \/ \E h \in Holds \cup {Null}, T \in Some : Reserve(i, h, T)
        \/ \E T \in Some : Release(i, T)
        \/ MarkOrder(i)
        \/ MarkTickets(i)
        \/ Complete(i)

HoldStep ==
    \E T \in Some :
        \/ \E to \in Holds, from \in Holds \cup {Null} : AddToHold(to, from, T)
        \/ \E h \in Holds : ReleaseFromHold(h, T)
        \/ Nullify(T)

DoorStep ==
    \E s \in Scanners :
        \/ \E t \in Tickets, key \in Items : RedeemRead(s, t, key)
        \/ RedeemWrite(s)

TransferStep ==
    \/ \E k \in Keys :
          \/ \E u \in Users, T \in Some : AuthorizeRead(k, u, T)
          \/ AuthorizeWrite(k)
          \/ AuthorizeAbort(k)
    \/ \E u \in Users :
          \/ \E k \in Keys : ReceiveRead(u, k)
          \/ ReceiveWrite(u)
          \/ ReceiveAbort(u)

RefundStep ==
    \E i \in Items :
        \/ \E t \in Tickets : RefundRead(i, t)
        \/ RefundWrite(i)
        \/ RefundAbort(i)

Next == Tick \/ CartStep \/ HoldStep \/ DoorStep \/ TransferStep \/ RefundStep

Spec == Init /\ [][Next]_vars

-----------------------------------------------------------------------------
(* What the tickets are promised.                                          *)

\* A cart that has not expired holds exactly the tickets its line counts, each
\* until the cart's own expiry and out of the hold the line names: no other
\* cart, hold or request takes one of them away (reserve_tickets.sql).
LiveCartHoldsItsTickets ==
    \A i \in Items :
        Live(i) =>
            /\ Cardinality(TicketsOf(i)) = line[i].quantity
            /\ \A t \in TicketsOf(i) :
                  row[t].until = line[i].expires /\ row[t].hold = line[i].hold

\* A purchased ticket belongs to a paid order and opens with the key that
\* order's purchase made (mark_as_purchased), whatever carts, holds, refunds
\* and earlier owners of the row were in flight.
PurchasedIsPaidFor ==
    \A t \in Tickets :
        row[t].status = "Purchased" =>
            /\ row[t].item # Null
            /\ line[row[t].item].status = "Paid"
            /\ row[t].key = row[t].item

\* The step is a refund that has read ticket t as the sale it is now.
GivenBack(t) ==
    \E i \in Items :
        /\ refund[i].ticket = t /\ refund[i].item = row[t].item
        /\ line'[i].refunds > line[i].refunds

\* Before its reservation lapses, a ticket leaves an order that has not paid only
\* by an act of that order, a smaller cart; and one that has paid only by a refund
\* that names the ticket in this sale of it.  Order::refund does not ask whether
\* that is a refund of the same order.
ReservationsKept ==
    \A t \in Tickets, i \in Items :
        row[t].item = i /\ ~Before(row[t].until, now) /\ row'[t].item # i
        => IF row[t].status = "Purchased" THEN GivenBack(t)
           ELSE line'[i] # line[i]
ReservationIsExclusive == [][ReservationsKept]_vars

\* A purchased ticket stays sold, in its order and in its hold, until it is
\* redeemed or a refund names it, however old its reservation is.  A refund that
\* read an earlier sale of the ticket does not end this one.
SalesKept ==
    \A t \in Tickets :
        row[t].status = "Purchased" =>
            \/ /\ row'[t].status \in {"Purchased", "Redeemed"}
               /\ row'[t].item = row[t].item
               /\ row'[t].hold = row[t].hold
            \/ GivenBack(t)
SoldStaysSold == [][SalesKept]_vars

\* A transfer moves every ticket of its authorization at once, and each out of
\* the sender's wallet, or none (receive_ticket_transfer).
ReceivedBy(t, k) ==
    /\ row[t].transfer = k /\ row'[t].transfer = Null
    /\ row'[t].status = row[t].status
TransfersWhole ==
    \A k \in Keys :
        (\E t \in Tickets : ReceivedBy(t, k)) =>
            \A t \in auth[k].tickets :
                ReceivedBy(t, k) /\ row[t].wallet = auth[k].sender
TransferIsWhole == [][TransfersWhole]_vars

\* A ticket goes from one user to another only by a purchase of the row or by
\* an authorization that its owner of that moment gave.
ConsentGiven ==
    \A t \in Tickets :
        /\ row[t].wallet \in Users /\ row'[t].wallet \in Users
        /\ row'[t].wallet # row[t].wallet
        => \/ row[t].status # "Purchased" /\ row'[t].status = "Purchased"
           \/ \E k \in Keys : row[t].transfer = k /\ auth[k].sender = row[t].wallet
OwnersConsent == [][ConsentGiven]_vars

-----------------------------------------------------------------------------
(* The abstract sale these tickets implement.                              *)

PaidItems == {i \in Items : line[i].status = "Paid"}
SoldTo == [t \in Tickets |-> IF row[t].status = "Purchased" THEN row[t].item ELSE Null]
UsedTickets == {t \in Tickets : row[t].status = "Redeemed"}
RefundsOf == [i \in Items |-> line[i].refunds]

Promise == INSTANCE Sale WITH
    paid <- PaidItems, sold <- SoldTo, used <- UsedTickets, refunds <- RefundsOf

\* Reservations, holds, transfers, scans and refunds together are a sale: no
\* ticket has two buyers, no order is paid twice, and only its use or a refund
\* that names it ends the sale of a ticket.
ImplementsSale == Promise!Spec
=============================================================================
