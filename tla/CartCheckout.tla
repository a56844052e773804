---------------------------- MODULE CartCheckout ----------------------------
(***************************************************************************)
(* The requests that change and buy a cart (controllers/cart.rs over       *)
(* models/orders.rs), as the transactions they are.  A request runs in one *)
(* PostgreSQL transaction at READ COMMITTED: it reads what is committed at *)
(* each statement, keeps its own writes to itself until it commits, holds  *)
(* a lock on every row it wrote, and waits for a row another request has   *)
(* written, except where a query says SKIP LOCKED.  A card checkout commits *)
(* once in the middle, between the authorization and the capture.          *)
(*                                                                         *)
(* One ticket type; an event without an order fee.  The amount paid is the *)
(* client's: it may be less than the order's total, and nothing refuses it. *)
(* What an order comes to is a constant: nothing (FreeOrders) or more.     *)
(*                                                                         *)
(* A request that creates a cart gives it its own name: an order is named  *)
(* by the request that made it.                                            *)
(***************************************************************************)
EXTENDS TicketRows, FiniteSets

CONSTANTS
    Requests,       \* the requests; also the names of the orders they create
    Tickets,        \* ticket instances of the one ticket type on sale
    Kinds,          \* the requests' kinds, a subset of RequestKinds
    Org,            \* the issuing organization's wallet
    Caller,         \* Requests -> the users that send them
    FreeOrders,     \* the orders whose total is zero (free tickets, a full discount)
    Short,          \* the requests whose amount is less than their order's total
    Faults,         \* the faults that may strike, a subset of FaultKinds
    MaxQuantity,    \* bound of the quantity a request asks for
    CartTTL,        \* CART_EXPIRY_TIME_MINUTES, in ticks
    PayTTL,         \* the day a partially paid order is kept, in ticks
    MaxTime         \* bound of the clock

RequestKinds == {"update", "card", "external", "free"}
FaultKinds == {"crash", "capture", "tokens", "refund"}
Users == {Caller[r] : r \in Requests}

ASSUME AmountAssumption == FreeOrders \subseteq Requests /\ Short \subseteq Requests
ASSUME KindAssumption == "update" \in Kinds /\ Kinds \subseteq RequestKinds
ASSUME FaultAssumption == Faults \subseteq FaultKinds
ASSUME TimeAssumption == {CartTTL, PayTTL} \subseteq Nat \ {0} /\ MaxTime \in Nat
ASSUME FiniteAssumption == IsFiniteSet(Tickets) /\ MaxQuantity \in Nat

VARIABLES
    now,        \* the clock
    order,      \* committed orders
    user,       \* committed users: last_cart_id, and updated_at as a stamp
    row,        \* committed ticket_instances
    pay,        \* committed payments, one per request
    charge,     \* the request's charge at the payment provider
    pc,         \* where each request is
    tx,         \* each request's local variables and uncommitted writes
    revived     \* history: the carts emptied by a commit later than their expiry

vars == <<now, order, user, row, pay, charge, pc, tx, revived>>

Ended == {"ok", "refused", "fault"}
Steps == {"find", "create", "link", "lock", "body", "auth", "mark", "keep", "commitAuth",
          "capture", "complete", "unlink", "tokens", "commit"}

Times == 0..(MaxTime + CartTTL + PayTTL)

Orders ==
    [status : {"none", "Draft", "PartiallyPaid", "Paid"}, version : Nat,
     expires : Times \cup {Null}, quantity : 0..MaxQuantity]

Rows ==
    [status : Statuses, item : Requests \cup {Null}, until : Times \cup {Null},
     hold : {Null}, wallet : Users \cup {Org}, key : Requests \cup {Null},
     transfer : {Null}, lapse : {Null}, readers : {{}}]

UserRows == [cart : Requests \cup {Null}, stamp : Nat]
Payments == {"none", "Authorized", "Completed"}

ASSUME NullAssumption ==
    Null \notin Nat \cup Requests \cup Tickets \cup Users \cup Orders \cup UserRows \cup Payments

NoRows == [t \in {} |-> Null]

Transactions ==
    [kind : Kinds, now : 0..MaxTime, cart : Requests \cup {Null},
     version : Nat, seen : UserRows,
     \* the uncommitted writes
     order : Orders \cup {Null}, user : UserRows \cup {Null},
     rows : {NoRows},        \* typed in TypeOK
     pay : Payments \cup {Null}]

TypeOK ==
    /\ now \in 0..MaxTime
    /\ order \in [Requests -> Orders]
    /\ user \in [Users -> UserRows]
    /\ row \in [Tickets -> Rows]
    /\ pay \in [Requests -> Payments]
    /\ charge \in [Requests -> {"none", "authorized", "captured", "refunded"}]
    /\ pc \in [Requests -> {"idle"} \cup Steps \cup Ended]
    /\ revived \subseteq Requests
    /\ DOMAIN tx = Requests
    /\ \A r \in Requests :
          /\ [tx[r] EXCEPT !.rows = NoRows] \in Transactions
          /\ DOMAIN tx[r].rows \subseteq Tickets
          /\ \A t \in DOMAIN tx[r].rows : tx[r].rows[t] \in Rows

NoTransaction ==
    [kind |-> "update", now |-> 0, cart |-> Null, version |-> 0,
     seen |-> [cart |-> Null, stamp |-> 0],
     order |-> Null, user |-> Null, rows |-> NoRows, pay |-> Null]

Init ==
    /\ now = 0
    /\ order = [o \in Requests |-> [status |-> "none", version |-> 0, expires |-> Null,
                                    quantity |-> 0]]
    /\ user = [u \in Users |-> [cart |-> Null, stamp |-> 0]]
    /\ row = [t \in Tickets |-> Issued(Org)]
    /\ pay = [r \in Requests |-> "none"]
    /\ charge = [r \in Requests |-> "none"]
    /\ pc = [r \in Requests |-> "idle"]
    /\ tx = [r \in Requests |-> NoTransaction]
    /\ revived = {}

-----------------------------------------------------------------------------
(* Transactions.                                                           *)

Others(r) == Requests \ {r}
OrderLocked(o, r) == \E q \in Others(r) : tx[q].order # Null /\ tx[q].cart = o
UserLocked(u, r) == \E q \in Others(r) : tx[q].user # Null /\ Caller[q] = u
RowLocked(t, r) == \E q \in Others(r) : t \in DOMAIN tx[q].rows

\* What the request itself sees of its cart and of a ticket.
Cart(r) == IF tx[r].order # Null THEN tx[r].order ELSE order[tx[r].cart]
Seen(r, t) == IF t \in DOMAIN tx[r].rows THEN tx[r].rows[t] ELSE row[t]

Goto(r, step) == pc' = [pc EXCEPT ![r] = step]

\* The commit takes away an expiry that is over: the cart is in use again.
Revives(r) ==
    /\ tx[r].order # Null /\ tx[r].order.expires = Null
    /\ Before(order[tx[r].cart].expires, now)

\* The transaction's writes become the database's.
Apply(r) ==
    /\ order' = IF tx[r].order = Null THEN order
                ELSE [order EXCEPT ![tx[r].cart] = tx[r].order]
    /\ user' = IF tx[r].user = Null THEN user
               ELSE [user EXCEPT ![Caller[r]] = tx[r].user]
    /\ row' = [t \in Tickets |-> Seen(r, t)]
    /\ pay' = IF tx[r].pay = Null THEN pay ELSE [pay EXCEPT ![r] = tx[r].pay]
    /\ revived' = IF Revives(r) THEN revived \cup {tx[r].cart} ELSE revived

\* Mutant: the order's lock outlives the transaction.
EmptiedStillLocking(txr) == [txr EXCEPT !.user = Null, !.rows = NoRows, !.pay = Null]

Emptied(txr) ==
    [txr EXCEPT !.order = Null, !.user = Null, !.rows = NoRows, !.pay = Null]

\* The middleware rolls the transaction back.
RollBack(r, end) ==
    /\ Goto(r, end)
    /\ tx' = [tx EXCEPT ![r] = Emptied(@)]
    /\ UNCHANGED <<now, order, user, row, pay, revived>>

\* An error before the provider holds any money.
Refuse(r) == RollBack(r, "refused") /\ UNCHANGED charge

\* Mutant: the error forgets the money.
RefuseWithoutRefund(r) == Refuse(r)

\* An error that makes the handler call the provider's refund first.
RefundAndRefuse(r) ==
    IF charge[r] = "none" THEN Refuse(r)
    ELSE \/ RollBack(r, "refused") /\ charge' = [charge EXCEPT ![r] = "refunded"]
         \/ "refund" \in Faults /\ RollBack(r, "fault") /\ UNCHANGED charge

-----------------------------------------------------------------------------
(* Finding, creating and locking the cart.                                 *)

\* The transaction starts and the authenticated user's row is loaded.
Begin(r, kind) ==
    /\ pc[r] = "idle"
    /\ Goto(r, "find")
    /\ tx' = [tx EXCEPT ![r].kind = kind, ![r].now = now, ![r].seen = user[Caller[r]]]
    /\ UNCHANGED <<now, order, user, row, pay, charge, revived>>

\* find_cart_for_user
IsCart(o, t) == o # Null /\ order[o].status = "Draft" /\ ~Before(order[o].expires, t)

FindCart(r) ==
    LET o == user[Caller[r]].cart
    IN  /\ pc[r] = "find"
        /\ \/ /\ IsCart(o, tx[r].now)
              /\ Goto(r, "lock")
              /\ tx' = [tx EXCEPT ![r].cart = o, ![r].version = order[o].version]
              /\ UNCHANGED <<now, order, user, row, pay, charge, revived>>
           \/ /\ ~IsCart(o, tx[r].now) /\ tx[r].kind = "update"
              /\ Goto(r, "create")
              /\ UNCHANGED <<now, order, user, row, pay, charge, tx, revived>>
           \/ /\ ~IsCart(o, tx[r].now) /\ tx[r].kind # "update"
              /\ Refuse(r)

NewCart == [status |-> "Draft", version |-> 0, expires |-> Null, quantity |-> 0]

\* The INSERT of find_or_create_cart, which gives way to another cart of the
\* user that is in use.
CreateCart(r) ==
    LET taken == \E o \in Requests :
                    /\ Caller[o] = Caller[r] /\ order[o].status = "Draft"
                    /\ order[o].expires # Null /\ order[o].expires > tx[r].now
    IN  /\ pc[r] = "create"
        /\ \/ taken /\ Refuse(r)
           \/ /\ ~taken
              /\ Goto(r, "link")
              /\ tx' = [tx EXCEPT ![r].cart = r, ![r].version = 0, ![r].order = NewCart]
              /\ UNCHANGED <<now, order, user, row, pay, charge, revived>>

\* Mutant: the user's row is not compared.
Whoever(r) == TRUE

\* update_last_cart: the user's row must be the one that was loaded.
AsSeen(r) == user[Caller[r]] = tx[r].seen

LinkCart(r) ==
    /\ pc[r] = "link"
    /\ ~UserLocked(Caller[r], r)
    /\ \/ ~AsSeen(r) /\ Refuse(r)
       \/ /\ AsSeen(r)
          /\ Goto(r, "lock")
          /\ tx' = [tx EXCEPT ![r].user = [cart |-> r, stamp |-> tx[r].seen.stamp + 1]]
          /\ UNCHANGED <<now, order, user, row, pay, charge, revived>>

\* lock_version
AfterLock(kind) ==
    CASE kind = "update" -> "body" [] kind = "card" -> "auth" [] OTHER -> "mark"

\* Mutant: the version is not compared.
AnyVersion(r) == TRUE

SameVersion(r) == Cart(r).version = tx[r].version

Lock(r) ==
    /\ pc[r] = "lock"
    /\ ~OrderLocked(tx[r].cart, r)
    /\ \/ ~SameVersion(r) /\ Refuse(r)
       \/ /\ SameVersion(r)
          /\ Goto(r, AfterLock(tx[r].kind))
          /\ tx' = [tx EXCEPT ![r].order = [Cart(r) EXCEPT !.version = @ + 1],
                              ![r].version = @ + 1]
          /\ UNCHANGED <<now, order, user, row, pay, charge, revived>>

\* An update that names an unpublished event is answered with a response that is no
\* error, so the cart it has just created is kept.
Unpublished(r) ==
    /\ pc[r] = "lock" /\ tx[r].kind = "update"
    /\ Apply(r)
    /\ Goto(r, "refused")
    /\ tx' = [tx EXCEPT ![r] = Emptied(@)]
    /\ UNCHANGED <<now, charge>>

-----------------------------------------------------------------------------
(* update_quantities, after its lock: the cart is to hold q tickets.       *)

\* Mutant: the query does not skip locked rows.
FreeOrLocked(r) == {t \in Tickets : Takeable(row[t], Null, tx[r].now)}

Free(r) == {t \in Tickets : ~RowLocked(t, r) /\ Takeable(row[t], Null, tx[r].now)}

Mine(r) == {t \in Tickets : ~RowLocked(t, r) /\ Releasable(row[t], tx[r].cart, "Reserved")}

Written(T, F(_)) == [t \in T |-> F(row[t])]

Grow(r, q) ==
    LET cart == Cart(r)
        more == q - cart.quantity
        until == IF cart.expires = Null THEN now + CartTTL ELSE cart.expires
        Reserving(old) == ReservedFor(old, tx[r].cart, until)
    IN  /\ more > 0
        /\ \/ Cardinality(Free(r)) < more /\ Refuse(r)
           \/ \E T \in SUBSET Free(r) :
                 /\ Cardinality(T) = more
                 /\ Goto(r, "commit")
                 /\ tx' = [tx EXCEPT ![r].rows = Written(T, Reserving),
                                     ![r].order = [cart EXCEPT !.quantity = q,
                                                               !.expires = until]]
                 /\ UNCHANGED <<now, order, user, row, pay, charge, revived>>

Shrink(r, q) ==
    LET cart == Cart(r)
        less == cart.quantity - q
        empty == q = 0
    IN  /\ less > 0
        /\ \/ Cardinality(Mine(r)) < less /\ Refuse(r)
           \/ empty /\ cart.expires <= now /\ Refuse(r)      \* remove_expiry
           \/ \E T \in SUBSET Mine(r) :
                 /\ Cardinality(T) = less
                 /\ empty => cart.expires > now
                 /\ Goto(r, "commit")
                 /\ tx' = [tx EXCEPT ![r].rows = Written(T, Released),
                                     ![r].order = [cart EXCEPT
                                         !.quantity = q,
                                         !.expires = IF empty THEN Null ELSE @]]
                 /\ UNCHANGED <<now, order, user, row, pay, charge, revived>>

Body(r, q) ==
    /\ pc[r] = "body"
    /\ \/ Grow(r, q)
       \/ Shrink(r, q)
       \/ /\ q = Cart(r).quantity
          /\ Goto(r, "commit")
          /\ UNCHANGED <<now, order, user, row, pay, charge, tx, revived>>

-----------------------------------------------------------------------------
(* checkout                                                                *)

\* The provider's auth: it holds the money, or the request fails.
Authorize(r) ==
    /\ pc[r] = "auth"
    /\ \/ Refuse(r)
       \/ /\ Goto(r, "mark")
          /\ charge' = [charge EXCEPT ![r] = "authorized"]
          /\ UNCHANGED <<now, order, user, row, pay, tx, revived>>

\* mark_partially_paid tests the expiry against the wall clock.
Unexpired(o) == o.expires # Null /\ o.expires >= now

\* The free checkout is for orders whose total is zero.
Payable(r) == tx[r].kind = "free" => tx[r].cart \in FreeOrders

MarkOrder(r) ==
    /\ pc[r] = "mark"
    /\ \/ ~(Payable(r) /\ Unexpired(Cart(r))) /\ RefundAndRefuse(r)
       \/ /\ Payable(r) /\ Unexpired(Cart(r))
          /\ Goto(r, "keep")
          /\ tx' = [tx EXCEPT ![r].order = [@ EXCEPT !.status = "PartiallyPaid",
                                                     !.expires = now + PayTTL]]
          /\ UNCHANGED <<now, order, user, row, pay, charge, revived>>

Bought(r) == {t \in Tickets : Seen(r, t).item = tx[r].cart}
Waits(r) == \E t \in Bought(r) : RowLocked(t, r)

\* update_reserved_time, and the payment's INSERT.
KeepTickets(r) ==
    LET Keeping(old) == KeptUntil(old, tx[r].order.expires)
        card == tx[r].kind = "card"
    IN  /\ pc[r] = "keep"
        /\ ~Waits(r)
        /\ Goto(r, "complete")
        /\ tx' = [tx EXCEPT ![r].rows = Written(Bought(r), Keeping),
                            ![r].pay = IF card THEN "Authorized" ELSE "Completed"]
        /\ UNCHANGED <<now, order, user, row, pay, charge, revived>>

CommitAuthorization(r) ==
    /\ pc[r] = "commitAuth"
    /\ Apply(r)
    /\ Goto(r, "capture")
    /\ tx' = [tx EXCEPT ![r] = [Emptied(@) EXCEPT !.now = now]]
    /\ UNCHANGED <<now, charge>>

\* The provider's complete_authed_charge, and the payment's update of mark_complete.
Capture(r) ==
    /\ pc[r] = "capture"
    /\ \/ "capture" \in Faults /\ RollBack(r, "fault") /\ UNCHANGED charge
       \/ /\ Goto(r, "complete")
          /\ charge' = [charge EXCEPT ![r] = "captured"]
          /\ tx' = [tx EXCEPT ![r].pay = "Completed"]
          /\ UNCHANGED <<now, order, user, row, pay, revived>>

\* Where complete_if_fully_paid returns to: the authorization of a card, or the
\* handler's answer.
AfterPayment(r) == IF tx[r].pay = "Authorized" THEN "commitAuth" ELSE "tokens"

\* The amount is the total or more: a free checkout's is zero, any other's the request's.
InFull(r) == tx[r].kind = "free" \/ r \notin Short

\* Mutant: a payment counts before it is completed.
CoveredOnPromise(r) == InFull(r) \/ tx[r].cart \in FreeOrders

\* total_paid, the sum of the completed payments, is at least calculate_total.
Covered(r) == IF tx[r].pay = "Completed" THEN InFull(r) ELSE tx[r].cart \in FreeOrders

\* complete_if_fully_paid, up to its reading of the user.
Complete(r) ==
    LET o == tx[r].cart
        Buying(t) == PurchasedBy(Seen(r, t), o, Caller[r])
    IN  /\ pc[r] = "complete"
        /\ \/ /\ ~Covered(r)
              /\ Goto(r, AfterPayment(r))
              /\ UNCHANGED <<now, order, user, row, pay, charge, tx, revived>>
           \/ /\ Covered(r)
              /\ ~OrderLocked(o, r) /\ ~Waits(r)
              /\ Goto(r, IF user[Caller[r]].cart = o THEN "unlink" ELSE AfterPayment(r))
              /\ tx' = [tx EXCEPT ![r].order = [Cart(r) EXCEPT !.status = "Paid"],
                                  ![r].rows = [t \in Bought(r) |-> Buying(t)],
                                  ![r].seen = user[Caller[r]]]
              /\ UNCHANGED <<now, order, user, row, pay, charge, revived>>

\* Mutant: the money goes back, but the purchase goes on.
UnlinkRegardless(r) ==
    /\ pc[r] = "unlink"
    /\ ~UserLocked(Caller[r], r)
    /\ Goto(r, AfterPayment(r))
    /\ IF AsSeen(r) \/ charge[r] = "none"
       THEN /\ tx' = [tx EXCEPT ![r].user = [cart |-> Null, stamp |-> user[Caller[r]].stamp + 1]]
            /\ UNCHANGED <<now, order, user, row, pay, charge, revived>>
       ELSE /\ charge' = [charge EXCEPT ![r] = "refunded"]
            /\ UNCHANGED <<now, order, user, row, pay, tx, revived>>

\* update_last_cart(None): a changed user row undoes the purchase.
UnlinkCart(r) ==
    /\ pc[r] = "unlink"
    /\ ~UserLocked(Caller[r], r)
    /\ \/ ~AsSeen(r) /\ RefundAndRefuse(r)
       \/ /\ AsSeen(r)
          /\ Goto(r, AfterPayment(r))
          /\ tx' = [tx EXCEPT ![r].user = [cart |-> Null, stamp |-> tx[r].seen.stamp + 1]]
          /\ UNCHANGED <<now, order, user, row, pay, charge, revived>>

\* The transfer of the tokens on the chain; its error refunds nothing.
TransferTokens(r) ==
    /\ pc[r] = "tokens"
    /\ \/ "tokens" \in Faults /\ RollBack(r, "fault") /\ UNCHANGED charge
       \/ Goto(r, "commit") /\ UNCHANGED <<now, order, user, row, pay, charge, tx, revived>>

Commit(r) ==
    /\ pc[r] = "commit"
    /\ Apply(r)
    /\ Goto(r, "ok")
    /\ tx' = [tx EXCEPT ![r] = Emptied(@)]
    /\ UNCHANGED <<now, charge>>

-----------------------------------------------------------------------------
\* The process or its connection dies; the database rolls back.
Crash(r) ==
    /\ "crash" \in Faults /\ pc[r] \in Steps
    /\ RollBack(r, "fault")
    /\ UNCHANGED charge

Tick ==
    /\ now < MaxTime
    /\ now' = now + 1
    /\ UNCHANGED <<order, user, row, pay, charge, pc, tx, revived>>

Step(r) ==
    \/ FindCart(r) \/ CreateCart(r) \/ LinkCart(r) \/ Lock(r) \/ Unpublished(r)
    \/ \E q \in 0..MaxQuantity : Body(r, q)
    \/ Authorize(r) \/ MarkOrder(r) \/ KeepTickets(r) \/ CommitAuthorization(r)
    \/ Capture(r) \/ Complete(r) \/ UnlinkCart(r) \/ TransferTokens(r) \/ Commit(r)

\* Nothing is left to do: every request has ended and the clock is at its bound.
Rest ==
    /\ now = MaxTime /\ \A r \in Requests : pc[r] \in Ended
    /\ UNCHANGED vars

Next ==
    \/ Tick
    \/ Rest
    \/ \E r \in Requests : (\E kind \in Kinds : Begin(r, kind)) \/ Step(r) \/ Crash(r)

Spec == Init /\ [][Next]_vars

\* A request that has begun runs on: the server polls it, and a row lock is
\* waited for until its holder's transaction ends.
FairSpec == Spec /\ \A r \in Requests : WF_vars(Step(r))
-----------------------------------------------------------------------------
(* What the requests of different users, and of one user, owe each other.  *)

\* However the requests of a user interleave, the provider holds money for a
\* cart once: a second checkout fails at its lock or finds no cart
\* (lock_version).  Only a request that died may leave an authorization behind,
\* and that is never captured.
ChargedOnce ==
    \A q, r \in Requests :
        /\ q # r /\ tx[q].cart = tx[r].cart
        /\ {charge[q], charge[r]} \subseteq {"authorized", "captured"}
        => \E p \in {q, r} : pc[p] = "fault" /\ charge[p] = "authorized"

\* A request that ends without a fault leaves no money behind: a refused one has
\* charged nothing or paid it back, and a card checkout that reports success has
\* captured the money.  A checkout that reports success has completed its payment,
\* and its order is paid if the amount was the total; if it was less, the order may
\* be left partially paid, with the answer of a success.
MoneyFollowsTheOrder ==
    \A r \in Requests :
        /\ pc[r] = "refused" => charge[r] \in {"none", "refunded"}
        /\ pc[r] = "ok" /\ tx[r].kind = "card" => charge[r] = "captured"
        /\ pc[r] = "ok" /\ tx[r].kind # "update" =>
              /\ pay[r] = "Completed"
              /\ order[tx[r].cart].status \in {"PartiallyPaid", "Paid"}
              /\ InFull(r) => order[tx[r].cart].status = "Paid"

\* An order with a total is paid by a completed payment of the whole of it, and
\* the provider has captured the money if it was a card payment and has not given
\* it back; an order that comes to nothing is paid by whatever payment it has.
PaidIsCharged ==
    \A o \in Requests :
        order[o].status = "Paid" =>
            \E r \in Requests :
                /\ tx[r].cart = o /\ pay[r] # "none"
                /\ \/ o \in FreeOrders
                   \/ /\ pay[r] = "Completed" /\ InFull(r)
                      /\ tx[r].kind = "card" => charge[r] = "captured"

\* A committed cart that has not expired holds exactly the tickets it counts,
\* each until the cart's expiry, whatever other transactions are in flight.
LiveCartHoldsItsTickets ==
    \A o \in Requests :
        IsCart(o, now) =>
            LET held == {t \in Tickets : row[t].item = o}
            IN  /\ Cardinality(held) = order[o].quantity
                /\ \A t \in held : row[t].until = order[o].expires

\* Money, payments and orders tell the same story, whichever step of a checkout
\* failed: nobody is charged for a refusal, no order is paid by nothing.
MoneyAndOrderAgree == MoneyFollowsTheOrder /\ PaidIsCharged

\* What is committed is well formed, and every cart in it has its tickets
\* (reserve_tickets and release_tickets under SKIP LOCKED).
CartsAreWhole == TypeOK /\ LiveCartHoldsItsTickets

\* A user never has two carts in use at the same time ("detect that another thread
\* has not created another cart in the mean time", find_or_create_cart), unless a
\* transaction that began to empty one of them before its expiry committed
\* after it: another request may have made a new cart meanwhile.
OneCartInUse ==
    \A o, p \in Requests \ revived :
        Caller[o] = Caller[p] /\ IsCart(o, now) /\ IsCart(p, now) => o = p

\* What a transaction has bought, no other request takes: a purchased ticket
\* keeps its order and its owner.
PurchasesLast ==
    [][\A t \in Tickets :
          row[t].status = "Purchased" =>
              row'[t].item = row[t].item /\ row'[t].wallet = row[t].wallet]_vars

\* Every request that begins ends, whatever it waits for: the waits for row
\* locks never form a cycle.
RequestsEnd == \A r \in Requests : pc[r] \in Steps ~> pc[r] \in Ended

\* "assert_eq!(tickets.len(), 5)" (db/tests/unit/ticket_instances.rs, a paid order of
\* five): an order that is paid in full has the tickets it counts.
PaidOrdersAreWhole ==
    \A o \in Requests :
        order[o].status = "Paid" =>
            Cardinality({t \in Tickets : row[t].item = o}) = order[o].quantity
=============================================================================
