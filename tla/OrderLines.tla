----------------------------- MODULE OrderLines -----------------------------
(***************************************************************************)
(* The lines of one user's cart: Order::update_quantities and update_fees  *)
(* (models/orders.rs) with what organizers change meanwhile: the price in  *)
(* force, the type of a hold, the fee schedule.                            *)
(*                                                                         *)
(* db is what is committed; tx is what the request that is under way sees, *)
(* its own writes included, and req what it was asked and has done so far. *)
(* One request at a time: lock_version comes first.  Tickets are counted   *)
(* by pool, a ticket type and a hold (or none).                            *)
(***************************************************************************)
EXTENDS Integers, Sequences, FiniteSets, FiniteSetsExt, SequencesExt

CONSTANTS
    Types, Holds,   \* ticket types; holds, each of one type
    HoldFor,        \* Holds -> Types
    Events,
    EventOf,        \* Types -> Events
    EventFee,       \* Events -> fee_in_cents, 0 for none
    Pricings,       \* price periods
    PriceOf,        \* Pricings -> price_in_cents
    Periods,        \* Types -> Kinds -> periods that may be in force, or Null
    Discount,       \* Holds -> discount_in_cents
    Limit,          \* Types -> limit_per_person, 0 for none
    Increment,      \* Types -> increment
    Schedules,      \* fee schedules: sets of ranges [min, fee]
    Stock,          \* pools -> tickets that are neither in this cart nor another
    Lines,          \* ids of order items of type Tickets
    Asked,          \* the lists of items a request may carry
    Null

Kinds == {"regular", "box", "default"}

Pools == (Types \X {Null}) \cup {<<HoldFor[h], h>> : h \in Holds}
AllPools == Types \X (Holds \cup {Null})

ASSUME CatalogAssumption ==
    /\ HoldFor \in [Holds -> Types] /\ EventOf \in [Types -> Events]
    /\ EventFee \in [Events -> Nat] /\ PriceOf \in [Pricings -> Nat]
    /\ Periods \in [Types -> [Kinds -> SUBSET (Pricings \cup {Null})]]
    /\ Discount \in [Holds -> Nat] /\ Limit \in [Types -> Nat]
    /\ Increment \in [Types -> Nat \ {0}]
    /\ Stock \in [AllPools -> Nat] /\ \A p \in AllPools \ Pools : Stock[p] = 0
    /\ Null \notin Types \cup Holds \cup Pricings
ASSUME ScheduleAssumption ==
    /\ Schedules # {}
    /\ \A S \in Schedules : S \in SUBSET [min : Nat, fee : Nat] /\ IsFiniteSet(S)
ASSUME FiniteAssumption == IsFiniteSet(Lines) /\ IsFiniteSet(Holds)
ASSUME AskedAssumption ==
    Asked \subseteq Seq([type : Types, hold : Holds \cup {Null}, quantity : Nat])

VARIABLES
    current,    \* the price periods now open for each type: regular, box office, default
    holdType,   \* Discount or Comp
    schedule,   \* the organization's fee schedule
    db, tx,     \* the tables: committed, and as the request sees them
    req,        \* the request
    bought,     \* tickets of each pool in the orders the user paid in the last day
    changed     \* what changed since it came into the cart: types, holds, "schedule"

vars == <<current, holdType, schedule, db, tx, req, bought, changed>>
organizer == <<current, holdType, schedule, changed>>

NoFee == [quantity |-> 0, unit |-> 0]
NoLine == [type |-> Null, hold |-> Null, pricing |-> Null, price |-> 0,
           quantity |-> 0, held |-> 0, fee |-> NoFee]

\* fee is the line's PerUnitFees item, eventFees the number of EventFees items.
LineRows ==
    [type : Types \cup {Null}, hold : Holds \cup {Null}, pricing : Pricings \cup {Null},
     price : Nat, quantity : Nat, held : Nat, fee : [quantity : Nat, unit : Nat]]

Tables ==
    [line : [Lines -> LineRows], eventFees : [Events -> Nat], stock : [AllPools -> Nat],
     expires : BOOLEAN, box : BOOLEAN]

NewCart(stock) ==
    [line |-> [l \in Lines |-> NoLine], eventFees |-> [e \in Events |-> 0],
     stock |-> stock, expires |-> FALSE, box |-> FALSE]

NoRequest ==
    [stage |-> "idle", items |-> <<>>, others |-> FALSE, todo |-> {}, used |-> {}, checks |-> {}]

InCart(d) == {l \in Lines : d.line[l] # NoLine}
PoolOf(row) == <<row.type, row.hold>>

\* The tickets of a pool that the cart counts, and those it holds.
CountedIn(d, p) ==
    SumFunctionOnSet([l \in Lines |-> IF PoolOf(d.line[l]) = p THEN d.line[l].quantity ELSE 0], Lines)
HeldIn(d, p) ==
    SumFunctionOnSet([l \in Lines |-> IF PoolOf(d.line[l]) = p THEN d.line[l].held ELSE 0], Lines)

TypeOK ==
    /\ current \in [Types -> [Kinds -> Pricings \cup {Null}]]
    /\ holdType \in [Holds -> {"Discount", "Comp"}]
    /\ schedule \in Schedules
    /\ db \in Tables /\ tx \in Tables
    /\ req.stage \in {"idle", "match", "add"} /\ req.items \in Asked \cup {<<>>}
    /\ req.todo \subseteq InCart(tx) /\ req.used \subseteq DOMAIN req.items
    /\ req.checks \subseteq Types
    /\ bought \in [AllPools -> Nat]
    /\ changed \subseteq Types \cup Holds \cup {"schedule"}

Init ==
    /\ current \in {f \in [Types -> [Kinds -> Pricings \cup {Null}]] :
                       \A t \in Types, kind \in Kinds : f[t][kind] \in Periods[t][kind]}
    /\ holdType \in [Holds -> {"Discount", "Comp"}]
    /\ schedule \in Schedules
    /\ db = NewCart(Stock) /\ tx = db
    /\ req = NoRequest
    /\ bought = [p \in AllPools |-> 0]
    /\ changed = {}

-----------------------------------------------------------------------------
(* The model layer.                                                        *)

\* get_current_ticket_pricing: the box office takes a period of its own before
\* the regular one; the others fall back on the default.
CurrentPricing(t, box) ==
    LET first == IF box THEN "box" ELSE "regular"
        second == IF box THEN "regular" ELSE "default"
    IN  IF current[t][first] # Null THEN current[t][first] ELSE current[t][second]

PriceFor(p, h) ==
    IF h = Null THEN PriceOf[p]
    ELSE IF holdType[h] = "Comp" THEN 0
    ELSE Max({0, PriceOf[p] - Discount[h]})

\* Mutant: the number of rows reserved is not looked at.
CanReserveFewer(d, pool, n) == d.expires

\* reserve_tickets and release_tickets: all of them, or an error.
CanReserve(d, pool, n) == d.expires /\ d.stock[pool] >= n

Reserve(d, l, n) ==
    [d EXCEPT !.line[l].held = @ + n, !.stock[PoolOf(d.line[l])] = @ - n]

CanRelease(d, l, n) == d.line[l].held >= n
Release(d, l, n) ==
    [d EXCEPT !.line[l].held = @ - n, !.stock[PoolOf(d.line[l])] = @ + n]

Count(d, l, n) == [d EXCEPT !.line[l].quantity = n]

\* destroy_item, with its fee.
Destroy(d, l) == [d EXCEPT !.line[l] = NoLine]

ValidIncrement(t, n) == n % Increment[t] = 0

\* NewTicketsOrderItem::commit and the reservation: an item for quantity
\* tickets, n of which are reserved.
CanInsert(d, item, n) ==
    /\ CurrentPricing(item.type, d.box) # Null
    /\ ValidIncrement(item.type, item.quantity)
    /\ CanReserve(d, PoolOf(item), n)

Insert(d, l, item, n) ==
    LET p == CurrentPricing(item.type, d.box)
    IN  Reserve([d EXCEPT !.line[l] =
            [type |-> item.type, hold |-> item.hold, pricing |-> p,
             price |-> PriceFor(p, item.hold), quantity |-> item.quantity,
             held |-> 0, fee |-> NoFee]], l, n)

FreeLines(d) == Lines \ InCart(d)

-----------------------------------------------------------------------------
(* update_quantities.                                                      *)

Unchanged == UNCHANGED <<db, bought>> /\ UNCHANGED organizer

\* clear_cart, when the cart changes to box office prices or back.
Cleared(d) ==
    [d EXCEPT !.line = [l \in Lines |-> NoLine],
              !.stock = [p \in AllPools |-> @[p] + CountedIn(d, p)]]

Begin(items, others, box) ==
    /\ req.stage = "idle"
    /\ Cardinality(InCart(db)) + Len(items) <= Cardinality(Lines)
    /\ box # db.box => \A l \in InCart(db) : CanRelease(db, l, db.line[l].quantity)
    /\ tx' = IF box = db.box THEN db ELSE [Cleared(db) EXCEPT !.box = box]
    /\ req' = [NoRequest EXCEPT !.stage = "match", !.items = items, !.others = others,
                                !.todo = IF box = db.box THEN InCart(db) ELSE {}]
    /\ Unchanged

\* The items of the request for a line, and whether k is the first of them.
Matching(l) ==
    {k \in DOMAIN req.items \ req.used : PoolOf(req.items[k]) = PoolOf(tx.line[l])}
First(k, S) == k \in S /\ \A j \in S : k <= j

Visit(l) == req.stage = "match" /\ l \in req.todo
VisitWith(l, k) == Visit(l) /\ First(k, Matching(l))

\* The line has been dealt with; ks are the items it matched.
Visited(l, ks, checks) ==
    /\ req' = [req EXCEPT !.todo = @ \ {l}, !.used = @ \cup ks, !.checks = @ \cup checks]
    /\ Unchanged

\* Mutant: the line is deleted and its tickets are not released.
DropOther(l) ==
    /\ Visit(l) /\ Matching(l) = {} /\ req.others
    /\ CanRelease(tx, l, tx.line[l].quantity)
    /\ tx' = Destroy(tx, l)
    /\ Visited(l, {}, {})

RemoveOther(l) ==
    /\ Visit(l) /\ Matching(l) = {} /\ req.others
    /\ CanRelease(tx, l, tx.line[l].quantity)
    /\ tx' = Destroy(Release(tx, l, tx.line[l].quantity), l)
    /\ Visited(l, {}, {})

LeaveOther(l) ==
    /\ Visit(l) /\ Matching(l) = {} /\ ~req.others
    /\ Visited(l, {}, {})
    /\ UNCHANGED tx

Keep(l, k) ==
    /\ VisitWith(l, k)
    /\ req.items[k].quantity = tx.line[l].quantity
    /\ Visited(l, {k}, {})
    /\ UNCHANGED tx

\* Mutant: a line that counts less keeps its tickets.
ReduceOnPaper(l, k) ==
    /\ VisitWith(l, k)
    /\ LET row == tx.line[l]  n == req.items[k].quantity
       IN  /\ row.quantity > n
           /\ ValidIncrement(row.type, n)
           /\ tx' = IF n = 0 THEN Destroy(Release(tx, l, row.quantity), l)
                    ELSE [tx EXCEPT !.line[l].quantity = n]
    /\ Visited(l, {k}, {})

Reduce(l, k) ==
    /\ VisitWith(l, k)
    /\ LET row == tx.line[l]  n == req.items[k].quantity
       IN  /\ row.quantity > n
           /\ CanRelease(tx, l, row.quantity - n) /\ ValidIncrement(row.type, n)
           /\ tx' = IF n = 0 THEN Destroy(Release(tx, l, row.quantity), l)
                    ELSE Count(Release(tx, l, row.quantity - n), l, n)
    /\ Visited(l, {k}, {})

Raise(l, k) ==
    /\ VisitWith(l, k)
    /\ LET row == tx.line[l]  n == req.items[k].quantity
       IN  /\ n > row.quantity
           /\ CurrentPricing(row.type, tx.box) = row.pricing
           /\ CanReserve(tx, PoolOf(row), n - row.quantity) /\ ValidIncrement(row.type, n)
           /\ tx' = Count(Reserve(tx, l, n - row.quantity), l, n)
           /\ Visited(l, {k}, {row.type})

\* At another price: a second line, for the whole quantity, gets the tickets
\* that are missing; the first line stays as it is.
RaiseAtNewPrice(l, k) ==
    /\ VisitWith(l, k)
    /\ LET row == tx.line[l]  missing == req.items[k].quantity - row.quantity
       IN  /\ missing > 0
           /\ CurrentPricing(row.type, tx.box) # row.pricing
           /\ CanInsert(tx, req.items[k], missing)
           /\ \E new \in FreeLines(tx) : tx' = Insert(tx, new, req.items[k], missing)
           /\ Visited(l, {k}, {row.type})

\* set_expiry, if there is none.
StartAdding ==
    /\ req.stage = "match" /\ req.todo = {}
    /\ tx' = [tx EXCEPT !.expires = TRUE]
    /\ req' = [req EXCEPT !.stage = "add"]
    /\ Unchanged

Remaining == {k \in DOMAIN req.items \ req.used : req.items[k].quantity # 0}

AddLine(k) ==
    /\ req.stage = "add" /\ First(k, Remaining)
    /\ LET item == req.items[k]
       IN  /\ CanInsert(tx, item, item.quantity)
           /\ \E new \in FreeLines(tx) : tx' = Insert(tx, new, item, item.quantity)
           /\ req' = [req EXCEPT !.used = @ \cup {k}, !.checks = @ \cup {item.type}]
    /\ Unchanged

-----------------------------------------------------------------------------
(* The limit, the fees and the commit.                                     *)

\* Mutant: the items are those that were read first.
WasEmpty(d) == InCart(db) = {} /\ \A e \in Events : db.eventFees[e] = 0

\* "if the cart is empty at this point": fees of the event count as items.
IsEmpty(d) == InCart(d) = {} /\ \A e \in Events : d.eventFees[e] = 0

Held(d, t) ==
    SumFunctionOnSet([l \in Lines |-> IF d.line[l].type = t THEN d.line[l].held ELSE 0], Lines)
Bought(t) == SumFunctionOnSet([h \in Holds \cup {Null} |-> bought[<<t, h>>]], Holds \cup {Null})

\* quantity_for_user_for_event
WithinLimit(d, t) == Limit[t] = 0 \/ Held(d, t) + Bought(t) <= Limit[t]

IsComp(row) == row.hold # Null /\ holdType[row.hold] = "Comp"

\* FeeSchedule::get_range: the last range that does not start above the price.
RangesFor(price) == {r \in schedule : r.min <= price}
FeeFor(price) ==
    (CHOOSE r \in RangesFor(price) : \A s \in RangesFor(price) : s.min <= r.min).fee

\* Mutant: an existing fee keeps its quantity.
FeeKeepsQuantity(row) ==
    IF IsComp(row) \/ row = NoLine THEN row.fee
    ELSE IF RangesFor(row.price) = {} THEN NoFee
    ELSE [quantity |-> IF row.fee = NoFee THEN row.quantity ELSE row.fee.quantity,
          unit |-> FeeFor(row.price)]

\* OrderItem::update_fees, which is not called for the lines of a comp.
LineFee(row) ==
    IF IsComp(row) \/ row = NoLine THEN row.fee
    ELSE IF RangesFor(row.price) = {} THEN NoFee
    ELSE [quantity |-> row.quantity, unit |-> FeeFor(row.price)]

\* The groups of update_fees: consecutive lines of an event with the same hold,
\* in the order the database returns them.
Groups(order, d, e) ==
    {g \in (DOMAIN order) \X (DOMAIN order) :
        LET row == [i \in DOMAIN order |-> d.line[order[i]]]
            same(i) == EventOf[row[i].type] = e /\ row[i].hold = row[g[1]].hold
        IN  /\ g[1] <= g[2] /\ \A i \in g[1]..g[2] : same(i)
            /\ g[1] = 1 \/ ~same(g[1] - 1)
            /\ g[2] = Len(order) \/ ~same(g[2] + 1)}

\* Mutant: the free groups are charged as well.
ChargeAllGroups(order, d, e) ==
    IF EventFee[e] = 0 THEN 0 ELSE Cardinality(Groups(order, d, e))

\* One fee for each group that is not a comp's and has a price.
EventFeesOf(order, d, e) ==
    IF EventFee[e] = 0 THEN 0
    ELSE Cardinality({g \in Groups(order, d, e) :
            \E i \in g[1]..g[2] : /\ d.line[order[i]].price > 0
                                  /\ ~IsComp(d.line[order[i]])})

\* The database sorts by event and leaves the rest open.
Orders(d) ==
    {order \in SetToSeqs(InCart(d)) :
        \A i, j, k \in DOMAIN order :
            i < j /\ j < k /\ EventOf[d.line[order[i]].type] = EventOf[d.line[order[k]].type]
            => EventOf[d.line[order[j]].type] = EventOf[d.line[order[i]].type]}

WithFees(d, order) ==
    [d EXCEPT !.line = [l \in Lines |-> [d.line[l] EXCEPT !.fee = LineFee(d.line[l])]],
              !.eventFees = [e \in Events |-> EventFeesOf(order, d, e)]]

\* What has changed and is still in the cart.
StillIn(d) ==
    {x \in changed : \E l \in InCart(d) : x \in {d.line[l].type, d.line[l].hold}}

\* Mutant: the user's other orders do not count.
WithinLimitsOfCart(d) == \A t \in req.checks : Limit[t] = 0 \/ Held(d, t) <= Limit[t]

\* The types that were raised or added.
WithinLimits(d) == \A t \in req.checks : WithinLimit(d, t)

Finish ==
    /\ req.stage = "add" /\ Remaining = {}
    /\ LET d == IF IsEmpty(tx) THEN [tx EXCEPT !.expires = FALSE] ELSE tx
       IN  /\ WithinLimits(d)
           /\ \E order \in Orders(d) : db' = WithFees(d, order)
           /\ changed' = StillIn(d)
    /\ tx' = db' /\ req' = NoRequest
    /\ UNCHANGED <<current, holdType, schedule, bought>>

\* A validation fails, there are not enough tickets, there is no price or no
\* such code, or the connection is lost: the request is rolled back.
Refuse ==
    /\ req.stage # "idle"
    /\ tx' = db /\ req' = NoRequest
    /\ Unchanged

-----------------------------------------------------------------------------
(* What happens to the cart otherwise, and what organizers do.             *)

Leave(stock) ==
    /\ db' = NewCart(stock) /\ tx' = db'
    /\ changed' = {}
    /\ UNCHANGED <<current, holdType, schedule, req>>

Checkout ==
    /\ req.stage = "idle" /\ InCart(db) # {}
    /\ bought' = [p \in AllPools |-> bought[p] + HeldIn(db, p)]
    /\ Leave(db.stock)

\* The cart expires, and its tickets may be taken again.
Expire ==
    /\ req.stage = "idle" /\ db.expires
    /\ Leave([p \in AllPools |-> db.stock[p] + HeldIn(db, p)])
    /\ UNCHANGED bought

Touched(x) ==
    IF \E l \in InCart(db) \cup InCart(tx) :
          x \in {db.line[l].type, tx.line[l].type, db.line[l].hold, tx.line[l].hold}
    THEN {x} ELSE {}

ChangePrice(t, kind, p) ==
    /\ p \in Periods[t][kind] \ {current[t][kind]}
    /\ current' = [current EXCEPT ![t][kind] = p]
    /\ changed' = changed \cup Touched(t)
    /\ UNCHANGED <<holdType, schedule, db, tx, req, bought>>

ChangeHold(h) ==
    /\ holdType' = [holdType EXCEPT ![h] = IF @ = "Comp" THEN "Discount" ELSE "Comp"]
    /\ changed' = changed \cup Touched(h)
    /\ UNCHANGED <<current, schedule, db, tx, req, bought>>

ChangeSchedule(s) ==
    /\ s # schedule
    /\ schedule' = s
    /\ changed' = changed \cup {"schedule"}
    /\ UNCHANGED <<current, holdType, db, tx, req, bought>>

Next ==
    \/ \E items \in Asked, others, box \in BOOLEAN : Begin(items, others, box)
    \/ \E l \in Lines :
          \/ RemoveOther(l) \/ LeaveOther(l)
          \/ \E k \in DOMAIN req.items :
                Keep(l, k) \/ Reduce(l, k) \/ Raise(l, k) \/ RaiseAtNewPrice(l, k)
    \/ StartAdding \/ Finish \/ Refuse
    \/ \E k \in DOMAIN req.items : AddLine(k)
    \/ Checkout \/ Expire
    \/ \E t \in Types, kind \in Kinds, p \in Pricings \cup {Null} : ChangePrice(t, kind, p)
    \/ \E h \in Holds : ChangeHold(h)
    \/ \E s \in Schedules : ChangeSchedule(s)

Spec == Init /\ [][Next]_vars

-----------------------------------------------------------------------------
\* A line counts the tickets it holds, as long as its price was not changed
\* under it: the user pays for each ticket once and can give each back
\* (update_quantities, release_tickets).  No ticket is held and not counted.
LinesAreWhole ==
    \A l \in InCart(db) :
        LET row == db.line[l]
        IN  row.held <= row.quantity /\ (row.type \notin changed => row.held = row.quantity)

\* Whatever is raised, reduced, replaced, cleared or refused, each ticket is
\* free, in the cart or bought.
NothingLost ==
    \A p \in AllPools : Stock[p] = db.stock[p] + bought[p] + HeldIn(db, p)

\* Over all orders and lines of a type, holds included, the user has no more
\* than limit_per_person (quantity_for_user_for_event).
LimitKept == \A t \in Types : WithinLimit(db, t)

\* Every line pays the fee of its own price for its own quantity, a free one
\* below the first range and a comp's none, unless the schedule or the hold
\* changed after the cart's last update (update_fees).
FeesFollow ==
    "schedule" \notin changed =>
        \A l \in InCart(db) :
            LET row == db.line[l]
            IN  row.hold \in changed \/
                row.fee = IF IsComp(row) \/ RangesFor(row.price) = {} THEN NoFee
                          ELSE [quantity |-> row.quantity, unit |-> FeeFor(row.price)]

\* An event charges its fee when a line of it has a price, and once if no line
\* is of a hold (update_fees; holds that changed since are left out).
EventFeeFollows ==
    \A e \in Events :
        LET lines == {l \in InCart(db) : EventOf[db.line[l].type] = e}
            priced == {l \in lines : db.line[l].price > 0 /\ ~IsComp(db.line[l])}
        IN  EventFee[e] = 0 \/ changed \cap Holds # {} \/
            /\ (db.eventFees[e] > 0) <=> (priced # {})
            /\ (\A l \in lines : db.line[l].hold = Null) => db.eventFees[e] <= 1

\* A cart with tickets has an expiry (set_expiry; reserve_tickets asks for it).
TicketsExpire == InCart(db) # {} => db.expires

\* Any sequence of updates, refusals and expiries leaves carts of well-formed
\* lines that will expire, and loses no ticket.
CartsAddUp == TypeOK /\ NothingLost /\ TicketsExpire
=============================================================================
