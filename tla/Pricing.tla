------------------------------- MODULE Pricing -------------------------------
(***************************************************************************)
(* The prices of one event's ticket types: ticket_types and ticket_pricing *)
(* rows, the requests that write them (api/src/controllers/ticket_types.rs *)
(* over db/src/models/ticket_types.rs and ticket_pricing.rs), the carts    *)
(* that refer to them, and the cheapest and dearest price, which each of   *)
(* these requests writes into the event's row (Event::update_cache).       *)
(*                                                                         *)
(* A request is one transaction.  An update reads the type, takes the lock *)
(* of its row with the UPDATE, works on the type's prices under this lock, *)
(* and commits with the write of the event's row.  It names the event and  *)
(* the type by their ids and never compares the two: under the id of       *)
(* another event it edits this event's type and writes the other's row.    *)
(* Module Events has the requests about the event itself.                  *)
(***************************************************************************)
EXTENDS Integers, FiniteSets, OrganizerRequests

CONSTANTS
    Types,          \* ids of ticket_types rows
    FirstType,      \* the type that is there from the start: its id,
    FirstPeriod,    \* its dates and price,
    FirstOffer,     \* and its published price
    MaxRows,        \* bound: rows of ticket_pricing
    MaxUsed,        \* bound: rows of it that carts are about
    Offers,         \* prices that requests may ask for
    NewPeriods,     \* the dates and price that a new type may be given
    TypeChanges     \* what an update may ask of the type: Null where nothing

Rows == 1 .. MaxRows

\* from and to are the start_date and the end_date.
Periods == [from : Nat, to : Nat, price : Nat]
OfferRows == [from : Nat, to : Nat, price : Nat, box : BOOLEAN]

ASSUME TypeAssumption ==
    /\ FirstType \in Types
    /\ FirstPeriod \in Periods /\ FirstPeriod.from < FirstPeriod.to
    /\ FirstOffer \in OfferRows /\ FirstOffer.from < FirstOffer.to
    /\ FirstPeriod.from <= FirstOffer.from /\ FirstOffer.to <= FirstPeriod.to
ASSUME OfferAssumption ==
    /\ Offers \subseteq OfferRows /\ NewPeriods \subseteq Periods
    /\ TypeChanges \subseteq [from : Nat \cup {Null}, to : Nat \cup {Null}, price : Nat \cup {Null}]
ASSUME BoundAssumption == MaxRows \in Nat /\ MaxRows >= 2 /\ MaxUsed \in Nat
ASSUME NullAssumption == Null \notin Nat \cup Types \cup BOOLEAN

VARIABLES
    type,       \* ticket_types
    pricing,    \* ticket_pricing
    used,       \* which rows of it a cart has read, or its order item refers to
    cache       \* events.min_ticket_price_cache and max_ticket_price_cache

pricingVars == <<type, pricing, used, cache>>

PricingRow ==
    [type : Types, status : {"Published", "Default", "Deleted"},
     from : Nat, to : Nat, price : Nat, box : BOOLEAN]
ASSUME RowAssumption == Null \notin Periods \cup OfferRows \cup PricingRow
\* stale: another change of prices had overtaken the last request to write it, or
\* one under another event's id has come since.
Cache == [min : Nat, max : Nat, stale : BOOLEAN]

\* own: the event it names is the type's own.
\* named: the rows the request names, with what they shall be; it deletes the
\* others.  added: the row it asks for without an id, or Null.
PriceList(list) ==
    /\ DOMAIN list = {"named", "added"}
    /\ DOMAIN list.named \subseteq Rows /\ \A p \in DOMAIN list.named : list.named[p] \in Offers
    /\ list.added \in Offers \cup {Null}
Updating(q) ==
    /\ DOMAIN q = {"kind", "type", "own", "set", "list"} /\ q.kind = "update"
    /\ q.type \in Types /\ q.own \in BOOLEAN /\ q.set \in TypeChanges
    /\ q.list = Null \/ PriceList(q.list)
\* rows: the pricing rows it has written, Null for one it has deleted.
Priced(q) ==
    /\ DOMAIN q = {"kind", "type", "own", "row", "rows", "clean", "min", "max"} /\ q.kind = "priced"
    /\ q.type \in Types /\ q.own \in BOOLEAN /\ q.row \in Periods /\ q.clean \in BOOLEAN
    /\ DOMAIN q.rows \subseteq Rows
    /\ \A p \in DOMAIN q.rows : q.rows[p] \in PricingRow \cup {Null}
    /\ {q.min, q.max} \subseteq Nat

PricingTypeOK ==
    /\ type \in [Types -> Periods \cup {Null}]
    /\ pricing \in [Rows -> PricingRow \cup {Null}]
    /\ used \in [Rows -> {"no", "read", "ordered"}]
    /\ cache \in Cache

PricingRowOf(t, status, offer) ==
    [type |-> t, status |-> status, from |-> offer.from, to |-> offer.to,
     price |-> offer.price, box |-> offer.box]
DefaultOf(t, period) ==
    [type |-> t, status |-> "Default", from |-> period.from, to |-> period.to,
     price |-> period.price, box |-> FALSE]

\* The event has one type, as ticket_types::create leaves it.
PricingInit ==
    /\ type = [t \in Types |-> IF t = FirstType THEN FirstPeriod ELSE Null]
    /\ pricing = [p \in Rows |->
                    IF p = 1 THEN DefaultOf(FirstType, FirstPeriod)
                    ELSE IF p = 2 THEN PricingRowOf(FirstType, "Published", FirstOffer)
                    ELSE Null]
    /\ used = [p \in Rows |-> "no"]
    /\ cache = LET prices == {FirstPeriod.price, FirstOffer.price} IN
               [min |-> CHOOSE x \in prices : \A y \in prices : x <= y,
                max |-> CHOOSE x \in prices : \A y \in prices : x >= y, stale |-> FALSE]

-----------------------------------------------------------------------------
(* Which price is in force.                                                *)

Existing(rows) == {p \in DOMAIN rows : rows[p] # Null}
OfType(rows, t, status) == {p \in Existing(rows) : rows[p].type = t /\ rows[p].status = status}
InForce(rows, t, status, time) ==
    {p \in OfType(rows, t, status) : rows[p].from <= time /\ time < rows[p].to}

\* get_current_ticket_pricing online: the published price of the time, or the
\* default one.  More than one is an error, and so is none.
Candidates(t, time) ==
    LET published == {p \in InForce(pricing, t, "Published", time) : ~pricing[p].box} IN
    IF published # {} THEN published ELSE InForce(pricing, t, "Default", time)

OnlinePrices(t, time) ==
    IF Cardinality(Candidates(t, time)) = 1 THEN Candidates(t, time) ELSE {}

\* At the box office: one of its own prices, or one of the others, and no
\* default.
BoxOfficePrices(t, time) ==
    LET published == InForce(pricing, t, "Published", time)
        own == {p \in published : pricing[p].box} IN
    IF own # {} THEN own ELSE published

-----------------------------------------------------------------------------
(* Carts.                                                                  *)

BeingPriced == {r \in Requests : req[r].kind = "priced"}
Deleting == UNION {{p \in DOMAIN req[r].rows : req[r].rows[p] = Null} : r \in BeingPriced}

\* Bound: what carts do is followed while a request may change prices.
PricesMayChange ==
    \E r \in Requests : req[r] = Idle("type") \/ req[r].kind \in {"update", "priced"}

\* A cart reads the price it is going to insert an order item with.
Quote(t, time, p) ==
    /\ PricesMayChange
    /\ used[p] = "no" /\ Cardinality({q \in Rows : used[q] # "no"}) < MaxUsed
    /\ p \in OnlinePrices(t, time) \cup BoxOfficePrices(t, time)
    /\ used' = [used EXCEPT ![p] = "read"]
    /\ UNCHANGED <<type, pricing, cache, req>>

\* The insert and its commit.  The foreign key waits for whoever deletes the row.
Order(p) ==
    /\ used[p] = "read" /\ pricing[p] # Null /\ p \notin Deleting
    /\ used' = [used EXCEPT ![p] = "ordered"]
    /\ UNCHANGED <<type, pricing, cache, req>>

\* The cart is emptied, or its request ends before the insert.
Drop(p) ==
    /\ used[p] # "no"
    /\ used' = [used EXCEPT ![p] = "no"]
    /\ UNCHANGED <<type, pricing, cache, req>>

-----------------------------------------------------------------------------
(* The work of a request on the prices of a type.                          *)

Unused == {p \in Rows : pricing[p] = Null /\ \A r \in BeingPriced : p \notin DOMAIN req[r].rows}
\* The id of the k-th row that a request inserts.
NewRow(k) == CHOOSE p \in Unused : Cardinality({q \in Unused : q < p}) = k - 1

\* f, with the values of g where it has one.
Over(g, f) == [p \in DOMAIN f \cup DOMAIN g |-> IF p \in DOMAIN g THEN g[p] ELSE f[p]]

\* TicketPricing::destroy: a row that order items refer to is kept, and marked.
Destroyed(p) ==
    IF used[p] = "ordered" THEN [pricing[p] EXCEPT !.status = "Deleted"] ELSE Null

\* TicketType::update, below its UPDATE: the default price follows the type.
DefaultReplaced(t, period) ==
    Over([p \in {NewRow(1)} |-> DefaultOf(t, period)],
         [p \in OfType(pricing, t, "Default") |-> Destroyed(p)])

\* ticket_pricing_no_overlapping_periods: two online prices would be in force at
\* one time.
Overlaps(a, b) ==
    \/ b.from <= a.from /\ a.from < b.to
    \/ b.from < a.to /\ a.to <= b.to
    \/ b.from >= a.from /\ b.to <= a.to

\* ticket_pricing_does_not_overlap_ticket_type_start_date and _end_date
Inside(offer, period) == period.from <= offer.from /\ offer.to <= period.to

\* validate_ticket_pricing
ValidPrices(rows, t, period) ==
    LET published == OfType(rows, t, "Published") IN
    \A p \in published :
        /\ Inside(rows[p], period)
        /\ ~rows[p].box =>
            \A q \in published \ {p} : ~rows[q].box => ~Overlaps(rows[p], rows[q])

\* NewTicketPricing::validate_record; a named price is asked for its dates only.
ValidOffer(offer) == offer.from < offer.to /\ offer.price > 0

\* Mutant: a row is found by its id, whatever became of it.
NameableAtAll(t) == {p \in Existing(pricing) : pricing[p].type = t}

\* ticket_pricing: the rows that a list may name.
Nameable(t) == OfType(pricing, t, "Published")

\* The list of prices: rows not named are destroyed, named ones updated, and
\* one without an id added.
PricesReplaced(t, list) ==
    Over([p \in DOMAIN list.named |-> PricingRowOf(t, "Published", list.named[p])],
         Over([p \in Nameable(t) \ DOMAIN list.named |-> Destroyed(p)],
              IF list.added = Null THEN << >>
              ELSE [p \in {NewRow(2)} |-> PricingRowOf(t, "Published", list.added)]))

\* Mutant: the default prices are left out.
ValidPricingPublished(rows) == {p \in Existing(rows) : rows[p].status = "Published"}

\* valid_ticket_pricing(include_default) of all types
ValidPricing(rows) == {p \in Existing(rows) : rows[p].status # "Deleted"}

\* update_cache of this event, up to its UPDATE: of what is committed, and of the request's own.
CachedMin(rows) ==
    LET prices == {rows[p].price : p \in ValidPricing(rows)} IN
    IF prices = {} THEN 0 ELSE CHOOSE x \in prices : \A y \in prices : x <= y
CachedMax(rows) ==
    LET prices == {rows[p].price : p \in ValidPricing(rows)} IN
    IF prices = {} THEN 0 ELSE CHOOSE x \in prices : \A y \in prices : x >= y

\* The request holds the rows it has written until it commits.
Written(t, own, period, rows) ==
    LET seen == Over(rows, pricing) IN
    [kind |-> "priced", type |-> t, own |-> own, row |-> period, rows |-> rows, clean |-> TRUE,
     min |-> CachedMin(seen), max |-> CachedMax(seen)]

-----------------------------------------------------------------------------
(* The requests.                                                           *)

\* ticket_types::create.  The name, which the id stands for, is unique in the
\* event; the tickets are issued in the same transaction (module Stock).
CreateType(r, t, period, offer) ==
    LET rows == Over([p \in {NewRow(1)} |-> DefaultOf(t, period)],
                     IF offer = Null THEN << >>
                     ELSE [p \in {NewRow(2)} |-> PricingRowOf(t, "Published", offer)]) IN
    /\ req[r] = Idle("type")
    /\ type[t] = Null /\ \A q \in BeingPriced : req[q].type # t
    /\ Cardinality(Unused) >= 2
    /\ period.from < period.to /\ period.price > 0
    /\ offer # Null => ValidOffer(offer)
    /\ ValidPrices(rows, t, period)
    /\ req' = [req EXCEPT ![r] = Written(t, TRUE, period, rows)]
    /\ UNCHANGED pricingVars

Merged(row, set) == [f \in DOMAIN row |-> IF set[f] = Null THEN row[f] ELSE set[f]]

\* ticket_types::update: Event::find and TicketType::find, each by its own id, and
\* validate_record of what it found.
StartType(r, t, own, set, list) ==
    /\ req[r] = Idle("type")
    /\ type[t] # Null
    /\ Merged(type[t], set).from < Merged(type[t], set).to
    /\ req' = [req EXCEPT ![r] = [kind |-> "update", type |-> t, own |-> own, set |-> set, list |-> list]]
    /\ UNCHANGED pricingVars

\* Mutant: the type's row is not locked.
NeverLocked(t) == FALSE

\* The UPDATE of the type waits for a request that has updated it.
Locked(t) == \E r \in BeingPriced : req[r].type = t

\* The UPDATE, with the CHECK of the dates, and all that follows it up to the
\* write of the event: the lock of the type's row protects the type's prices.
WriteType(r) ==
    LET q == req[r]
        t == q.type
        period == Merged(type[t], q.set)
        rows == IF q.list = Null THEN DefaultReplaced(t, period)
                ELSE Over(PricesReplaced(t, q.list), DefaultReplaced(t, period)) IN
    /\ q.kind = "update" /\ ~Locked(t)
    /\ Cardinality(Unused) >= 2
    /\ period.from < period.to /\ period.price > 0
    /\ q.list # Null =>
        /\ DOMAIN q.list.named \subseteq Nameable(t)
        /\ \A p \in DOMAIN q.list.named : q.list.named[p].from < q.list.named[p].to
        /\ q.list.added # Null => ValidOffer(q.list.added)
        /\ ValidPrices(Over(rows, pricing), t, period)
    /\ req' = [req EXCEPT ![r] = Written(t, q.own, period, rows)]
    /\ UNCHANGED pricingVars

\* The write of the row of the event it names, and the commit.  Requests that have looked at
\* the prices before no longer know them.
FinishType(r) ==
    LET q == req[r] IN
    /\ q.kind = "priced"
    /\ type' = [type EXCEPT ![q.type] = q.row]
    /\ pricing' = Over(q.rows, pricing)
    /\ used' = [p \in Rows |-> IF pricing'[p] = Null THEN "no" ELSE used[p]]
    /\ cache' = IF q.own THEN [min |-> q.min, max |-> q.max, stale |-> ~q.clean]
                ELSE [cache EXCEPT !.stale = TRUE]
    /\ req' = [s \in Requests |->
                IF s = r THEN Done
                ELSE IF s \in BeingPriced THEN [req[s] EXCEPT !.clean = FALSE] ELSE req[s]]

\* Lists that name what the organizer has seen in the type.  Bound: under another
\* event's id a request changes the type and leaves its list.
ListsFor(t, own) ==
    IF own
    THEN {Null} \cup
         [named : UNION {[S -> Offers] : S \in SUBSET OfType(pricing, t, "Published")},
          added : Offers \cup {Null}]
    ELSE {Null}

CartStep ==
    \E p \in Rows :
        \/ Order(p) \/ Drop(p)
        \/ \E t \in Types : \E time \in 0 .. (IF type[t] = Null THEN 0 ELSE type[t].to) : Quote(t, time, p)

TypeStep ==
    \E r \in Requests, t \in Types :
        \/ \E period \in NewPeriods, offer \in Offers \cup {Null} : CreateType(r, t, period, offer)
        \/ \E own \in BOOLEAN, set \in TypeChanges : \E list \in ListsFor(t, own) :
            StartType(r, t, own, set, list)

-----------------------------------------------------------------------------
(* Properties.                                                             *)

\* At every time at which tickets of a type are on sale a cart finds exactly one
\* price for them: no two published periods meet, and one default fills the gaps,
\* after any changes by requests that saw the type before each other's changes.
PriceIsDetermined ==
    \A t \in Types : type[t] # Null =>
        \A time \in type[t].from .. type[t].to - 1 : Cardinality(OnlinePrices(t, time)) = 1

\* The event shows the cheapest and the dearest of its prices since the last
\* request about one of its types, unless that one came under another event's id,
\* or had looked before another changed a price: the types' locks do not keep
\* requests about two types apart.
CacheIsTrue ==
    ~cache.stale => cache.min = CachedMin(pricing) /\ cache.max = CachedMax(pricing)

\* What carts are asked to pay and what the event shows come from one list of
\* prices, whichever requests have edited it under the event's own id.
PricesAgree == PriceIsDetermined /\ CacheIsTrue

\* "to preserve the purchase history": a default or withdrawn price that an
\* order item refers to is there as it was sold.
PurchaseHistoryKept ==
    [][\A p \in Rows :
        /\ used[p] = "ordered" /\ pricing[p].status # "Published"
        => pricing'[p] # Null /\ pricing'[p].price = pricing[p].price]_<<type, pricing>>
=============================================================================
