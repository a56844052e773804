------------------------------- MODULE Refunds -------------------------------
(***************************************************************************)
(* Refunds of paid orders: Order::refund (models/orders.rs), the items and *)
(* refunded_tickets rows it writes, and the handler of controllers/        *)
(* orders.rs, which then moves the tokens, has the provider pay back and   *)
(* commits.  A request is one transaction at READ COMMITTED: req[r] holds  *)
(* what it has read and what it has written but not committed; a row it    *)
(* has written is locked until it ends.                                    *)
(*                                                                         *)
(* An order is of one event: lines of type Tickets, the PerUnitFees of     *)
(* those that are charged, and one EventFees item.  It was paid in full by *)
(* one payment.  An item is named by its type and its line or order.       *)
(***************************************************************************)
EXTENDS Integers, FiniteSets, FiniteSetsExt

CONSTANTS
    Requests,       \* refund requests
    Orders, Lines,  \* orders, and their items of type Tickets
    OrderOf,        \* Lines -> Orders
    Quantity,       \* Lines -> tickets in the line
    Charged,        \* the lines with a PerUnitFees item
    Tickets,        \* ticket instances, of one type and so of one asset
    Price,          \* unit_price_in_cents of each type of item
    Org,            \* the organization's wallet; a user's is named by the order
    Faults,         \* the faults that may strike, a subset of FaultKinds
    MaxItems,       \* bound of the refund items in a request
    Null

FaultKinds == {"provider", "answer", "tokens", "crash"}
Types == {"Tickets", "PerUnitFees", "EventFees"}

ASSUME LineAssumption ==
    /\ OrderOf \in [Lines -> Orders] /\ Charged \subseteq Lines
    /\ Quantity \in [Lines -> Nat \ {0}] /\ Price \in [Types -> Nat]
    /\ \A o \in Orders : \E l \in Lines : OrderOf[l] = o
ASSUME FiniteAssumption ==
    /\ IsFiniteSet(Requests) /\ IsFiniteSet(Orders)
    /\ IsFiniteSet(Lines) /\ IsFiniteSet(Tickets) /\ MaxItems \in Nat
ASSUME NameAssumption ==
    /\ Org \notin Orders
    /\ Null \notin Orders \cup Lines \cup Tickets
ASSUME RefundFaultAssumption == Faults \subseteq FaultKinds

FeeOf(l) == <<"PerUnitFees", l>>
EventFee(o) == <<"EventFees", o>>

Items ==
    {<<"Tickets", l>> : l \in Lines} \cup {FeeOf(l) : l \in Charged}
      \cup {EventFee(o) : o \in Orders}

OrderOfItem(i) == IF i[1] = "EventFees" THEN i[2] ELSE OrderOf[i[2]]
QuantityOf(i) == IF i[1] = "EventFees" THEN 1 ELSE Quantity[i[2]]
ItemsOf(o) == {i \in Items : OrderOfItem(i) = o}

VARIABLES
    sold,       \* the orders that exist; all are Paid
    ticket,     \* committed ticket_instances: status, line (of its order item), wallet
    members,    \* the tickets each line was sold with
    used,       \* the tickets that were redeemed at some time
    refunded,   \* committed refunded_quantity of each item
    record,     \* committed refunded_tickets: what each row marks as refunded
    back,       \* the refunds in the payments of each order, in cents
    out,        \* what the provider has paid back for each order
    chain,      \* the wallet that holds each ticket's token
    req,        \* the requests
    past        \* what has happened so far: "overlap", and the faults that struck

vars == <<sold, ticket, members, used, refunded, record, back, out, chain, req, past>>

Marks == {"none", "fee", "ticket"}      \* what has a date; a ticket's mark includes its fee's
RowIds == Tickets \X Requests \X (1..MaxItems)

TicketRows ==
    [status : {"Available", "Purchased", "Redeemed"}, line : Lines \cup {Null},
     wallet : Orders \cup {Org}]

Stages == {"idle", "open", "checked", "freed", "paying", "moved", "paid",
           "done", "refused", "already", "crashed"}
Ended == {"done", "refused", "already", "crashed"}

Nothing == [k \in {} |-> Null]
\* What f holds, and where it holds nothing what g does.
Over(f, g) == [k \in DOMAIN f \cup DOMAIN g |-> IF k \in DOMAIN f THEN f[k] ELSE g[k]]
Put(k, v, f) == Over([j \in {k} |-> v], f)

NoRequest ==
    [stage |-> "idle", order |-> Null, count |-> 0, named |-> {}, due |-> 0, given |-> 0,
     \* the tokens that were sent to the organization, and the wallet they came from
     moved |-> {}, from |-> Org,
     \* the item being refunded and what was read of it
     item |-> Null, ticket |-> Null, line |-> Null, redeemed |-> FALSE, row |-> Null,
     mark |-> "none", withFee |-> FALSE, saw |-> 0, sawFee |-> 0, last |-> FALSE,
     \* uncommitted writes
     items |-> Nothing, rows |-> Nothing, tickets |-> Nothing]

TypeOK ==
    /\ sold \subseteq Orders
    /\ ticket \in [Tickets -> TicketRows]
    /\ members \in [Lines -> SUBSET Tickets] /\ used \subseteq Tickets
    /\ DOMAIN refunded = Items /\ \A i \in Items : refunded[i] \in 0..QuantityOf(i)
    /\ \A k \in DOMAIN record : k \in RowIds /\ record[k] \in Marks
    /\ back \in [Orders -> Nat] /\ out \in [Orders -> Nat]
    /\ chain \in [Tickets -> Orders \cup {Org}]
    /\ past \subseteq {"overlap"} \cup FaultKinds
    /\ DOMAIN req = Requests
    /\ \A r \in Requests :
          /\ req[r].stage \in Stages /\ req[r].order \in Orders \cup {Null}
          /\ req[r].item \in Items \cup {Null} /\ req[r].count \in 0..MaxItems
          /\ req[r].named \subseteq Tickets /\ req[r].moved \subseteq Tickets
          /\ req[r].from \in Orders \cup {Org}
          /\ DOMAIN req[r].items \subseteq Items
          /\ \A i \in DOMAIN req[r].items : req[r].items[i] \in 1..QuantityOf(i)
          /\ \A k \in DOMAIN req[r].rows : k \in RowIds /\ req[r].rows[k] \in Marks
          /\ \A t \in DOMAIN req[r].tickets : t \in Tickets /\ req[r].tickets[t] \in TicketRows

Init ==
    /\ sold = {}
    /\ ticket = [t \in Tickets |-> [status |-> "Available", line |-> Null, wallet |-> Org]]
    /\ members = [l \in Lines |-> {}]
    /\ used = {}
    /\ refunded = [i \in Items |-> 0]
    /\ record = Nothing
    /\ back = [o \in Orders |-> 0]
    /\ out = [o \in Orders |-> 0]
    /\ chain = [t \in Tickets |-> Org]
    /\ req = [r \in Requests |-> NoRequest]
    /\ past = {}

-----------------------------------------------------------------------------
(* Transactions.                                                           *)

Open(r) == req[r].stage \notin {"idle"} \cup Ended
Others(r) == Requests \ {r}

ItemLocked(i, r) == \E q \in Others(r) : i \in DOMAIN req[q].items
RowLocked(k, r) == \E q \in Others(r) : k \in DOMAIN req[q].rows
TicketLocked(t, r) == \E q \in Others(r) : t \in DOMAIN req[q].tickets

\* What a request sees: its own writes over what is committed.
SeenItems(r) == Over(req[r].items, refunded)
SeenRows(r) == Over(req[r].rows, record)
SeenTickets(r) == Over(req[r].tickets, ticket)

RowsOf(t, rows) == {k \in DOMAIN rows : k[1] = t}

Ends(r, stage) ==
    req' = [req EXCEPT ![r] = [NoRequest EXCEPT !.stage = stage, !.order = req[r].order]]

Untouched == UNCHANGED <<sold, ticket, members, used, refunded, record, back, out, chain, past>>

Refuse(r) == Ends(r, "refused") /\ Untouched

-----------------------------------------------------------------------------
(* The order's tickets before and beside the refunds.                      *)

\* reserve_tickets.sql: a row that is free, or that was redeemed and whose
\* reservation has lapsed.
CanBeTaken(t) ==
    /\ ticket[t].line = Null \/ ticket[t].status = "Redeemed"
    /\ \A r \in Requests : t \notin DOMAIN req[r].tickets

\* A checkout: the lines get tickets, and their tokens are handed over from one
\* wallet, that of any of the tickets.
Sell(o) ==
    /\ o \notin sold
    /\ \E T \in [{l \in Lines : OrderOf[l] = o} -> SUBSET Tickets] :
          /\ \A l \in DOMAIN T :
                /\ Cardinality(T[l]) = Quantity[l]
                /\ \A m \in DOMAIN T \ {l} : T[l] \cap T[m] = {}
                /\ \A t \in T[l] : CanBeTaken(t)
          /\ LET taken == UNION {T[l] : l \in DOMAIN T}
             IN  \E f \in taken : \A t \in taken : chain[t] = ticket[f].wallet
          /\ ticket' = [t \in Tickets |->
                IF \E l \in DOMAIN T : t \in T[l]
                THEN [status |-> "Purchased", wallet |-> o,
                      line |-> CHOOSE l \in DOMAIN T : t \in T[l]]
                ELSE ticket[t]]
          /\ chain' = [t \in Tickets |-> IF \E l \in DOMAIN T : t \in T[l] THEN o ELSE chain[t]]
          /\ members' = Over(T, members)
    /\ sold' = sold \cup {o}
    /\ UNCHANGED <<used, refunded, record, back, out, req, past>>

\* At the door.
Redeem(t) ==
    /\ ticket[t].status = "Purchased"
    /\ \A r \in Requests : t \notin DOMAIN req[r].tickets
    /\ ticket' = [ticket EXCEPT ![t].status = "Redeemed"]
    /\ used' = used \cup {t}
    /\ UNCHANGED <<sold, members, refunded, record, back, out, chain, req, past>>

-----------------------------------------------------------------------------
(* Order::refund, one refund item after the other.                         *)

Begin(r, o) ==
    /\ req[r].stage = "idle" /\ o \in sold
    /\ req' = [req EXCEPT ![r].stage = "open", ![r].order = o]
    /\ past' = past \cup (IF \E q \in Others(r) : Open(q) THEN {"overlap"} ELSE {})
    /\ UNCHANGED <<sold, ticket, members, used, refunded, record, back, out, chain>>

\* find_or_create_by_ticket_instance takes any row there is of the ticket, and
\* inserts one in any case.
Candidates(r, t) ==
    LET new == <<t, r, req[r].count + 1>>
        old == RowsOf(t, SeenRows(r))
    IN  IF old = {} THEN {<<new, "none">>} ELSE {<<k, SeenRows(r)[k]>> : k \in old}

AlreadyRefunded(mark, i) == mark = "ticket" \/ (mark = "fee" /\ i[1] = "PerUnitFees")

CanNameNext(r, i) ==
    /\ req[r].stage = "open" /\ req[r].count < MaxItems
    /\ OrderOfItem(i) = req[r].order

\* The request, once a refund item of it has been read and checked.
Checking(r, i, t, c) ==
    LET seen == SeenTickets(r)[t]
    IN  [req[r] EXCEPT !.stage = "checked", !.count = @ + 1,
            !.named = @ \cup {t}, !.item = i, !.ticket = t,
            !.line = seen.line, !.redeemed = seen.status = "Redeemed",
            !.row = c[1], !.mark = c[2],
            !.withFee = c[2] = "none" /\ i[1] = "Tickets" /\ i[2] \in Charged,
            !.saw = SeenItems(r)[i],
            !.rows = Put(<<t, r, req[r].count + 1>>, "none", @)]

\* An item of type Tickets or PerUnitFees, for any ticket: reads the item, the
\* ticket and its refunded_tickets row, and checks each of them.
CheckTicket(r, i, t) ==
    /\ CanNameNext(r, i) /\ i[1] # "EventFees"
    /\ LET seen == SeenTickets(r)[t]
       IN \/ seen.line = Null /\ Refuse(r)
          \/ /\ seen.line # Null
             /\ \E c \in Candidates(r, t) :
                  \/ AlreadyRefunded(c[2], i) /\ Ends(r, "already") /\ Untouched
                  \/ /\ ~AlreadyRefunded(c[2], i)
                     /\ seen.wallet # OrderOf[seen.line]         \* was_transferred
                     /\ Refuse(r)
                  \/ /\ ~AlreadyRefunded(c[2], i) /\ seen.wallet = OrderOf[seen.line]
                     /\ req' = [req EXCEPT ![r] = Checking(r, i, t, c)]
                     /\ Untouched

\* Mutant: the number of rows released is not looked at.
CanReleaseAny(r) == TRUE

\* release_tickets.sql for this ticket: a row that has changed or that is
\* locked is not released.
CanRelease(r) ==
    LET t == req[r].ticket
    IN  /\ ~TicketLocked(t, r)
        /\ SeenTickets(r)[t].line = req[r].line
        /\ SeenTickets(r)[t].status = "Purchased"

\* The request, once the row is marked and the ticket released.
Freeing(r) ==
    LET t == req[r].ticket  i == req[r].item
    IN  [req[r] EXCEPT !.stage = "freed",
            !.rows = Put(req[r].row, IF i[1] = "Tickets" THEN "ticket" ELSE "fee", @),
            !.tickets = IF req[r].redeemed THEN @
                        ELSE Put(t, [SeenTickets(r)[t] EXCEPT !.status = "Available",
                                                              !.line = Null], @),
            !.sawFee = IF req[r].withFee THEN SeenItems(r)[FeeOf(i[2])] ELSE 0]

\* mark_refunded, the release of a ticket that was not redeemed, and the reads
\* and checks of refund_one_unit.
Free(r) ==
    LET i == req[r].item
        fee == SeenItems(r)[FeeOf(i[2])]
    IN  /\ req[r].stage = "checked"
        /\ ~RowLocked(req[r].row, r)
        /\ \/ /\ \/ ~req[r].redeemed /\ ~CanRelease(r)
                 \/ req[r].saw = QuantityOf(i)
                 \/ req[r].withFee /\ fee = QuantityOf(FeeOf(i[2]))
              /\ Refuse(r)
           \/ /\ req[r].redeemed \/ CanRelease(r)
              /\ req[r].saw # QuantityOf(i)
              /\ req[r].withFee => fee # QuantityOf(FeeOf(i[2]))
              /\ req' = [req EXCEPT ![r] = Freeing(r)]
              /\ Untouched

\* Mutant: a fee that has been refunded may be refunded again.
CheckEventFeeAgain(r, i, t) ==
    /\ CanNameNext(r, i) /\ i[1] = "EventFees"
    /\ req' = [req EXCEPT ![r] =
          [req[r] EXCEPT !.stage = "freed", !.count = @ + 1, !.item = i,
              !.named = @ \cup ({t} \ {Null}), !.withFee = FALSE, !.saw = SeenItems(r)[i]]]
    /\ Untouched

\* The order's fee, named as a refund item, with a ticket or without one.
CheckEventFee(r, i, t) ==
    /\ CanNameNext(r, i) /\ i[1] = "EventFees"
    /\ \/ SeenItems(r)[i] = QuantityOf(i) /\ Refuse(r)
       \/ /\ SeenItems(r)[i] # QuantityOf(i)
          /\ req' = [req EXCEPT ![r] =
                [req[r] EXCEPT !.stage = "freed", !.count = @ + 1, !.item = i,
                    !.named = @ \cup ({t} \ {Null}), !.withFee = FALSE, !.saw = SeenItems(r)[i]]]
          /\ Untouched

\* Mutant: the fee's item is paid for and not written.
WrittenWithoutFee(r) == {req[r].item}

\* The writes of refund_one_unit, the fee's first: absolute quantities, from
\* what was read.
Written(r) ==
    IF req[r].withFee
    THEN {req[r].item, FeeOf(req[r].item[2])} ELSE {req[r].item}

\* Mutant: the fee's unit is written and not paid for.
DueWithoutFee(r) == Price[req[r].item[1]]

Due(r) == Price[req[r].item[1]] + IF req[r].withFee THEN Price["PerUnitFees"] ELSE 0

TakeUnit(r) ==
    /\ req[r].stage = "freed"
    /\ \A i \in Written(r) : ~ItemLocked(i, r)
    /\ req' = [req EXCEPT ![r] =
          [req[r] EXCEPT !.stage = IF req[r].last THEN "paying" ELSE "open",
              !.items = Over([i \in Written(r) |->
                  IF i = req[r].item THEN req[r].saw + 1 ELSE req[r].sawFee + 1], @),
              !.due = @ + Due(r)]]
    /\ Untouched

\* Mutant: the query does not see the writes of its own request.
FeeIsLeftBefore(r) ==
    LET fee == EventFee(req[r].order)
    IN  /\ refunded[fee] # QuantityOf(fee)
        /\ \A i \in ItemsOf(req[r].order) :
              i[1] # "EventFees" => refunded[i] = QuantityOf(i)

\* event_fee_items_with_no_associated_items: the order's fee goes back when
\* nothing else of the order is left.
FeeIsLeft(r) ==
    LET fee == EventFee(req[r].order)
    IN  /\ SeenItems(r)[fee] # QuantityOf(fee)
        /\ \A i \in ItemsOf(req[r].order) :
              i[1] # "EventFees" => SeenItems(r)[i] = QuantityOf(i)

FindEventFees(r) ==
    LET fee == EventFee(req[r].order)
    IN  /\ req[r].stage = "open" /\ req[r].count > 0
        /\ \/ /\ FeeIsLeft(r)
              /\ req' = [req EXCEPT ![r] =
                    [req[r] EXCEPT !.stage = "freed", !.item = fee, !.last = TRUE,
                        !.withFee = FALSE, !.saw = SeenItems(r)[fee]]]
           \/ ~FeeIsLeft(r) /\ req' = [req EXCEPT ![r].stage = "paying"]
        /\ Untouched

-----------------------------------------------------------------------------
(* The rest of the handler.                                                *)

\* Tickets named in the request that a refunded_tickets row marks as refunded.
Returned(r) ==
    {t \in req[r].named : \E k \in RowsOf(t, SeenRows(r)) : SeenRows(r)[k] = "ticket"}

\* The wallet all the tokens are sent from is that of the ticket found first.
Senders(r) ==
    IF Returned(r) = {} THEN {Org} ELSE {SeenTickets(r)[t].wallet : t \in Returned(r)}

\* Their tokens and rows go to the organization's wallet.
MoveTokens(r) ==
    /\ req[r].stage = "paying"
    /\ \A t \in Returned(r) : ~TicketLocked(t, r)
    /\ \E w \in Senders(r) :
          /\ \A t \in Returned(r) : chain[t] = w
          /\ req' = [req EXCEPT ![r] =
                [req[r] EXCEPT !.stage = "moved", !.moved = Returned(r), !.from = w,
                    !.tickets = Over([t \in Returned(r) |->
                                    [SeenTickets(r)[t] EXCEPT !.wallet = Org]], @)]]
    /\ chain' = [t \in Tickets |-> IF t \in Returned(r) THEN Org ELSE chain[t]]
    /\ UNCHANGED <<sold, ticket, members, used, refunded, record, back, out, past>>

\* The transfer fails, as it does when the sender has not got all of the tokens.
TokensRefused(r) ==
    /\ req[r].stage = "paying" /\ Returned(r) # {}
    /\ "tokens" \in Faults \/ \E w \in Senders(r) : \E t \in Returned(r) : chain[t] # w
    /\ Refuse(r)

Worth(o, quantity) ==
    SumFunctionOnSet([i \in Items |-> quantity[i] * Price[i[1]]], ItemsOf(o))
Paid(o) == Worth(o, [i \in Items |-> QuantityOf(i)])

\* What is paid back of the one payment.  A negative balance is no bound: it
\* is cast to an unsigned number.
Amount(r) ==
    LET balance == Paid(req[r].order) - back[req[r].order]
    IN  IF balance < 0 THEN req[r].due ELSE Min({req[r].due, balance})

AsksProvider(r) == Paid(req[r].order) # back[req[r].order]

\* Mutant: the error path leaves the tokens where they are.
KeepTokens(r, fault) == past' = past \cup fault /\ UNCHANGED chain

\* The error path: the tokens go back to where they came from, if that succeeds.
GiveTokensBack(r, fault) ==
    \/ /\ chain' = [t \in Tickets |-> IF t \in req[r].moved THEN req[r].from ELSE chain[t]]
       /\ past' = past \cup fault
    \/ /\ "tokens" \in Faults /\ req[r].moved # {}
       /\ past' = past \cup fault \cup {"tokens"}
       /\ UNCHANGED chain

\* Mutant: the provider is asked for the whole charge back.
ProviderPaysAll(r) ==
    out' = IF AsksProvider(r) THEN [out EXCEPT ![req[r].order] = Paid(req[r].order)] ELSE out

ProviderPays(r) ==
    out' = IF AsksProvider(r) THEN [out EXCEPT ![req[r].order] = @ + Amount(r)] ELSE out

PayBack(r) ==
    /\ req[r].stage = "moved" /\ Amount(r) >= req[r].due
    /\ ProviderPays(r)
    /\ req' = [req EXCEPT ![r].stage = "paid", ![r].given = Amount(r)]
    /\ UNCHANGED <<sold, ticket, members, used, refunded, record, back, chain, past>>

\* "Unable to refund amount owed", found after the provider has paid.
PayTooLittle(r) ==
    /\ req[r].stage = "moved" /\ Amount(r) < req[r].due
    /\ ProviderPays(r)
    /\ GiveTokensBack(r, {})
    /\ Ends(r, "refused")
    /\ UNCHANGED <<sold, ticket, members, used, refunded, record, back>>

ProviderRefuses(r) ==
    /\ "provider" \in Faults
    /\ req[r].stage = "moved" /\ AsksProvider(r)
    /\ GiveTokensBack(r, {})
    /\ Ends(r, "refused")
    /\ UNCHANGED <<sold, ticket, members, used, refunded, record, back, out>>

\* The provider pays back but its answer is lost: an error like any other.
AnswerLost(r) ==
    /\ "answer" \in Faults
    /\ req[r].stage = "moved" /\ AsksProvider(r)
    /\ ProviderPays(r)
    /\ GiveTokensBack(r, {"answer"})
    /\ Ends(r, "refused")
    /\ UNCHANGED <<sold, ticket, members, used, refunded, record, back>>

\* log_refund and the commit.
Commit(r) ==
    /\ req[r].stage = "paid"
    /\ ticket' = SeenTickets(r)
    /\ refunded' = SeenItems(r)
    /\ record' = SeenRows(r)
    /\ back' = [back EXCEPT ![req[r].order] = @ + req[r].given]
    /\ Ends(r, "done")
    /\ UNCHANGED <<sold, members, used, out, chain, past>>

\* The process or its connection dies: PostgreSQL rolls back.
Crash(r) ==
    /\ "crash" \in Faults /\ req[r].stage \in {"moved", "paid"}
    /\ past' = past \cup {"crash"}
    /\ Ends(r, "crashed")
    /\ UNCHANGED <<sold, ticket, members, used, refunded, record, back, out, chain>>

\* PostgreSQL ends a circle of waits by refusing one of the statements in it.
WaitsFor(r, q) ==
    /\ q # r
    /\ \/ /\ req[r].stage = "freed"
          /\ \E i \in Written(r) : i \in DOMAIN req[q].items
       \/ req[r].stage = "checked" /\ req[r].row \in DOMAIN req[q].rows
       \/ req[r].stage = "paying" /\ \E t \in Returned(r) : t \in DOMAIN req[q].tickets

Deadlocked(r) ==
    \E S \in SUBSET Requests :
        /\ r \in S
        /\ \A s \in S : (\E q \in S : WaitsFor(s, q)) /\ (\E q \in S : WaitsFor(q, s))

BreakDeadlock(r) == Deadlocked(r) /\ Refuse(r)

-----------------------------------------------------------------------------
Step(r) ==
    \/ \E i \in Items :
          \/ \E t \in Tickets : CheckTicket(r, i, t)
          \/ \E t \in Tickets \cup {Null} : CheckEventFee(r, i, t)
    \/ Free(r)
    \/ TakeUnit(r)
    \/ FindEventFees(r)
    \/ MoveTokens(r)
    \/ TokensRefused(r)
    \/ PayBack(r)
    \/ PayTooLittle(r)
    \/ ProviderRefuses(r)
    \/ AnswerLost(r)
    \/ Commit(r)
    \/ Crash(r)
    \/ BreakDeadlock(r)

Next ==
    \/ \E o \in Orders : Sell(o)
    \/ \E t \in Tickets : Redeem(t)
    \/ \E r \in Requests : Step(r) \/ \E o \in Orders : Begin(r, o)

Spec == Init /\ [][Next]_vars

-----------------------------------------------------------------------------
Alone == "overlap" \notin past
Quiet == \A r \in Requests : ~Open(r)

\* One request after the other, the ledger and the items tell the same: what
\* was paid back is the price of the units refunded (orders.rs, refund; the
\* handler's log_refund).
BooksAgree == Alone => \A o \in Orders : back[o] = Worth(o, refunded)

\* However requests overlap, no unit counts as refunded that was not paid for.
NothingUnpaid == \A o \in Orders : back[o] >= Worth(o, refunded)

\* Once everything else of an order has been refunded its fee has been, too,
\* unless two requests met (event_fee_items_with_no_associated_items).
EventFeeFollows ==
    Alone => \A o \in Orders :
        (\A i \in ItemsOf(o) : i[1] # "EventFees" => refunded[i] = QuantityOf(i))
        => refunded[EventFee(o)] = 1

\* The order's own books: rows, items, fees and what was paid back agree after
\* any sequence of refunds.
LedgerAgrees == TypeOK /\ BooksAgree /\ EventFeeFollows

\* Every unit that is left can still be refunded for money that is left: one
\* request after the other, the provider never pays for a request that is then
\* rolled back ("Unable to refund amount owed"), unless its answer was lost or
\* the server died.
MoneyAgrees ==
    /\ \A o \in Orders : out[o] >= back[o]
    /\ Alone /\ Quiet /\ past \cap {"answer", "crash"} = {} => out = back

\* The tokens are where the database says, once no request is under way, if
\* none was left half-way by a crash or a token that could not be given back.
TokensFollow ==
    Quiet /\ past \cap {"tokens", "crash"} = {} =>
        \A t \in Tickets : chain[t] = ticket[t].wallet

\* What the outside did, which no rollback undoes, is what the database says
\* it did: the provider's money and the tokens' wallets.
OutsideAgrees == MoneyAgrees /\ TokensFollow

\* However requests overlap, a ticket that was never redeemed is refunded at most
\* once for every line it was sold in: its release needs the row as it was sold.
TicketRefunds(t) == Cardinality({k \in RowsOf(t, record) : record[k] = "ticket"})
Sales(t) == Cardinality({l \in Lines : t \in members[l]})

OncePerSale == \A t \in Tickets \ used : TicketRefunds(t) <= Sales(t)

\* "Already refunded" (orders.rs, refund): one request after the other, no
\* ticket is refunded twice for one sale.
AlreadyRefundedIsRefused == Alone => \A t \in Tickets : TicketRefunds(t) <= Sales(t)
=============================================================================
