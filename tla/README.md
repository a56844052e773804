# A TLA+ model of bn-api

bn-api sells tickets: users fill a cart with ticket instances, pay at a card
provider, receive the tickets in a wallet, transfer them, and have them redeemed
at the door; organizers set tickets aside in holds, change capacities and refund.
The program is an actix-web server (`api/`) over a model layer on PostgreSQL
(`db/`). This directory models the parts in which requests meet: what they share
is the database, and what goes wrong goes wrong between two statements.

## The system

| Component | State | Operations |
|---|---|---|
| Ticket instances (`db/src/models/ticket_instances.rs`, `db/src/queries/*.sql`) | a row per ticket: status, order item, `reserved_until`, hold, wallet, redeem key, transfer key | reserve, release, keep, purchase, redeem, nullify, move between holds, authorize and receive a transfer |
| Carts and orders (`orders.rs`, `order_items.rs`) | status, version, `expires_at`, items with quantity, price, fees | find or create the cart, `update_quantities`, `update_fees`, payments, refund |
| Users (`users.rs`) | `last_cart_id`, `updated_at` | `update_last_cart` |
| Payments (`payments.rs`, `stripe/`) | status of each payment; the provider's charge | authorize, capture, refund, mark complete |
| Refunds (`refunded_tickets.rs`, `controllers/orders.rs`) | which ticket and which fee has been refunded | `Order::refund`, then wallets and provider |
| Holds and comps (`holds.rs`) | `hold_id` of the rows; parent, code, type and discount of the hold | create, split, comp, update with a new quantity, delete |
| Codes (`codes.rs`, `ticket_type_codes.rs`) | word, type, discount, ticket types | create, update, delete |
| Ticket types and pricing (`ticket_types.rs`, `ticket_pricing.rs`) | status, dates, capacity, price periods | create, update, cancel |
| Events (`events.rs`, `event_artists.rs`) | status, publish date, venue, line-up, cached prices, the provider's list | create, update, publish, unpublish, cancel, set the line-up |
| Artists, venues, stages (`artists.rs`, `venues.rs`, `stages.rs`) | organization and privacy of each; a stage's venue | create, update, toggle privacy, give to an organization, delete a stage |
| People and organizations (`users.rs`, `external_logins.rs`, `organization_users.rs`, `organization_invites.rs`, `scopes.rs`) | address of each account, external logins, memberships with their role, invites | register in five ways, change the address, invite, accept, decline, add, remove |
| Sessions (`auth/`, `password_resetable.rs`) | password and when it changed, the reset link; tokens that carry their own claims | log in, refresh, ask for a link, reset |
| Domain actions (`domain_actions.rs`, `domain_events/`) | a queue of actions with attempts and a busy-until time | find pending, set busy, done, failed, errored |
| Regions, assets, reports, fans, messages, utilities | see `PROJECT.json` | rows without a protocol, queries, clients of outside services |

Each HTTP request is one transaction. `db/connection.rs` begins it when the
handler first asks for a connection; `middleware/database_transaction.rs` ends
it: rolled back if the response carries an error, committed otherwise. The
isolation level is PostgreSQL's default, READ COMMITTED: each statement sees what
is committed when it starts, and a write waits for the row's lock. `now()` in a
query is the start of the transaction; `Utc::now()` in the code is the wall
clock. Only two handlers commit half-way: the card checkout between
authorization and capture (`controllers/cart.rs:558`) and the refund after each
provider call (`controllers/orders.rs:303`).

Against races the code has four devices, and each is modelled as it is: the
`version` of the order (`lock_version`), `updated_at` compared by
`update_last_cart` and by the ticket transfers, `FOR UPDATE SKIP LOCKED` in the
queries, and conditions in the `WHERE` of an update.

What makes each component right, and how it can go wrong, is the list of
`hazards` in `PROJECT.json`; in short:

- Tickets: a live cart keeps what it reserved, a sold ticket is never sold again
  or moved, a transfer is whole and consented to.
- Carts and payments: one cart in use per user, one charge per cart, money and
  order agree after every failure, nobody waits for ever.
- Refunds: once per ticket and per fee, to the buyer, no more than was paid.
- Holds: the quantity of a hold is the number of tickets in it; a comp never
  takes more than its parent has.
- Stock: as many tickets are issued, and set aside, as was last asked for; a
  word that a customer types means one hold or one code.
- Prices: at every moment of its sale a ticket has one price, and what was sold
  keeps its price whatever is edited afterwards.
- Events: a published event has its date and line-up, and its background work
  goes on, once, until it is over.
- Places: what belongs to an organization is seen and changed by its people.
- Accounts: an address finds one person, a person has one membership, an invite
  is answered once, and only an administrator makes an owner.
- Sessions: a new password ends the sessions of the old one and no others; the
  last link mailed works, once.
- Domain actions: every action is executed, by one worker at a time, at most
  the allowed number of times.

## Modules

`TicketRows` is one row of `ticket_instances`: what every SQL statement tests
of it and writes to it. `TicketInstances` and `CartCheckout` are built from it, so a
condition of a query is written once.

`TicketInstances` is the life of the tickets of one ticket type. Its actions are the
functions of the model layer as other requests see them; a function that reads a
row, decides, and later writes is two actions (`RedeemRead` / `RedeemWrite`,
`AuthorizeRead` / `AuthorizeWrite` / `AuthorizeAbort`, `ReceiveRead` / ...,
`RefundRead` / ..., `MarkOrder` / `MarkTickets`). The order is represented by one
item of type Tickets: its status, expiry and quantity are in `line`. A refund names
an item of its order and any ticket at all, since the code compares the two with the
order and not with each other; it remembers which item that ticket was sold to
(`refund`), releases the row by that, and counts as a refund of the order it was
made for (`refunds`). `updated_at` is not a number: a row remembers which requests
have read its present value (`readers`), and a write that sets `updated_at` forgets
them, which is all the comparison in the code can tell.

`CartCheckout` takes the cart's requests apart into statements. `tx[r]` is what
request `r` has read and what it has written but not committed; `order`, `user`,
`row` and `pay` are what is committed; `charge[r]` is what the provider knows. A
row that a transaction has written is locked until it ends; `reserve_tickets.sql`
and `release_tickets.sql` skip locked rows and the other statements wait. The
constant `Faults` says which of the outside world's faults may happen: the
process dies (`crash`), the capture is refused (`capture`), the token transfer
fails (`tokens`), the provider refuses the refund (`refund`). `Kinds` are the
requests of an instance: updates, and checkouts by card, by an external payment or
free. The amount of a payment is what the client sends: the requests in `Short`
send less than the total. `FreeOrders` are the orders whose total is zero.
`complete_if_fully_paid` compares what was paid with the total (`Covered`) and
otherwise leaves the order PartiallyPaid, after which the checkout goes on as if
nothing were missing (`Complete`).

`DomainActions` is the queue of background work and the monitors that execute
it. `action` is the table; `monitor[m]` is where process `m` is in its round and
what it has read; `job[c]` is what a pooled connection is used for: an action
that is being checked out, an executor that is made, one that runs, or nothing.
A monitor works outside of transactions, so `set_busy` is two steps (`Look` or
`Skip`, then `Take`). An executor's writes, its successor actions included, are
committed with `set_done`; `effects` counts these commits. A dropped future
neither commits nor rolls back: its connection is `left` in the pool with the
transaction open. `Draining` are the processes started with `run-til-empty`.

`Refunds` is `Order::refund` and the handler around it. `ticket`, `refunded`
(the `refunded_quantity` of each item) and `record` (the `refunded_tickets` rows)
are committed; `req[r]` holds what request `r` has read, what it has written, and
so which rows it locks; `out` and `chain` are what the provider has paid back and
which wallet has each token, neither of which a rollback undoes. A request names
its refund items one after the other: `CheckTicket` or `CheckEventFee`, `Free`
(mark the record, release the ticket), `TakeUnit` (the quantities), then
`FindEventFees`, `MoveTokens`, the provider, `Commit`. Any item of the order, its
fee too, is named with any ticket, of this order or another. All tokens that a
request returns (`Returned`) are sent from one wallet, that of the ticket found first
(`Senders`), and are given back to it if the provider fails: `moved` and `from` are
what was sent, and from where. `Sell` and `Redeem` stand
for the checkout and the door; a checkout takes rows that are free, and redeemed
ones whose reservation has lapsed (`CanBeTaken`). `used` are the tickets that were
ever redeemed. `past` remembers whether two refunds were ever
open at once and which faults struck, for the properties that are promised only
otherwise. `Faults`: the provider refuses, its answer is lost, a token transfer
fails, the process dies.

`OrderLines` is the content of one user's cart: several ticket types, a hold,
changing prices. `db` is the committed order with its items (`line`, each with
its `PerUnitFees` item as `fee`; `eventFees`), `stock` the free tickets of each
pool, a type and a hold or none. `tx` is the same as the request sees it and
`req` what it was asked (`items`, whether `others` are removed), which items are
`used` and which lines are still to be visited. `Begin` compares the box office
flag and clears the cart if it changes; one action per branch of the loop over
the lines follows (`RemoveOther`, `LeaveOther`, `Keep`, `Reduce`, `Raise`,
`RaiseAtNewPrice`), `StartAdding`, `AddLine` for each item left, and `Finish`:
the limits, the expiry, the fees, the commit. `Refuse` is any validation that
fails and any lost connection. Organizers act at any moment: `ChangePrice`,
`ChangeHold`, `ChangeSchedule`; `changed` remembers what they changed under the
cart. One request at a time is enough, because `lock_version` is the first thing
`update_quantities` does; `CartCheckout` has the requests that meet.

`Sale` is what all this promises, without carts, clocks, holds or keys: an order
is paid once and takes its tickets in that moment, each sold to nobody else; a
sold ticket is used, or given back by a refund that names it (one refund, one
ticket, of whichever order), and nothing else ends its sale.
`TicketInstances` implements it (`ImplementsSale`): `sold` is the item of every
Purchased row, `paid` the Paid lines, `used` the Redeemed rows.

`Stock` is what organizers do to the tickets of one type: capacity
(`StartCapacity`, `Issue`, `Withdraw`), holds, comps and splits (`StartHold`, ...),
their updates and deletion, and codes, which share the holds' name space. A
request reads and validates (`Start...`), may take a row's lock (`LockHold`), and
writes (`Finish...`); others commit in between. `wanted` and `asked` remember what
the organizers asked for, if their requests did not overlap over one hold or the
capacity, `contested` the words that two requests claimed at once.

`OrganizerRequests` is what the next three share: requests made once, each a
transaction. `Pricing` has the prices of an event's types: `CreateType`, `StartType`
/ `WriteType` (the UPDATE, which locks the type's row and under that lock replaces
the default price and the named ones) / `FinishType` (the event's price cache and
the commit), and a cart that reads a price (`Quote`) and inserts an item with it
(`Order`) while the price may be edited. The handler finds the event and the type by
their own ids and does not ask whether they belong together, so an update may come
under another event's id (`own` is FALSE): it edits this event's type, and writes
the other event's cache (`stale` says that this event's was missed). `Places` has
artists, venues and stages: `entry` is who owns each, whether it is private and who
edited it last; `StartUpdate`, `StartToggle`, `StartAssign`, `StartStage`,
`StartRemoval` decide by the row as read, `FinishEntry` and `FinishStage` write by
its id. `Events` composes both with the event itself: publication, edits,
cancellation; the line-up, which one request clears and inserts anew and another
adds to, and from which a deleted stage removes what was on it (`Cascade`); and the
marketing actions (`job`) that publication enqueues: `CheckList`, `FinishList` of
CreateEventList, `FinishImport` of the fan import, which enqueues its successor,
`FailJob`, `Lapse`.

`Scopes` is the table of `scopes.rs`: what each role may do. `Accounts` has the five
ways an account comes about, `ChangeEmail`, external logins, invites and
memberships: `InviteRead` / `Invite`, `AcceptRead` / `AcceptMark` / `Join`,
`DestroyRead` / `Destroy`, `AddRead` / `Join`, `Remove`. What a request may do is
`HasScope` of the roles the database then holds. The handlers test each role of the
list they are sent, so an empty list (`NoRole`) is handed out by anybody who has
logged in (`MayHandOut`). `NewInvite` is a row as it is inserted; `FirstInvites` are
invites that an administrator may have sent before. `ChangeEmail` may also clear the
address. `joined` remembers who joined by
each invite, `raced` the invites and people that two requests dealt with at once,
and the addresses that two requests invited at once.

`Sessions` is one user's password with its links and tokens. A token is its
claims; the slow hashing lies between `LoginRead` and `LoginIssue`, `ResetRead` and
`ResetWrite`, `RefreshRead` and `RefreshIssue`. A step takes less than a second, so
any number fit between two ticks.

`MCTicketInstances`, `MCCartCheckout`, `MCDomainActions`, `MCRefunds`,
`MCOrderLines`, `MCStock`, `MCEvents`, `MCAccounts` and `MCSessions` give the
constants their small values. `TicketInstances_proofs`, `CartCheckout_proofs`,
`OrderLines_proofs`, `Refunds_proofs`, `DomainActions_proofs`, `Stock_proofs` and
`Events_proofs` hold the theorems about the modules they are named for,
`Users_proofs` those about `Accounts` and `Sessions`. Where a definition is followed
by one whose comment says `Mutant`, that is a plausible mistake in the same code,
which the properties of its run detect; no specification uses it.

Most modules end with their promises one by one and, below them, the
invariants that runs check, each a conjunction of promises on one subject:
`CartsAreWhole`, `MoneyAndOrderAgree`, `CartsAddUp`, `LedgerAgrees`,
`OutsideAgrees`, `StockIsAsAsked`, `CodesAreClear`, `PricesAgree`, `EventIsAsSent`,
`ImportsGoOn`, `PlacesAreKept`, `LookUpsAreUnique`, `InvitesTellTheTruth`,
`SessionsFollowThePassword`, `LastLinkWorksOnce`. The type invariant is a conjunct
of the first of each module, where a run checks it; those of `TicketInstances` and
`DomainActions` have theorems only.

| Model | Code |
|---|---|
| `Reserve`, `Release` | `Order::update_quantities` with `reserve_tickets.sql`, `release_tickets.sql`, `set_expiry`, `remove_expiry` |
| `MarkOrder`, `MarkTickets`, `Complete`, `Covered` | `mark_partially_paid`, `update_reserved_time`, `complete_if_fully_paid` with the amount of the handler |
| `AddToHold`, `ReleaseFromHold`, `Nullify` | `Hold::set_quantity`, `split`, the capacity change of `ticket_types::update` |
| `RedeemRead`, `RedeemWrite` | `redeem_ticket` |
| `Authorize*`, `Receive*` | `authorize_ticket_transfer`, `receive_ticket_transfer` |
| `RefundRead`, `RefundWrite`, `RefundAbort` | `Order::refund` and the wallet change in `controllers/orders.rs` |
| `CheckTicket`, `CheckEventFee`, `Free`, `TakeUnit`, `FindEventFees` | `Order::refund`, `find_or_create_by_ticket_instance`, `mark_refunded`, `refund_one_unit`, `event_fee_items_with_no_associated_items` |
| `MoveTokens`, `Returned`, `Senders`, `PayBack`, `GiveTokensBack`, ... | `refund` of `controllers/orders.rs` |
| `Find`, `Skip`, `Look`, `Take`, `EndRound` | `find_actions`, `set_busy`, `run_actions` |
| `Done`, `Failed`, `TimedOut` | `ExecutorFuture::poll`, `set_done`, `set_failed`, the 55 s time-out |
| `FindNothing`, `RunNext`, `NextRound` | `run_til_empty` |
| `Begin`, `RemoveOther` ... `AddLine` | `Order::update_quantities`, `clear_cart` |
| `Insert`, `PriceFor`, `CurrentPricing` | `NewTicketsOrderItem::commit`, `add_tickets`, `get_current_ticket_pricing` |
| `Finish`, `LineFee`, `Groups`, `EventFeesOf` | `update_fees` of `orders.rs` and of `order_items.rs`, `FeeSchedule::get_range` |
| `WithinLimit` | `quantity_for_user_for_event` |
| `StartHold`, `LockHold`, `FinishUpdate`, `FinishDestroy` | `NewHold::commit`, `Hold::split`, `Hold::create_comp_for_person`, `Hold::update`, `set_quantity`, `Hold::destroy` |
| `StartCapacity`, `Issue`, `Withdraw` | the capacity part of `update` in `controllers/ticket_types.rs`, `TicketInstance::create_multiple`, `nullify_tickets.sql` |
| `StartCode`, `FinishCode`, `UniqueCode` | `NewCode::commit`, `update_ticket_types`, `redemption_code_unique_per_event_validation` and the CHECKs of migration 41 |
| `CreateType`, `StartType`, `WriteType`, `FinishType`, `PricesReplaced` | `controllers/ticket_types.rs`, `TicketType::update`, `TicketPricing::update`, `destroy`, `validate`, `Event::update_cache` |
| `StartPublish` ... `FinishEdit` | `Event::publish`, `unpublish`, `update`, `cancel` and their handlers |
| `StartLineup`, `FinishLineup`, `AddArtist` | `update_artists`, `add_artist`, `EventArtist::clear_all_from_event` |
| `CheckList`, `FinishList`, `FinishImport` | `CreateEventListExecutor`, `BulkEventFanListImportExecutor` |
| `CreateEntry`, `StartUpdate`, `StartToggle`, `StartAssign`, `Listed` | `create`, `update`, `toggle_privacy`, `add_to_organization`, `all` of artists and venues |
| `InviteRead`, `Invite`, `Answered` | `create` of `organization_invites.rs`, `find_active_invite_by_email`, `change_invite_status` |
| `AcceptRead`, `AcceptMark`, `AddRead`, `Join` | `accept_request`, `add_or_replace_user`, `NewOrganizationUser::commit` |
| `NeededScope`, `HasScope`, `ScopesOf` | the handlers' checks, `check_scope_access`, `get_scopes` |
| `MailLink`, `ResetRead`, `ResetWrite`, `Refused` | `create_password_reset_token`, `update` of `password_resets.rs`, `consume_password_reset_token`, `token_refresh` |
| `Begin` ... `Commit` of `CartCheckout` | the handlers of `controllers/cart.rs` and the middleware |

## Runs

| Run | Instance | What it shows |
|---|---|---|
| `TicketSale` | 2 tickets, 2 orders of 2 users, an order fee, a hold and a comp hold in it, a scanner, clock to 2, cart and paid order 1 tick | live carts keep their tickets, reservations are exclusive, the whole implements `Sale` |
| `TicketTransfer` | 2 tickets, 2 orders, 2 users, 2 authorizations, clock to 3 | sales last; transfers are whole and consented to |
| `CartOneUser` | 3 requests of one user (updates; card, external and free checkouts), one of which makes a free order and pays less than it should, 2 tickets, all faults, clock to 2 | one charge, one cart, money follows the order |
| `CartTwoUsers` | 2 requests of one user, one of which pays too little, and 1 of another, who has a free order; updates, card and free checkouts, a ticket, provider faults, weak fairness, clock to 2 | live carts are whole, purchases last, every request ends |
| `ActionQueue` | 1 action, a server and a run-til-empty, 3 connections, 3 attempts, rounds as long as the busy time, pool and crash faults, clock to 6 | given up only after the failures; committed effects are final |
| `ActionOneProcess` | 2 actions, 1 server, 3 connections, round 1 + time-out 1 < busy 3, clock to 8 | one executor per action; what has ended stays |
| `Refunds` | 2 refund requests of up to 2 items, each with any ticket, an order of one line of two tickets with a fee each, another order that resells one of them, 2 tickets, all faults | items, ledger, provider, records and tokens agree; each sale of a ticket never redeemed is refunded once |
| `OrderLines` | 2 types of one event, a hold, 3 lines, requests of up to 2 items for the pairs that interact, 4 prices, 2 fee schedules, limit 2 per person on one type, increments of 2 on the other | lines, tickets, fees, limits and expiry agree after any sequence of requests and organizers' changes |
| `Stock` | a hold with a comp in it, one more hold, a code, 3 tickets of at most 5, 3 words of which two differ in case, 2 requests, customers | tickets, holds and capacity are as asked; codes are unambiguous; what customers hold stays in its hold |
| `Events` | 2 types, each edited under this event's id or another's, 3 offers, at most 5 prices of which carts use 1, 2 artists, 2 venues, 2 stages, 2 organizations with a member each and an administrator, at most 4 actions of 2 attempts; six starting situations: two requests about types, two about the event as a draft that can be published, three as one that cannot yet, two about the line-up or about places with one about stages, three about places | prices, publication, imports, line-up, privacy and rights survive overlapping requests |
| `Accounts` | an administrator and 2 people to come, 2 addresses that differ in case, an external login with one of them, an organization, 2 membership rows, 2 invites of which one may have been sent before, lists of roles that may be empty, 2 requests | look-ups are unique, owners are appointed, invites tell the truth |
| `Sessions` | 4 requests of one user, 2 links of 2 seconds, access tokens of 1 second, clock to 4 | what a change of password ends and what it leaves; links |

Why the bounds are enough: every race in the code is between two parties over one
row (two carts, two scanners, two receivers, a refund and a transfer), and each
instance has two of every party it is about; two tickets make "some but not all of
them" possible; the clocks run past the expiry of a cart and of a paid order, in
`TicketTransfer` also of those that began after the first tick, so that every
deadline can pass while a request is half-way. `CartOneUser` has a request that both
makes a free order and pays too little, beside two that do neither, so a free order
may be bought with the right amount and an order that is not free with too little.
Three requests let one finish a purchase while the other two race for the cart.
`TicketSale` and `TicketTransfer` switch deadlock checking off because a sale may
really come to an end: all tickets redeemed, nothing left to do. In `CartCheckout`
every state has a step (`Rest` when all is done), so a circle of lock waits would be
reported as a deadlock.

`Stock`, `Events`, `Accounts` and `Sessions` are about what a request has read when
another commits. Two requests make every pair meet; a third one, of another kind
or a third of the same, lets a race meet a request that began before or between.
Four requests of `Sessions` are two logins and two resets, or a refresh after both.
In `Accounts` an invite may have been sent before the first request, so two requests
may answer it, withdraw it or invite its address again, or each make an invite of
their own at once. Bounds there: administrators keep their accounts (`Others`).
A request is made once, so `Events`, `Accounts` and `Sessions` may come to rest.
The six starting situations of `Events` keep apart what does not interact: types
touch the event's row only in the cache, places touch the line-up only through
stages. Named bounds there: `MaxRows` prices, `MaxUsed` of them in carts (and
`PricesMayChange`: carts read while an edit is still to come), `MaxJobs` pending
actions, `AddedRanks` (the rank of an added artist), `Lineups` (lists of up to two
slots), `ListsFor` (under another event's id a request leaves the type's prices).

In `Refunds` every refund is one request; two let them overlap or one refund what
the other has put back on sale, or what the other order has bought, and two items
let a request meet its own writes, name the tickets of two wallets, and wait in a
circle. Both may have ended, so deadlock checking is off.

In `OrderLines` three lines let a type's line be split by a price and stand
beside the hold's; the event returns its lines in any order, so the hold's line
may separate the other two. A price period of the one type may end, which leaves
the default price, and the box office has a price of its own; a discounted
ticket is free at the lower price. Every cart may be left, so no state is
terminal.

In `DomainActions` the clock lets an action be tried, time out, be found again
and lapse; an action that has ended, or expired, leaves nothing to do, so
deadlock checking is off there too. `Limit` 0 makes a round of one action
possible beside one of two.

Fairness: `FairSpec` of `CartCheckout` assumes weak fairness of `Step(r)`, all
steps of a request once it has begun. The server polls a request that is ready,
and PostgreSQL grants a row lock when its holder's transaction ends. Nothing is
assumed of `Begin`, the clock, or crashes.

### Where the code and its words disagree

Three sentences of the repository are false of the code. Each is stated in its
module; TLC shows it to fail as the invariant of the configuration named:

- `PaidOrdersAreWhole` (`CartCheckout`, run `CartTwoUsers`): an order is paid for
  tickets it has just lost, since `mark_partially_paid` (`orders.rs:1014`) tests the
  expiry before `orders.rs:1048` extends the reservations
  (`db/tests/unit/ticket_instances.rs:360` counts the tickets of a paid order).
- `OneExecutorPerAction` with two servers (`ActionQueue` with `Draining = {}`): both
  execute one action at the same time. `set_busy` answers "Another process is busy
  with this action" by a read (`domain_actions.rs:122`); its update then compares
  `blocked_until` with the new value, not with what was read (`:127`).
- `AlreadyRefundedIsRefused` (`Refunds` with `Lines = {a}`, `Orders = {o1}`, `Faults
  = {}`; the invariants of the run hold of this instance too): requests that never
  overlap refund a redeemed ticket twice. `find_or_create_by_ticket_instance`
  inserts a second, empty row for a ticket that has one (`refunded_tickets.rs:56`:
  the argument of `unwrap_or` is always evaluated), and the next look-up may return
  that row.

More follow from the models: of sales and background work,

- `Order::refund` asks whether the item is the order's, and never whether the ticket
  is the item's (`orders.rs:160`); the handler's permissions follow the order's
  items (`controllers/orders.rs:108`). A refund of one order that names a ticket of
  another ends that ticket's sale: the ticket is on sale again, while the items of
  its own order still count it (`RefundRead`, `CheckTicket`). `SoldStaysSold` and
  `Sale` therefore promise that a sale is ended by a refund that names the ticket in
  this sale of it, and not that the refund is of the same order.
- A card checkout takes the amount that the client sends and never compares it with
  the total (`controllers/cart.rs:533`). With less, `complete_if_fully_paid` leaves
  the order PartiallyPaid (`orders.rs:1058`), the answer is 200, and the tokens are
  transferred and the mail is sent as if it were paid (`Complete`, `Covered`).
  `MoneyFollowsTheOrder` therefore promises a paid order only to a checkout that
  sends the total, and `PaidIsCharged` that an order which is Paid was paid for in
  full, or came to nothing.
- An order with a total of zero is Paid already when the card is authorized
  (`Covered`), before the capture.
- A ticket that is named with the order's fee has its wallet and token returned if it
  was refunded at any time, even when another order has bought it since
  (`controllers/orders.rs:131`, `Returned`).
- The tokens of one refund are all sent from one wallet per asset
  (`controllers/orders.rs:154`), so a refund of tickets that are in two wallets fails
  (`Senders`, `TokensRefused`).
- A redeemed ticket may be reserved and sold again once its reservation has lapsed
  (`reserve_tickets.sql:10`, `Takeable`, `CanBeTaken`). `OncePerSale` speaks of
  tickets that were never redeemed.
- Two scanners may both be told that they redeemed a ticket
  (`controllers/events.rs:491`, `RedeemRead`, `RedeemWrite`).
- When the price of a type in the cart changes and the user asks for more,
  `orders.rs:554` makes a second line that counts the whole quantity and reserves
  the difference. The cart then counts, and charges, more tickets than it holds,
  and cannot reduce, replace or clear that line until it expires
  (`RaiseAtNewPrice`; `LinesAreWhole` promises equality only for unchanged types).
- An event's fee is charged once per run of consecutive lines of one hold
  (`orders.rs:720`), so twice or more with a discounted hold in the cart, and
  how often depends on the order in which the database returns the lines
  (`Groups`; `EventFeeFollows` promises once only without holds).
- The limit per person counts tickets whose `reserved_until` is in the future:
  carts, and what was paid in the last day (`bought`).
- `max_per_order` and `end_at` of a hold are not looked at when tickets are added.
- A partially paid order's tickets are taken by another cart after a day, where
  `orders.rs:990` says only drafts expire (`Takeable`, `Reserve`).
- A refund takes a ticket that was transferred after the check of
  `orders.rs:186` (`RefundRead`, `ReceiveWrite`, `RefundWrite`).
- A request that takes longer than the cart has left may empty it and commit. It
  takes the expiry away (`orders.rs:659`), so the expired cart is in use again, beside
  the one its user has got in the meantime. This takes four requests, one more than
  the run has; the proof met it. `OneCartInUse` excepts these carts (`revived`).
- Two refunds that overlap may both pay for one unit: `refund_one_unit` writes
  the quantity it read plus one (`order_items.rs:67`, `TakeUnit`). `BooksAgree`
  therefore speaks of refunds one after the other, `NothingUnpaid` of all.
- The ticket of a resold line may be answered "Already refunded": the record is
  found by the ticket alone (`refunded_tickets.rs:47`, `Candidates`).
- Refunding the fee alone releases the ticket, which stays in the buyer's wallet
  (`orders.rs:196`, `Free`; `Returned` asks for the ticket's own mark).
- The loser of a race for an action may get `NoResults` from the update in place
  of the concurrency error, which ends its monitor for good (`Take`, second
  disjunct).
- A run-til-empty panics at the first action that fails and leaves the rest of
  the queue (`Unsuccessful`).
- An executor that gets a connection which a timed-out one has left in a
  transaction loses all it commits (`StaysOpen`); this rests on two libraries
  that are not in the repository: a diesel connection counts its open
  transactions, and an r2d2 pool takes a connection back as it is.
- A cart emptied on an event with an order fee keeps its expiry, against the
  comment at `orders.rs:600`.
- An exhausted pool ends the monitor's thread of a server that otherwise goes on
  (`domain_action_monitor.rs:145`), and `set_busy` may wait for a lock that is held
  by a connection a timed-out executor left (`domain_actions.rs:126`).

of stock and prices,

- Codes are stored as typed (`codes.rs:139`) and so are the codes of updated holds
  (`holds.rs:112`), but both are looked up in capitals (`codes.rs:77`,
  `holds.rs:351`): one in small letters is never found.
- Withdrawn tickets have no order item, so carts and holds take them again
  (`revived` in `CapacityAsAsked`). Two increases of the capacity at once issue
  equal token ids and end above what either asked for (`raced`).
- A Comp hold gets a discount by an update that names no type (`holds.rs:112`).
- Changing a type's dates without its prices leaves published prices outside of
  them; published prices are edited in place although items refer to them.
- `ticket_types::update` finds the event and the type each by its own id and never
  compares them (`controllers/ticket_types.rs:194`). Under another event's id it edits
  the type, writes the other event's cache (`:341`) and leaves the type's own event with
  old prices, and issues a raised capacity to the wallet of the other event's
  organization (`StartType`, `FinishType`; `CacheIsTrue` excepts what such a request
  leaves).
- The box office finds no price for a type that has only its default
  (`BoxOfficePrices`).

of events and places,

- A published event can lose its promo image, without which it could not have
  been published. Cancelled events' imports go on; postponing an event after its
  end does not resume them; an import reads only the first hundred fans.
- An artist created with a spotify id loses its organization and is public
  (`artists.rs:81`), where `controllers/artists.rs:101` says that artists of an
  organization start private.
- `find_for_organization` does not list private entries to administrators, `all`
  and `search` do. `show` returns anything to anybody.
- A member may create a stage at a shared venue of the organization, not delete
  it; deleting one removes the artists on it from line-ups. Creating a venue
  without an organization asks for `artist:write`.

and of accounts and sessions.

- A guest of the box office whose address has capitals is not found again
  (`users.rs:176`), and an invite addressed with capitals to somebody without an
  account can never be accepted (`controllers/organization_invites.rs:218`).
- An invite of one organization declines another's, an expired one too
  (`find_active_invite_by_email`), and a late decline overwrites an acceptance. Two
  requests that invite one address at once leave two active invites
  (`organization_invites.rs:175` finds the first), of which each later one declines
  one; this too came out of the proof (`raced` addresses).
- The checks of a list of roles are made role by role, so an empty list passes them
  all (`controllers/organizations.rs:262`, `controllers/organization_invites.rs:43`,
  `:153`): whoever has logged in may so replace a membership by one without a role,
  invite somebody to such a one, or withdraw such an invite (`MayHandOut`).
  `OwnersAreAppointed` is about owners, whom such a list does not make.
- A login with the old password that overlaps a reset outlives it
  (`spared` in `OldSessionsEnd`).

## Proofs

Proved for every value of the constants are all safety properties that the
passing runs check, the refinement of `Sale` among them. The assumptions are the
named ones of each module, which TLC evaluates on every run: keys of different
tables are different values, and `Null` is none of them and no row; tickets, lines,
holds, orders, prices, pending actions and refund requests are finitely many; times,
prices, fees, limits and quantities are natural numbers, and lives are longer than
zero; lower-casing an address twice, or upper-casing a code, is doing it once; the
first type's price lies within its dates, and a stage that is there from the start
belongs to a venue that is. Only the two theorems on a single server add hypotheses
of their own.

- `TicketInstances_proofs`. `Typing` comes first. `PurchasesArePaid` needs nothing
  else: only `Complete` makes a row Purchased, and it makes the order Paid; every
  other write leaves a purchased row alone (`Takeable` excepts it) or ends the
  purchase (`Released`). `ReservationsAreExclusive` and `SalesAreKept` are read off
  the actions under these two; what a refund ends is the sale that it has read of
  the ticket it names (`GivenBack`), since the release compares the item as it was
  read. The promise to a live cart is not inductive; `CartInv` adds that a cart
  without an expiry is empty and that an Available row belongs to no item; the last
  instant of a reservation is where `Live` (`expires >= now`) and `Takeable` (`until
  < now`) must not overlap. A transfer is whole because of `TransferInv`: a row
  carries a key only if the authorization was issued and names the row, and a
  receiver that has read tickets and still finds itself among their readers knows
  that they are the authorization's tickets in the sender's wallet; the comparison
  of counts in `ReceiveRead` makes the two finite sets equal. At last every step is
  a step of `Sale` or leaves it alone (`SaleNext`): carts sell at `Complete` only
  (`CartSells`), holds, clocks, keys and transfers are unseen, the door uses, and a
  refund releases at most the one row it names.

- `CartCheckout_proofs`. All properties follow from one invariant, `Checkout`, since
  what one request may write depends on what all others have written. It has
  four parts. `Typed`. `Working` says of each request, by where it is, what it has
  written and charged (`Shape`), how its copy of the order stands to the committed
  one (`Stages`), how the user's row does (`Links`), whose tickets it has written
  (`Takes`) and that the cart it would commit is whole (`WholeFor`). `NoConflict`:
  two requests never write the same row nor settle the same order, because of row
  locks and the compared version. `Database` is what is committed: a cart that is
  in use and is not its user's last one has expired (`Superseded`), which gives
  `OneCartInUse`; a Paid order has its payer (`PaidFor`), who has completed a payment
  in full unless the order came to nothing, and a request that paid in full and went
  on has written the order Paid, which give `MoneyAndOrderAgree`.

- `OrderLines_proofs`. `LinesInv`: both what is committed and what the request sees
  are `Sound`. The strengthening is in `Whole`: a line of a type that nothing changed
  under has the price in force, which is why the branch that makes a second line
  (`RaiseAtNewPrice`) is never taken for it; and an unchanged comp's line has no fee,
  which `LineFee` then leaves so. `Counts` adds the sums: every ticket of a pool is
  free, in a line or bought (`Kept`), in the transaction too, and a request exceeds
  limits of those types only that it has yet to check. `FeesOfEvents` is about the
  last step of an update, for any order in which the lines may be returned.

- `Refunds_proofs`. `Refundable` is about tickets: who has written a row has it alone
  (`Locks`), rows of the record are the request's own or committed (`RowsAreOwn`),
  whoever was redeemed is remembered (`UsedInv`), a ticket that a request has written
  is one it has released or one whose wallet alone it has changed (`HeldInv`), and a
  request that marks a ticket which was never redeemed has released it, once
  (`MarkInv`). `SaleInv` then counts: the marks of a ticket that was never redeemed are
  no more than its sales, less one while it is sold. `ChainInv` adds the tokens, with
  `SentInv`: those that a request has moved came from the wallet which the database
  still names. `Bookkeeping` is about money. `BooksInv`
  names the units that were paid back, which no state variable holds: the order's
  books are their worth, and the items record as many or, once two requests have
  overlapped and one's write was lost, fewer. By `OutInv` the provider has paid what
  the books say and what it paid of requests that have not committed, or more where
  an answer was lost; by `FeeInv` an order's fee goes back with the last of its items.

- `DomainActions_proofs`. `GivenUpSafe` by `Counts`, which says of every copy of an
  attempt count (in the table, in a monitor's batch, in a job) that it is at most
  the number of failures so far; `EffectsFinal` by `Settled`. Both hold for any
  number of servers. `OneExecutor` and `EndedStaysEnded` hold for one server under
  `RoundTime + Timeout < BusyFor`: `Exclusive` says that a made or running
  executor's action is blocked until after its time-out, and `Awaited` that an action
  in a batch or in work is pending and nobody else's. With two servers
  `OneExecutorPerAction` is false, as said above.

- `Users_proofs`. For `Accounts`, by `AccountsInv`: addresses are unique and
  lower-case but for guests (`EmailsKept`); whoever hands out an owner's role, in a
  request under way too, is an administrator (`Appointed`); what a joining request
  has found of a membership still holds unless another one joins as well
  (`Memberships`); a request that makes an invite has found the only active one
  (`ActiveFound`), and an invite that is being answered was not used (`Answers`),
  both but for races.

- For `Sessions`, in the same module, by `SessionInv`: no token or login carries the
  password of a request that has not ended (`Fresh`), while one reset alone is under
  way the row is as it found it (`OneReset`), and an access token of a former
  password was issued before the change (`Outdated`). `LinkInv`: a link is mailed
  once, and the one in the row is the last mailed, or used.

- `Stock_proofs`. `StockInv` counts tickets: a hold that is to be inserted is in no
  other request and has no tickets yet (`Creators`), an update that has locked its
  hold and a change of the capacity that nobody overtook know the present counts
  (`Lockers`, `Counted`), so what either then moves or inserts is the difference to
  what was asked (`Wanted`, `CapacityAsAsked`). `NameInv` is about what is not written
  yet: of a word that no two requests claimed at once, the only request that is about
  to use it has found no other hold or code of that word, and nobody can make one
  before it commits. `DiscountInv` says that a request whose row is still as it read
  it leaves the row with a discount if its type demands one.

- `Events_proofs`, for `Events` with `Pricing` and `Places`. `EventInv` has one part
  for each subject, and a step about one subject keeps the others since it leaves
  their requests alone (`Kept`). `PricingInv`: no two requests that have written
  prices are about one type or one row (`Apart`), because of the lock of the type;
  what each will commit makes its type's prices fit (`WillFit`), which another
  type's commit does not disturb (`FitsElsewhere`); it deletes nothing that an item
  refers to (`Respects`: a cart's insert waits for whoever deletes the row); and the
  minimum and maximum it will write are those of the list it leaves, until it is
  overtaken (`CacheSeen`); so the event shows its prices since the last request
  about them, unless that one was overtaken or named another event (`CacheIsTrue`).
  `PricesFit` is stronger than `PriceIsDetermined`, which does not say that a
  default has the type's dates; two periods that hold one time overlap by the code's
  own test (`CommonTime`). `RowInv`: what a request has read of the event is so
  until another one updates it. `JobInv`: an action that has found no import is the
  only one, and there is no import beside it (`Series`), and somebody always goes on
  (`GoesOn`). `LineInv`: a list that was not overtaken clears all that is in the
  line-up (`ClearsAll`). `PlacesInv`: an entry that a request relies on is as it was
  read, unless the request was overtaken, and its user had the right to what it is
  about to do (`EntryAsRead`, `StageAsRead`).

- Sums, in sections of `OrderLines_proofs` and `Refunds_proofs`: a sum over a finite
  set is a recursive function on its subsets. What a sum does when one term changes,
  when two functions are added or when all terms are equal is shown by a smallest
  counterexample, in place of an induction.

Only model-checked is `RequestsEnd`, which is liveness and out of the prover's reach;
and, outside of the runs, the three sentences that are false of the code.

## Abstractions

- An order has one item of type Tickets in `TicketInstances`, one ticket type in
  `CartCheckout`. Prices, fees and totals are absent there: an order comes to nothing or
  to something, a payment is of less than that or not.
- `set_behalf_of_user` in the external checkout increments the version a second
  time in the same transaction; one increment stands for both.
- In `TicketInstances` a refund names one item and one ticket, and no ticket is refunded
  twice. In `Refunds` an order was paid in full by one card payment: an external payment
  calls no provider (the same steps, without faults), and refunds of an order that was
  left PartiallyPaid are left out. The tickets are of one type, and so of one asset;
  every order has a wallet of its own. A checkout succeeds only for tickets
  whose tokens are in one wallet.
- `EventFee` stands for an event that charges a fee per order: all that matters
  of it is that the fee's item is still there when the cart is tested for
  emptiness. `CartCheckout` has an event without one.
- Time is a clock of ticks. Reads of `now()` and `Utc::now()` are kept apart in
  `CartCheckout` (`tx[r].now` and `now`).
- `DomainActions`: a connection that was left open is followed where an executor
  gets it next; a request or a round that gets it loses its writes in the same
  way. `RoundTime` bounds how long a round may take (its executors' synchronous
  part included), `MaxDelay` how far ahead an action is scheduled. `set_errored`
  is unreachable, every type has an executor. What an executor does is one
  write; that a running one fails or succeeds is free.
- `OrderLines`: company and client shares of a fee and the versions of a schedule
  are left out, and so are redemption codes, except that a hold has one. The
  reads of `update_fees` are one step.
- Crashes and lost connections are a rollback, as PostgreSQL makes them.
- `Stock`: a ticket's status is what a hold can tell of it; a cart takes, lets
  lapse and returns one ticket at a time. Names, limits per order, end dates and
  contact details of holds, dates and `max_uses` of codes are left out. `Fail` is
  any refusal, and a row that SKIP LOCKED passes over.
- `Pricing` and `Events`: an action is executed by one process at a time
  (`DomainActions` says when that is so). The name of a type is its id; an update of
  a named price gives all its values. Cancelling a type, interest in an event and
  the queries are left out, and so is an update of another event's type under this
  event's id: it changes nothing of this event but the cache, which it writes from what
  it sees. `event_end` only passes. `excused`, `stale` and `clean`
  remember which races, listed with each property, have happened.
- `Places`: the details of an artist or a venue are who edited them last;
  memberships are fixed; updates of stages and regions are left out.
- `Accounts`: a list of roles is one role, or none. `Sessions`: passwords are named by the
  request that set them.

## Plan

Built, in this order: `TicketInstances`, `CartCheckout`, `DomainActions`,
`Refunds`, `OrderLines`, `Accounts`, `Sessions`, `Stock`, `Sale`, `Pricing`,
`Places`, `Events`, and the proofs above. Next:

1. `CartCheckout` against `TicketInstances`: a second refinement, which needs the
   row's locks to be mapped away.
2. The redemption of codes in a cart, once the code does it.

Not planned: regions and assets (plain rows), reports, fans and
paging (SQL aggregation), message wording, the clients of outside services
beyond their failures, logging, configuration and routing.
