----------------------------- MODULE TicketRows -----------------------------
(***************************************************************************)
(* One row of the table ticket_instances, and what each SQL statement of   *)
(* db/src/queries/*.sql and of models/ticket_instances.rs tests of a row   *)
(* and writes to it.  The modules that move tickets about share these.     *)
(*                                                                         *)
(* A row is a record with                                                  *)
(*   status    the TicketInstanceStatus                                    *)
(*   item      order_item_id, or Null                                      *)
(*   until     reserved_until, or Null                                     *)
(*   hold      hold_id, or Null                                            *)
(*   wallet    wallet_id                                                   *)
(*   key       redeem_key, or Null: the order item whose purchase made it  *)
(*   transfer  transfer_key, or Null                                       *)
(*   lapse     transfer_expiry_date, or Null                               *)
(*   readers   the requests that have read the present updated_at.  The    *)
(*             code compares updated_at with the value it read; here the   *)
(*             reader joins the set, and a write that sets updated_at      *)
(*             empties it.                                                 *)
(***************************************************************************)
EXTENDS Integers

CONSTANT Null           \* SQL's NULL

Statuses == {"Available", "Reserved", "Purchased", "Redeemed", "Nullified"}

\* A row as create_multiple inserts it into the issuer's wallet.
Issued(wallet) ==
    [status |-> "Available", item |-> Null, until |-> Null, hold |-> Null,
     wallet |-> wallet, key |-> Null, transfer |-> Null, lapse |-> Null,
     readers |-> {}]

\* "time < t" of SQL: a comparison with NULL is not true.
Before(time, t) == time # Null /\ time < t

\* Mutant: a reservation may be taken over in its last instant.
TakeableEarly(r, hold, t) ==
    /\ r.hold = hold
    /\ \/ r.item = Null
       \/ r.until # Null /\ r.until <= t /\ r.status # "Purchased"

\* Mutant: purchased tickets are not excepted.
TakeablePurchased(r, hold, t) ==
    /\ r.hold = hold
    /\ r.item = Null \/ Before(r.until, t)

\* The rows that reserve_tickets.sql and add_tickets_to_hold.sql may take at
\* time t out of a hold (Null: the general pool).
Takeable(r, hold, t) ==
    /\ r.hold = hold
    /\ \/ r.item = Null
       \/ Before(r.until, t) /\ r.status # "Purchased"

\* The rows release_tickets_from_hold.sql may return to the general pool.
Droppable(r, hold, t) ==
    /\ r.hold = hold
    /\ r.status = "Available" \/ Before(r.until, t)
    /\ r.status # "Purchased"

\* The rows release_tickets.sql may free for an order item.
Releasable(r, item, status) == r.item = item /\ r.status = status

\* The rows nullify_tickets.sql may withdraw.
Nullifiable(r) == r.status = "Available" /\ r.hold = Null

ReservedFor(r, item, until) ==
    [r EXCEPT !.item = item, !.until = until, !.status = "Reserved", !.readers = {}]

\* Mutants: the status is not reset, and the wallet is cleared with the rest.
ReleasedKeepingStatus(r) ==
    [r EXCEPT !.item = Null, !.until = Null, !.key = Null,
              !.transfer = Null, !.lapse = Null, !.readers = {}]
ReleasedWithoutWallet(r) ==
    [r EXCEPT !.item = Null, !.until = Null, !.status = "Available", !.key = Null,
              !.wallet = Null, !.transfer = Null, !.lapse = Null, !.readers = {}]

Released(r) ==
    [r EXCEPT !.item = Null, !.until = Null, !.status = "Available", !.key = Null,
              !.transfer = Null, !.lapse = Null, !.readers = {}]

MovedToHold(r, hold) == [r EXCEPT !.hold = hold, !.readers = {}]

KeptUntil(r, until) == [r EXCEPT !.until = until, !.readers = {}]

PurchasedBy(r, item, wallet) ==
    [r EXCEPT !.status = "Purchased", !.wallet = wallet, !.key = item, !.readers = {}]

InWallet(r, wallet) == [r EXCEPT !.wallet = wallet, !.readers = {}]

\* redeem_ticket and nullify_tickets.sql write the status and nothing else, not
\* even updated_at.
Marked(r, status) == [r EXCEPT !.status = status]

ReadBy(r, request) == [r EXCEPT !.readers = @ \cup {request}]
ForgottenBy(r, request) == [r EXCEPT !.readers = @ \ {request}]

\* The two halves of a transfer.
Offered(r, key, lapse) ==
    [r EXCEPT !.transfer = key, !.lapse = lapse, !.readers = {}]

Received(r, wallet) ==
    [r EXCEPT !.wallet = wallet, !.transfer = Null, !.lapse = Null, !.readers = {}]
=============================================================================
