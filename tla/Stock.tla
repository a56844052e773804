-------------------------------- MODULE Stock --------------------------------
(***************************************************************************)
(* What organizers do to the stock of one ticket type: its capacity        *)
(* (api/src/controllers/ticket_types.rs), the holds and comps that set     *)
(* tickets aside (db/src/models/holds.rs, controllers/holds.rs, comps.rs), *)
(* and the codes, which share the holds' name space (codes.rs).            *)
(*                                                                         *)
(* A request is one transaction.  It reads (and validates), it may take    *)
(* the lock of the row it updates, and it writes and commits: others       *)
(* commit between these steps.  SELECT ... SKIP LOCKED and every error     *)
(* are covered by Fail: the request ends and leaves nothing behind.        *)
(***************************************************************************)
EXTENDS Integers, Sequences, FiniteSets

CONSTANTS
    Holds,          \* ids of holds rows
    FirstParent,    \* the holds that are there from the start, and their parents
    Codes,          \* ids of codes rows
    Words,          \* redemption codes as people type them
    Upper,          \* to_uppercase: Words -> Words
    FirstWord,      \* the redemption codes of the first holds
    Types,          \* ticket types that a request may name for a code
    EventTypes,     \* those of the code's event
    Requests,       \* the organizers' requests, each made once
    Organizers,     \* those of them that may be about holds and codes
    Quantities,     \* quantities that requests ask for
    MaxTickets,     \* bound: rows of ticket_instances
    FirstTickets,   \* where the tickets issued with the ticket type are
    Null

ASSUME HoldAssumption ==
    /\ DOMAIN FirstParent \subseteq Holds
    /\ \A h \in DOMAIN FirstParent :
          FirstParent[h] \in (DOMAIN FirstParent \ {h}) \cup {Null}
ASSUME RequestAssumption == Organizers \subseteq Requests
ASSUME WordAssumption ==
    /\ Upper \in [Words -> Words]
    /\ \A w \in Words : Upper[Upper[w]] = Upper[w]
    /\ FirstWord \in [DOMAIN FirstParent -> Words]
    /\ \A g, h \in DOMAIN FirstWord : FirstWord[g] = FirstWord[h] => g = h
ASSUME TypeAssumption == EventTypes \subseteq Types
ASSUME NumberAssumption ==
    /\ Quantities \subseteq Nat /\ MaxTickets \in Nat
    /\ FirstTickets \in Seq(DOMAIN FirstParent \cup {Null})
    /\ Len(FirstTickets) <= MaxTickets
ASSUME NullAssumption ==
    Null \notin Holds \cup Codes \cup Words \cup Int \cup BOOLEAN \cup {"Discount", "Comp"}

VARIABLES
    ticket,     \* the rows of ticket_instances, in the order of their insertion
    hold,       \* holds
    code,       \* codes, with the rows of ticket_type_codes
    ordered,    \* the holds that some row of order_items refers to
    req,        \* what each request has read, and whether it is still so
    wanted,     \* history: the tickets each hold was last asked to have, less
                \* those moved on; Null after requests for it overlapped
    asked,      \* history: the capacity last asked for, or Null likewise
    contested   \* history: the words two requests claimed at once

vars == <<ticket, hold, code, ordered, req, wanted, asked, contested>>

Kinds == {"Discount", "Comp"}
Rows == 1 .. MaxTickets
\* raced: issued by a request that another change of the capacity overtook.
TicketRow ==
    [token : Nat, hold : Holds \cup {Null}, raced : BOOLEAN,
     status : {"Available", "Taken", "Lapsed", "Nullified"}]
HoldRow ==
    [word : Words, parent : Holds \cup {Null}, kind : Kinds, discount : BOOLEAN,
     readers : SUBSET Requests]
CodeRow ==
    [word : Words, kind : {"Discount", "Access"}, discount : BOOLEAN, types : SUBSET Types,
     readers : SUBSET Requests]
ASSUME RowAssumption == Null \notin TicketRow \cup HoldRow \cup CodeRow

\* What an update asks for: Null where it says nothing.
HoldChange ==
    [word : Words \cup {Null}, kind : Kinds \cup {Null}, discount : BOOLEAN \cup {Null}]
CodeChange ==
    [word : Words \cup {Null}, discount : BOOLEAN \cup {Null}, types : (SUBSET Types) \cup {Null}]

Idle == [kind |-> "idle"]
Done == [kind |-> "done"]
Creating ==
    [kind : {"create"}, hold : Holds, from : Holds \cup {Null}, row : HoldRow, n : Quantities]
Updating ==
    [kind : {"update", "locked"}, hold : Holds, set : HoldChange, n : Quantities \cup {Null},
     count : Nat, clean : BOOLEAN]
Destroying == [kind : {"destroy"}, hold : Holds, count : Nat, clean : BOOLEAN]
Coding ==
    [kind : {"newcode"}, code : Codes, row : CodeRow]
        \cup [kind : {"code"}, code : Codes, set : CodeChange]
Sizing == [kind : {"capacity"}, n : Quantities, valid : Nat, count : Nat, clean : BOOLEAN]

TypeOK ==
    /\ ticket \in [Rows -> TicketRow \cup {Null}]
    /\ hold \in [Holds -> HoldRow \cup {Null}]
    /\ code \in [Codes -> CodeRow \cup {Null}]
    /\ ordered \subseteq Holds
    /\ req \in [Requests -> {Idle, Done} \cup Creating \cup Updating \cup Destroying
                                \cup Coding \cup Sizing]
    /\ wanted \in [Holds -> Nat \cup {Null}]
    /\ asked \in [target : Nat \cup {Null}, revived : Nat]
    /\ contested \subseteq Words

\* ticket_types::create has issued the tickets, and holds have taken some.
Init ==
    /\ ticket = [i \in Rows |->
                    IF i > Len(FirstTickets) THEN Null
                    ELSE [token |-> i - 1, raced |-> FALSE, status |-> "Available",
                          hold |-> FirstTickets[i]]]
    /\ hold = [h \in Holds |->
                    IF h \notin DOMAIN FirstParent THEN Null
                    ELSE [word |-> FirstWord[h], parent |-> FirstParent[h],
                          kind |-> IF FirstParent[h] = Null THEN "Discount" ELSE "Comp",
                          discount |-> FirstParent[h] = Null, readers |-> {}]]
    /\ code = [c \in Codes |-> Null]
    /\ ordered = {}
    /\ req = [r \in Requests |-> Idle]
    /\ wanted = [h \in Holds |->
                    IF h \in DOMAIN FirstParent
                    THEN Cardinality({i \in DOMAIN FirstTickets : FirstTickets[i] = h})
                    ELSE Null]
    /\ asked = [target |-> Len(FirstTickets), revived |-> 0]
    /\ contested = {}

-----------------------------------------------------------------------------
(* The rows of ticket_instances.                                           *)

Issued == {i \in Rows : ticket[i] # Null}
Valid == {i \in Issued : ticket[i].status # "Nullified"}
InHold(h) == {i \in Issued : ticket[i].hold = h}

\* Mutant: a ticket in a live cart, or sold, may be moved to another hold.
TakeableAtAll(h) == InHold(h)

\* reserve_tickets.sql and add_tickets_to_hold.sql: not in a live cart and not
\* sold.  Neither looks at the status Nullified.
Takeable(h) == {i \in InHold(h) : ticket[i].status # "Taken"}

\* release_tickets_from_hold.sql
Droppable(h) == {i \in InHold(h) : ticket[i].status \in {"Available", "Lapsed"}}

\* nullify_tickets.sql
Nullifiable == {i \in InHold(Null) : ticket[i].status = "Available"}

\* Requests that have counted what this change alters no longer know.
Overtaken(hs, capacity) ==
    [r \in Requests |->
        IF \/ req[r].kind \in {"locked", "destroy"} /\ req[r].hold \in hs
           \/ req[r].kind = "capacity" /\ capacity
        THEN [req[r] EXCEPT !.clean = FALSE] ELSE req[r]]
Ended(r, hs, capacity) == [Overtaken(hs, capacity) EXCEPT ![r] = Done]

MovedBy(h, n) == IF h = Null \/ wanted[h] = Null THEN Null ELSE wanted[h] + n
\* n tickets of T leave the hold or pool they are in for another.
Move(T, to) == [i \in Rows |-> IF i \in T THEN [ticket[i] EXCEPT !.hold = to] ELSE ticket[i]]

\* A customer's cart takes a ticket, out of a hold or the pool.  A withdrawn one
\* comes back into the count that way.
Take(i, h) ==
    /\ i \in Takeable(h)
    /\ ticket' = [ticket EXCEPT ![i].status = "Taken"]
    /\ ordered' = IF h = Null THEN ordered ELSE ordered \cup {h}
    /\ LET revived == ticket[i].status = "Nullified" IN
        /\ asked' = IF revived THEN [asked EXCEPT !.revived = @ + 1] ELSE asked
        /\ req' = Overtaken({}, revived)
    /\ UNCHANGED <<hold, code, wanted, contested>>

\* The reservation passes, and the row and its order item stay as they are.
Lapse(i) ==
    /\ i \in Issued /\ ticket[i].status = "Taken"
    /\ ticket' = [ticket EXCEPT ![i].status = "Lapsed"]
    /\ UNCHANGED <<hold, code, ordered, req, wanted, asked, contested>>

\* The cart is cleared, or the sale refunded: with a cart its item goes as well.
Return(i) ==
    /\ i \in Issued /\ ticket[i].status \in {"Taken", "Lapsed"}
    /\ ticket' = [ticket EXCEPT ![i].status = "Available"]
    /\ \/ UNCHANGED ordered
       \/ /\ \A j \in InHold(ticket[i].hold) \ {i} :
                ticket[j].status \notin {"Taken", "Lapsed"}
          /\ ordered' = ordered \ {ticket[i].hold}
    /\ UNCHANGED <<hold, code, req, wanted, asked, contested>>

-----------------------------------------------------------------------------
(* Redemption codes: one name space for holds and codes.                   *)

HoldsNamed(w) == {h \in Holds : hold[h] # Null /\ hold[h].word = w}
CodesNamed(w) == {c \in Codes : code[c] # Null /\ code[c].word = w}
Claimed ==
    {req[r].row.word : r \in {q \in Requests : req[q].kind \in {"create", "newcode"}}}
        \cup {req[r].set.word : r \in {q \in Requests : req[q].kind \in {"update", "locked", "code"}}}

\* Mutant: each table is asked about its own rows only.
UniqueCodePerTable(w, h, c) == IF c = {} THEN HoldsNamed(w) \subseteq h ELSE CodesNamed(w) \subseteq c

\* redemption_code_unique_per_event, called by the validation and by the CHECK
\* of the row: it sees committed rows; h or c is the row itself.
UniqueCode(w, h, c) == HoldsNamed(w) \subseteq h /\ CodesNamed(w) \subseteq c

Claim(w) == contested' = contested \cup (({w} \ {Null}) \cap Claimed)

\* A row with the changes made to it: the columns that are not Null.
Changed(row, set) ==
    [f \in DOMAIN row |-> IF f = "readers" THEN {}
                          ELSE IF f \in DOMAIN set /\ set[f] # Null THEN set[f] ELSE row[f]]

\* Mutant: the discount is only looked at when a row is created.
DiscountUnchecked(kind, discount) == TRUE

DiscountValid(kind, discount) == kind = "Discount" => discount

-----------------------------------------------------------------------------
(* Holds.                                                                  *)

\* NewHold::commit, up to the insert: a comp has no discount.
StartHold(r, h, from, parent, w, kind, discount, n) ==
    LET row == [word |-> Upper[w], parent |-> parent, kind |-> kind,
                discount |-> discount /\ kind # "Comp", readers |-> {}] IN
    /\ req[r] = Idle
    /\ hold[h] = Null /\ \A q \in Requests : req[q].kind = "create" => req[q].hold # h
    /\ DiscountValid(kind, discount)
    /\ UniqueCode(row.word, {}, {})
    /\ req' = [req EXCEPT ![r] = [kind |-> "create", hold |-> h, from |-> from, row |-> row, n |-> n]]
    /\ Claim(row.word)
    /\ UNCHANGED <<ticket, hold, code, ordered, wanted, asked>>

\* create_hold takes the tickets from the pool, a comp from its parent, a split
\* from the hold that it is split off and whose parent it shares.
CreateHold(r, h, w, kind, discount, n) == StartHold(r, h, Null, Null, w, kind, discount, n)
CreateComp(r, h, p, w, n) == hold[p] # Null /\ StartHold(r, h, p, p, w, "Comp", FALSE, n)
Split(r, h, p, w, kind, discount, n) ==
    hold[p] # Null /\ StartHold(r, h, p, hold[p].parent, w, kind, discount, n)

\* The move of the tickets and the commit.  The unique index has held the insert
\* back until other rows with this code were committed or gone; the parent must
\* still be there.
FinishHold(r) ==
    LET q == req[r] IN
    /\ q.kind = "create"
    /\ HoldsNamed(q.row.word) = {}
    /\ q.row.parent # Null => hold[q.row.parent] # Null
    /\ \E T \in SUBSET Takeable(q.from) :
        /\ Cardinality(T) = q.n
        /\ ticket' = Move(T, q.hold)
    /\ hold' = [hold EXCEPT ![q.hold] = q.row]
    /\ wanted' = [h \in Holds |-> IF h = q.hold THEN q.n
                                  ELSE IF h = q.from THEN MovedBy(h, 0 - q.n) ELSE wanted[h]]
    /\ req' = Ended(r, IF q.n = 0 THEN {} ELSE {q.from}, FALSE)
    /\ UNCHANGED <<code, ordered, asked, contested>>

\* holds::update and comps::update: Hold::find and validate_record.
StartUpdate(r, h, w, kind, discount, n) ==
    LET set == [word |-> w, kind |-> kind,
                discount |-> IF kind = "Comp" THEN FALSE ELSE discount]
        row == Changed(hold[h], set) IN
    /\ req[r] = Idle /\ hold[h] # Null
    /\ DiscountValid(row.kind, row.discount)
    /\ UniqueCode(row.word, {h}, {})
    /\ hold' = [hold EXCEPT ![h].readers = @ \cup {r}]
    /\ req' = [req EXCEPT ![r] = [kind |-> "update", hold |-> h, set |-> set, n |-> n,
                                  count |-> 0, clean |-> TRUE]]
    /\ Claim(w)
    /\ UNCHANGED <<ticket, code, ordered, wanted, asked>>

Locked(h) == \E r \in Requests : req[r].kind = "locked" /\ req[r].hold = h

\* Mutant: the update does not look at updated_at.
UnchangedAtAll(r, h) == hold[h] # Null

\* filter(updated_at = self.updated_at)
Unchanged(r, h) == hold[h] # Null /\ r \in hold[h].readers

\* The UPDATE, which keeps the row locked, and set_quantity's count.
LockHold(r) ==
    LET q == req[r] IN
    /\ q.kind = "update" /\ ~Locked(q.hold)
    /\ Unchanged(r, q.hold)
    /\ UniqueCode(Changed(hold[q.hold], q.set).word, {q.hold}, {})
    /\ req' = [req EXCEPT ![r] = [q EXCEPT !.kind = "locked", !.count = Cardinality(InHold(q.hold))]]
    /\ UNCHANGED <<ticket, hold, code, ordered, wanted, asked, contested>>

\* Mutant: a hold with too many tickets takes the difference once more.
GivingUpReversed(h, count, n) ==
    IF count < n THEN [from |-> Takeable(hold[h].parent), to |-> h, n |-> n - count]
    ELSE IF hold[h].parent = Null THEN [from |-> Droppable(h), to |-> Null, n |-> n]
    ELSE [from |-> Takeable(h), to |-> hold[h].parent, n |-> n]

\* set_quantity, of a hold it has counted so many tickets in: what moves where.
Requantified(h, count, n) ==
    IF count < n THEN [from |-> Takeable(hold[h].parent), to |-> h, n |-> n - count]
    ELSE IF hold[h].parent = Null THEN [from |-> Droppable(h), to |-> Null, n |-> count - n]
    ELSE [from |-> Takeable(h), to |-> hold[h].parent, n |-> count - n]

SetQuantity(h, count, n) ==
    LET m == Requantified(h, count, n) IN
    \E T \in SUBSET m.from : Cardinality(T) = m.n /\ ticket' = Move(T, m.to)

FinishUpdate(r) ==
    LET q == req[r]
        p == hold[q.hold].parent IN
    /\ q.kind = "locked"
    /\ HoldsNamed(q.set.word) \subseteq {q.hold}
    /\ hold' = [hold EXCEPT ![q.hold] = Changed(hold[q.hold], q.set)]
    /\ IF q.n = Null
       THEN /\ UNCHANGED <<ticket, wanted>>
            /\ req' = [req EXCEPT ![r] = Done]
       ELSE /\ SetQuantity(q.hold, q.count, q.n)
            /\ wanted' = [h \in Holds |-> IF h = q.hold THEN (IF q.clean THEN q.n ELSE Null)
                                          ELSE IF h = p THEN MovedBy(p, q.count - q.n)
                                          ELSE wanted[h]]
            /\ req' = Ended(r, IF q.count = q.n THEN {} ELSE {q.hold, p}, FALSE)
    /\ UNCHANGED <<code, ordered, asked, contested>>

\* Hold::destroy: set_quantity(0) counts, sold tickets included.
StartDestroy(r, h) ==
    /\ req[r] = Idle /\ hold[h] # Null
    /\ req' = [req EXCEPT ![r] = [kind |-> "destroy", hold |-> h, clean |-> TRUE,
                                  count |-> Cardinality(InHold(h))]]
    /\ UNCHANGED <<ticket, hold, code, ordered, wanted, asked, contested>>

\* Mutant: the rows that refer to the hold do not keep it.
DeletableAlways(h, T) == TRUE

\* The foreign keys of ticket_instances, of holds and of order_items.
Deletable(h, T) ==
    /\ InHold(h) \subseteq T
    /\ \A g \in Holds : hold[g] # Null => hold[g].parent # h
    /\ h \notin ordered

\* The move of what was counted, and the delete.  A hold that is gone already
\* has nothing to move and nothing to delete.
FinishDestroy(r) ==
    LET q == req[r]
        h == q.hold IN
    /\ q.kind = "destroy" /\ ~Locked(h)
    /\ hold[h] # Null
    /\ LET m == Requantified(h, q.count, 0) IN
       \E T \in SUBSET m.from :
        /\ Cardinality(T) = q.count /\ Deletable(h, T)
        /\ ticket' = IF q.count = 0 THEN ticket ELSE Move(T, m.to)
    /\ hold' = [hold EXCEPT ![h] = Null]
    /\ wanted' = [g \in Holds |-> IF g = h THEN Null
                                  ELSE IF g = hold[h].parent THEN MovedBy(g, q.count)
                                  ELSE wanted[g]]
    /\ req' = Ended(r, IF q.count = 0 THEN {} ELSE {h, hold[h].parent}, FALSE)
    /\ UNCHANGED <<code, ordered, asked, contested>>

-----------------------------------------------------------------------------
(* Codes.                                                                  *)

\* Code::create keeps the word as it was typed.
StartCode(r, c, w, kind, discount, ts) ==
    /\ req[r] = Idle
    /\ code[c] = Null /\ \A q \in Requests : req[q].kind = "newcode" => req[q].code # c
    /\ DiscountValid(kind, discount)
    /\ UniqueCode(w, {}, {})
    /\ req' = [req EXCEPT ![r] =
                [kind |-> "newcode", code |-> c,
                 row |-> [word |-> w, kind |-> kind, discount |-> discount, types |-> ts,
                          readers |-> {}]]]
    /\ Claim(w)
    /\ UNCHANGED <<ticket, hold, code, ordered, wanted, asked>>

\* The commit, with update_ticket_types; ticket_type_codes refuses a type of
\* another event.
FinishCode(r) ==
    LET q == req[r] IN
    /\ q.kind = "newcode"
    /\ CodesNamed(q.row.word) = {}
    /\ q.row.types \subseteq EventTypes
    /\ code' = [code EXCEPT ![q.code] = q.row]
    /\ req' = [req EXCEPT ![r] = Done]
    /\ UNCHANGED <<ticket, hold, ordered, wanted, asked, contested>>

StartCodeUpdate(r, c, w, discount, ts) ==
    LET set == [word |-> w, discount |-> discount, types |-> ts]
        row == Changed(code[c], set) IN
    /\ req[r] = Idle /\ code[c] # Null
    /\ DiscountValid(row.kind, row.discount)
    /\ UniqueCode(row.word, {}, {c})
    /\ code' = [code EXCEPT ![c].readers = @ \cup {r}]
    /\ req' = [req EXCEPT ![r] = [kind |-> "code", code |-> c, set |-> set]]
    /\ Claim(w)
    /\ UNCHANGED <<ticket, hold, ordered, wanted, asked>>

\* The same filter on updated_at as for holds.
FinishCodeUpdate(r) ==
    LET q == req[r] IN
    /\ q.kind = "code"
    /\ code[q.code] # Null /\ r \in code[q.code].readers
    /\ CodesNamed(q.set.word) \subseteq {q.code}
    /\ q.set.types # Null => q.set.types \subseteq EventTypes
    /\ code' = [code EXCEPT ![q.code] = Changed(code[q.code], q.set)]
    /\ req' = [req EXCEPT ![r] = Done]
    /\ UNCHANGED <<ticket, hold, ordered, wanted, asked, contested>>

DestroyCode(c) ==
    /\ code[c] # Null
    /\ code' = [code EXCEPT ![c] = Null]
    /\ UNCHANGED <<ticket, hold, ordered, req, wanted, asked, contested>>

-----------------------------------------------------------------------------
(* Capacity: ticket_types::update.                                         *)

\* valid_ticket_count and ticket_count
StartCapacity(r, n) ==
    /\ req[r] = Idle
    /\ req' = [req EXCEPT ![r] = [kind |-> "capacity", n |-> n, clean |-> TRUE,
                                  valid |-> Cardinality(Valid), count |-> Cardinality(Issued)]]
    /\ UNCHANGED <<ticket, hold, code, ordered, wanted, asked, contested>>

\* Mutants: the new tickets are numbered from the capacity, or from the
\* difference of the two counts.
FirstTokenOfDifference(q) == q.valid - q.count
FirstTokenOfValid(q) == q.valid

\* starting_tari_id
FirstToken(q) == q.count

\* create_multiple
Issue(q) ==
    LET last == Cardinality(Issued)
        new == last + 1 .. last + q.n - q.valid IN
    /\ q.valid < q.n /\ new \subseteq Rows
    /\ ticket' = [i \in Rows |->
                    IF i \in new THEN [token |-> FirstToken(q) + i - last - 1, hold |-> Null,
                                       raced |-> ~q.clean, status |-> "Available"]
                    ELSE ticket[i]]

\* Mutant: as many as can be withdrawn, if not as many as asked.
EnoughAtMost(T, n) == Cardinality(T) <= n

Enough(T, n) == Cardinality(T) = n

\* nullify_tickets; anything but the whole number is an error.
Withdraw(q) ==
    /\ q.valid > q.n
    /\ \E T \in SUBSET Nullifiable :
        /\ Enough(T, q.valid - q.n)
        /\ ticket' = [i \in Rows |-> IF i \in T THEN [ticket[i] EXCEPT !.status = "Nullified"]
                                     ELSE ticket[i]]

FinishCapacity(r) ==
    LET q == req[r] IN
    /\ q.kind = "capacity"
    /\ \/ Issue(q)
       \/ Withdraw(q)
       \/ q.valid = q.n /\ UNCHANGED ticket
    /\ asked' = [target |-> IF q.clean THEN q.n ELSE Null, revived |-> 0]
    /\ req' = Ended(r, {}, q.valid # q.n)
    /\ UNCHANGED <<hold, code, ordered, wanted, contested>>

-----------------------------------------------------------------------------
\* A validation, a constraint, a row skipped, the tari client: the transaction
\* is rolled back.
Fail(r) ==
    /\ req[r] \notin {Idle, Done}
    /\ req' = [req EXCEPT ![r] = Done]
    /\ UNCHANGED <<ticket, hold, code, ordered, wanted, asked, contested>>

\* An update names the columns it changes; only a hold's
\* type is repeated, as a form sends it.
Unless(v, old) == IF v = old THEN Null ELSE v

CustomerStep ==
    \E i \in Rows : Lapse(i) \/ Return(i) \/ \E h \in Holds \cup {Null} : Take(i, h)

HoldStep ==
    \E r \in Organizers, h \in Holds :
        \/ \E w \in Words, n \in Quantities \ {0} :
            \/ \E kind \in Kinds, discount \in BOOLEAN : CreateHold(r, h, w, kind, discount, n)
            \/ \E p \in Holds : CreateComp(r, h, p, w, n)
            \/ \E p \in Holds, kind \in Kinds, discount \in BOOLEAN :
                Split(r, h, p, w, kind, discount, n)
        \/ \E w \in Words, kind \in Kinds, discount \in BOOLEAN, n \in Quantities \cup {Null} :
            /\ hold[h] # Null
            /\ StartUpdate(r, h, Unless(w, hold[h].word), kind,
                           Unless(discount, hold[h].discount), n)
        \/ StartDestroy(r, h)

HoldEnd ==
    \E r \in Requests : FinishHold(r) \/ LockHold(r) \/ FinishUpdate(r) \/ FinishDestroy(r)

CodeStep ==
    \E c \in Codes :
        \/ DestroyCode(c)
        \/ \E r \in Organizers, w \in Words, kind \in {"Discount", "Access"},
              discount \in BOOLEAN, ts \in SUBSET Types : StartCode(r, c, w, kind, discount, ts)
        \/ \E r \in Organizers, w \in Words, discount \in BOOLEAN, ts \in SUBSET Types :
            /\ code[c] # Null
            /\ StartCodeUpdate(r, c, Unless(w, code[c].word), Unless(discount, code[c].discount),
                               Unless(ts, code[c].types))

CodeEnd == \E r \in Requests : FinishCode(r) \/ FinishCodeUpdate(r)

CapacityStep ==
    \E r \in Requests : FinishCapacity(r) \/ \E n \in Quantities : StartCapacity(r, n)

Next ==
    \/ CustomerStep \/ HoldStep \/ HoldEnd \/ CodeStep \/ CodeEnd \/ CapacityStep
    \/ \E r \in Requests : Fail(r)

Spec == Init /\ [][Next]_vars

-----------------------------------------------------------------------------
(* Properties.                                                             *)

\* A word means one hold or one code at most, whatever was created, renamed and
\* destroyed, unless two requests claimed it at once: the CHECKs of two tables
\* do not see each other's uncommitted rows.
OneMeaning ==
    \A w \in Words \ contested : Cardinality(HoldsNamed(w)) + Cardinality(CodesNamed(w)) <= 1

\* A hold or code of type Discount says what the discount is: type and discount
\* are checked together, though requests change one or the other.
DiscountsGiven ==
    /\ \A h \in Holds : hold[h] # Null => DiscountValid(hold[h].kind, hold[h].discount)
    /\ \A c \in Codes : code[c] # Null => DiscountValid(code[c].kind, code[c].discount)

\* A hold has the tickets that were asked for it, less those split off or given
\* to comps, whatever was sold, returned or withdrawn meanwhile.
HoldsAddUp ==
    \A h \in Holds :
        hold[h] # Null /\ wanted[h] # Null => Cardinality(InHold(h)) = wanted[h]

\* A ticket in a live cart, or sold, stays in the hold it came from: what a hold
\* gave to customers is told by its rows.
TakenTicketsStay ==
    [][\A i \in Issued : ticket[i].status = "Taken" => ticket'[i].hold = ticket[i].hold]_vars

\* Every ticket of a hold is in a hold that exists, and so is every comp's
\* parent: tickets of a destroyed hold could never be sold.
HeldTicketsCanBeFound ==
    /\ \A i \in Issued : ticket[i].hold # Null => hold[ticket[i].hold] # Null
    /\ \A h \in Holds :
        hold[h] # Null /\ hold[h].parent # Null => hold[hold[h].parent] # Null

\* The tickets that are not withdrawn are as many as was last asked for, and the
\* withdrawn ones that carts have taken since.
CapacityAsAsked ==
    asked.target # Null => Cardinality(Valid) = asked.target + asked.revived

\* No two tickets have one token, unless two requests raised the capacity at once.
TokensDiffer ==
    \A i, j \in Issued :
        i # j /\ ~ticket[i].raced /\ ~ticket[j].raced => ticket[i].token # ticket[j].token

\* The rows of ticket_instances are those that the organizers asked for: as many,
\* in the holds they were put in, each with a token of its own.
StockIsAsAsked ==
    TypeOK /\ HoldsAddUp /\ HeldTicketsCanBeFound /\ CapacityAsAsked /\ TokensDiffer

\* What a customer types in finds one thing, and that says what it is worth.
CodesAreClear == OneMeaning /\ DiscountsGiven
=============================================================================
