------------------------ MODULE CartCheckout_proofs ------------------------
(***************************************************************************)
(* Proofs about CartCheckout, for every number of requests, users and      *)
(* tickets, and every set of faults.                                       *)
(***************************************************************************)
EXTENDS CartCheckout, FiniteSetTheorems, TLAPS

-----------------------------------------------------------------------------
(* The inductive invariant.                                                *)

Writes == UNION {[T -> Rows] : T \in SUBSET Tickets}

Transaction ==
    [kind : Kinds, now : 0..MaxTime, cart : Requests \cup {Null},
     version : Nat, seen : UserRows,
     order : Orders \cup {Null}, user : UserRows \cup {Null},
     rows : Writes, pay : Payments \cup {Null}]

Typed ==
    /\ now \in 0..MaxTime
    /\ order \in [Requests -> Orders]
    /\ user \in [Users -> UserRows]
    /\ row \in [Tickets -> Rows]
    /\ pay \in [Requests -> Payments]
    /\ charge \in [Requests -> {"none", "authorized", "captured", "refunded"}]
    /\ pc \in [Requests -> {"idle"} \cup Steps \cup Ended]
    /\ revived \subseteq Requests
    /\ tx \in [Requests -> Transaction]
    /\ \A r \in Requests : tx[r].now <= now

\* What a request has written so far, and what it has charged, by where it is.
Nothing(r) == tx[r].order = Null /\ tx[r].user = Null /\ tx[r].rows = NoRows /\ tx[r].pay = Null
Made(r) == tx[r].kind = "update" /\ tx[r].cart = r /\ tx[r].order = NewCart
Linked(r) == tx[r].user # Null /\ tx[r].user.cart = r /\ tx[r].cart = r
Unlinked(r) == tx[r].user # Null /\ tx[r].user.cart = Null
Charged(r, c) == charge[r] = IF tx[r].kind = "card" THEN c ELSE "none"
InOrder(r, s) == tx[r].cart # Null /\ tx[r].order # Null /\ tx[r].order.status = s

\* A card's money is promised in its first transaction; any money is received in the
\* last one.  An order whose payments cover it is paid, another one is left as it is.
Promised(r) == tx[r].kind = "card" /\ tx[r].pay = "Authorized" /\ charge[r] = "authorized"
MoneyIn(r) == tx[r].pay = "Completed" /\ Charged(r, "captured")
Second(r) == tx[r].kind = "card" /\ tx[r].pay = "Completed"
Unpaid(r) ==
    /\ tx[r].user = Null /\ tx[r].cart # Null
    /\ Second(r) => tx[r].order = Null /\ tx[r].rows = NoRows
    /\ ~Second(r) => InOrder(r, "PartiallyPaid")
PaidUp(r) == InOrder(r, "Paid") /\ Covered(r) /\ (tx[r].user # Null => Unlinked(r))
Finished(r) == MoneyIn(r) /\ (PaidUp(r) \/ (Unpaid(r) /\ ~Covered(r)))

AtStart(r) ==
    pc[r] \in {"idle", "find", "create"} =>
        /\ Nothing(r) /\ tx[r].cart = Null /\ charge[r] = "none" /\ pay[r] = "none"
        /\ pc[r] = "create" => tx[r].kind = "update"
AtLink(r) ==
    pc[r] = "link" =>
        /\ Made(r) /\ tx[r].version = 0
        /\ tx[r].user = Null /\ tx[r].rows = NoRows /\ tx[r].pay = Null /\ charge[r] = "none"
AtLock(r) ==
    pc[r] = "lock" =>
        /\ tx[r].cart # Null /\ tx[r].rows = NoRows /\ tx[r].pay = Null /\ charge[r] = "none"
        /\ \/ tx[r].order = Null /\ tx[r].user = Null
           \/ Made(r) /\ tx[r].version = 0 /\ Linked(r)
AtBody(r) ==
    pc[r] = "body" =>
        /\ InOrder(r, "Draft") /\ tx[r].kind = "update"
        /\ tx[r].user # Null => Linked(r)
        /\ tx[r].rows = NoRows /\ tx[r].pay = Null /\ charge[r] = "none"
AtAuth(r) ==
    pc[r] = "auth" =>
        /\ InOrder(r, "Draft") /\ tx[r].kind = "card"
        /\ tx[r].user = Null /\ tx[r].rows = NoRows /\ tx[r].pay = Null /\ charge[r] = "none"
AtMark(r) ==
    pc[r] \in {"mark", "keep"} =>
        /\ InOrder(r, IF pc[r] = "mark" THEN "Draft" ELSE "PartiallyPaid") /\ tx[r].kind # "update"
        /\ tx[r].user = Null /\ tx[r].rows = NoRows /\ tx[r].pay = Null /\ Charged(r, "authorized")
AtCapture(r) ==
    pc[r] \in {"commitAuth", "capture"} =>
        /\ tx[r].kind = "card" /\ tx[r].cart # Null /\ charge[r] = "authorized"
        /\ pc[r] = "commitAuth" => tx[r].pay = "Authorized" /\ (PaidUp(r) \/ Unpaid(r))
        /\ pc[r] = "capture" => Nothing(r)
AtComplete(r) ==
    pc[r] = "complete" => tx[r].kind # "update" /\ (Promised(r) \/ MoneyIn(r)) /\ Unpaid(r)
AtUnlink(r) ==
    pc[r] = "unlink" =>
        /\ tx[r].kind # "update" /\ (Promised(r) \/ MoneyIn(r)) /\ PaidUp(r)
        /\ tx[r].user = Null /\ tx[r].seen.cart = tx[r].cart
AtTokens(r) ==
    pc[r] = "tokens" => tx[r].kind # "update" /\ Finished(r)
AtCommit(r) ==
    pc[r] = "commit" =>
        /\ tx[r].kind = "update" =>
              /\ InOrder(r, "Draft") /\ tx[r].pay = Null /\ charge[r] = "none"
              /\ tx[r].user # Null => Linked(r)
        /\ tx[r].kind # "update" => Finished(r)
AtEnd(r) ==
    pc[r] \in Ended =>
        /\ Nothing(r)
        /\ charge[r] # "none" => tx[r].kind = "card" /\ tx[r].cart # Null
        /\ pc[r] = "refused" => charge[r] \in {"none", "refunded"}
        /\ pc[r] = "fault" => charge[r] # "refunded"
        /\ pc[r] = "ok" => Charged(r, "captured")

Shape(r) ==
    /\ AtStart(r) /\ AtLink(r) /\ AtLock(r) /\ AtBody(r) /\ AtAuth(r) /\ AtMark(r)
    /\ AtCapture(r) /\ AtComplete(r) /\ AtUnlink(r) /\ AtTokens(r) /\ AtCommit(r) /\ AtEnd(r)

\* How a request stands to the committed order it works on.  Before its first
\* commit the order is a draft, or not there yet; a card's authorization, and any
\* checkout that has succeeded, has committed that it is partially paid, or paid.
Unborn(r) == pc[r] \in {"idle", "find", "create", "link"} \/ (pc[r] = "lock" /\ tx[r].order # Null)
Settled(r) ==
    \/ pc[r] = "ok" /\ tx[r].kind # "update"
    \/ /\ tx[r].kind = "card"
       /\ \/ pc[r] \in {"capture", "tokens", "commit"}
          \/ pc[r] \in {"complete", "unlink"} /\ tx[r].pay = "Completed"
          \/ pc[r] = "fault" /\ charge[r] = "captured"

OwnCart(r) == tx[r].cart # Null => Caller[tx[r].cart] = Caller[r]
NotYet(r) == Unborn(r) => order[r].status = "none"
FoundDraft(r) ==
    pc[r] = "lock" /\ tx[r].order = Null =>
        /\ order[tx[r].cart].status # "none"
        /\ order[tx[r].cart].version >= tx[r].version
        /\ order[tx[r].cart].version = tx[r].version => order[tx[r].cart].status = "Draft"
WritesDraft(r) ==
    tx[r].order # Null /\ ~Settled(r) =>
        /\ order[tx[r].cart].status \in {"none", "Draft"}
        /\ order[tx[r].cart].status = "none" =>
              tx[r].cart = r /\ (pc[r] # "link" => Linked(r))
        /\ pc[r] \notin {"link", "lock"} => tx[r].order.version = order[tx[r].cart].version + 1
        /\ tx[r].order.status = "Draft" =>
              \/ tx[r].order.expires = order[tx[r].cart].expires
              \/ /\ pc[r] = "commit"
                 /\ Null \in {tx[r].order.expires, order[tx[r].cart].expires}
WritesPaid(r) ==
    Settled(r) =>
        /\ tx[r].cart # Null /\ order[tx[r].cart].status \in {"PartiallyPaid", "Paid"}
        /\ pc[r] = "ok" =>
              pay[r] = "Completed" /\ (InFull(r) => order[tx[r].cart].status = "Paid")
        /\ tx[r].order # Null => tx[r].order.version = order[tx[r].cart].version

Stages(r) == OwnCart(r) /\ NotYet(r) /\ FoundDraft(r) /\ WritesDraft(r) /\ WritesPaid(r)

\* How it stands to its user's row.  A cart that a new one takes the place of is out
\* of use for good.
Gone(o) ==
    o # Null =>
        \/ o \in revived
        \/ order[o].status \in {"PartiallyPaid", "Paid"}
        \/ order[o].status = "Draft" /\ Before(order[o].expires, now)
HasSeen(r) ==
    pc[r] \in {"find", "create", "link"} =>
        /\ user[Caller[r]].stamp >= tx[r].seen.stamp
        /\ user[Caller[r]].stamp = tx[r].seen.stamp => AsSeen(r)
Replaces(r) ==
    pc[r] \in {"create", "link"} /\ AsSeen(r) => Gone(tx[r].seen.cart)
WritesUser(r) ==
    tx[r].user # Null =>
        /\ tx[r].user.stamp > user[Caller[r]].stamp
        /\ Linked(r) => Gone(user[Caller[r]].cart)
        /\ Unlinked(r) => user[Caller[r]].cart = tx[r].cart

Links(r) == HasSeen(r) /\ Replaces(r) /\ WritesUser(r)

\* How it stands to the committed rows.  What it writes is a ticket of its cart,
\* or was free or lapsed when it was read.
RowOf(r, t) == row[t].item = tx[r].cart
WritesRow(r, t) ==
    /\ tx[r].order # Null
    /\ tx[r].rows[t].item \in {tx[r].cart, Null}
    /\ RowOf(r, t) \/ (tx[r].kind = "update"
                       /\ (row[t].item = Null \/ Before(row[t].until, tx[r].now)))
    /\ row[t].status = "Purchased" =>
          tx[r].rows[t].item = row[t].item /\ tx[r].rows[t].wallet = row[t].wallet
    /\ tx[r].rows[t].status = "Purchased" =>
          tx[r].rows[t].item = tx[r].cart /\ tx[r].rows[t].wallet = Caller[r]
Takes(r) == \A t \in DOMAIN tx[r].rows : WritesRow(r, t)

\* A cart in use has the tickets it counts, in the database and in the eyes of
\* the request that writes it.
Held(o) == {t \in Tickets : row[t].item = o}
HeldBy(r) == {t \in Tickets : Seen(r, t).item = tx[r].cart}
InUse(c) == c.status \in {"none", "Draft"} /\ ~Before(c.expires, now)
Whole(o) ==
    InUse(order[o]) =>
        /\ Cardinality(Held(o)) = order[o].quantity
        /\ \A t \in Held(o) : row[t].until = order[o].expires
WholeFor(r) ==
    tx[r].order # Null /\ InUse(tx[r].order) =>
        /\ Cardinality(HeldBy(r)) = tx[r].order.quantity
        /\ \A t \in HeldBy(r) : Seen(r, t).until = tx[r].order.expires
Empty(c) == c.status \in {"none", "Draft"} /\ c.expires = Null => c.quantity = 0

\* Two requests never write the same row, and never settle the same order.
Apart(q, r) ==
    /\ tx[q].order # Null /\ tx[r].order # Null => tx[q].cart # tx[r].cart
    /\ tx[q].user # Null /\ tx[r].user # Null => Caller[q] # Caller[r]
    /\ DOMAIN tx[q].rows \cap DOMAIN tx[r].rows = {}
    /\ Settled(q) /\ Settled(r) => tx[q].cart # tx[r].cart

\* The committed state.
Fresh(o) ==
    /\ order[o].status = "none" =>
          order[o].version = 0 /\ order[o].expires = Null /\ order[o].quantity = 0
    /\ Empty(order[o])
UserCart(u) ==
    user[u].cart # Null => Caller[user[u].cart] = u /\ order[user[u].cart].status # "none"
Superseded(o) ==
    o \notin revived /\ order[o].status = "Draft" /\ user[Caller[o]].cart # o
    => Before(order[o].expires, now)
Bound(t) ==
    row[t].status = "Purchased" => row[t].item # Null /\ row[t].wallet = Caller[row[t].item]
InMoney(r) ==
    pay[r] = "Completed" /\ InFull(r) /\ (tx[r].kind = "card" => charge[r] = "captured")
Payer(r, o) == tx[r].cart = o /\ pay[r] # "none" /\ (o \in FreeOrders \/ InMoney(r))
PaidFor(o) == order[o].status = "Paid" => \E r \in Requests : Payer(r, o)
PaysLast(r) == pay[r] = "Completed" => pc[r] = "ok"

Database ==
    /\ \A o \in Requests : Fresh(o) /\ Whole(o) /\ Superseded(o) /\ PaidFor(o) /\ PaysLast(o)
    /\ \A u \in Users : UserCart(u)
    /\ \A t \in Tickets : Bound(t)

Own(r) ==
    /\ Shape(r) /\ Stages(r) /\ Links(r) /\ Takes(r) /\ WholeFor(r)
    /\ tx[r].order # Null => Empty(tx[r].order)

Working == \A r \in Requests : Own(r)

NoConflict == \A q, r \in Requests : q # r => Apart(q, r)

Checkout == Typed /\ Working /\ NoConflict /\ Database

-----------------------------------------------------------------------------
(* Steps.                                                                  *)

\* A step of request r: it goes to p, its transaction is x, its charge c.
Moved(r, p, x, c) ==
    /\ pc' = [pc EXCEPT ![r] = p]
    /\ tx' = [tx EXCEPT ![r] = x]
    /\ charge' = [charge EXCEPT ![r] = c]
Same == UNCHANGED <<now, order, user, row, pay, revived>>
Stays(r, p, x, c) == Moved(r, p, x, c) /\ Same
Stops(r, p, c) == Stays(r, p, Emptied(tx[r]), c)

\* What a step of r leaves to the other requests.
Frame(r) ==
    \A q \in Requests \ {r} : pc'[q] = pc[q] /\ tx'[q] = tx[q] /\ charge'[q] = charge[q]

\* The step of one request shows in its own variables only.
LEMMA MovedFacts ==
    ASSUME Typed, NEW r \in Requests, NEW p, NEW x, NEW c, Moved(r, p, x, c)
    PROVE  Frame(r) /\ pc'[r] = p /\ tx'[r] = x /\ charge'[r] = c
BY DEF Typed, Moved, Frame

\* The kinds of the requests.
LEMMA KindsAre ==
    ASSUME Typed, NEW r \in Requests
    PROVE  tx[r].kind \in {"update", "card", "external", "free"}
BY KindAssumption DEF Typed, Transaction, RequestKinds

\* An emptied transaction is one, and has written nothing.
LEMMA EmptiedFacts ==
    ASSUME NEW x \in Transaction
    PROVE  /\ Emptied(x) \in Transaction
           /\ Emptied(x).kind = x.kind /\ Emptied(x).now = x.now /\ Emptied(x).cart = x.cart
           /\ Emptied(x).version = x.version /\ Emptied(x).seen = x.seen
           /\ Emptied(x).order = Null /\ Emptied(x).user = Null
           /\ Emptied(x).rows = NoRows /\ Emptied(x).pay = Null
<1>1. NoRows \in Writes
  <2>1. NoRows \in [{} -> Rows]
    BY DEF NoRows
  <2> QED BY <2>1 DEF Writes
<1>2. x = [kind |-> x.kind, now |-> x.now, cart |-> x.cart, version |-> x.version,
           seen |-> x.seen, order |-> x.order, user |-> x.user, rows |-> x.rows, pay |-> x.pay]
  BY DEF Transaction
<1> QED BY <1>1, <1>2 DEF Emptied, Transaction

\* The writes of a transaction are rows of tickets.
LEMMA WritesFacts ==
    ASSUME NEW w \in Writes
    PROVE  DOMAIN w \subseteq Tickets /\ \A t \in DOMAIN w : w[t] \in Rows
BY DEF Writes

LEMMA WritesMade ==
    ASSUME NEW T \in SUBSET Tickets, NEW w \in [T -> Rows]
    PROVE  w \in Writes
BY DEF Writes

\* The error paths of the handlers only end the request.
LEMMA RolledBack ==
    ASSUME Typed, NEW r \in Requests, NEW end, RollBack(r, end)
    PROVE  /\ UNCHANGED charge => Stops(r, end, charge[r])
           /\ \A c : charge' = [charge EXCEPT ![r] = c] => Stops(r, end, c)
<1>1. charge = [charge EXCEPT ![r] = charge[r]]
  BY DEF Typed
<1>2. tx' = [tx EXCEPT ![r] = Emptied(tx[r])]
  BY DEF RollBack
<1> QED BY <1>1, <1>2 DEF RollBack, Goto, Stops, Stays, Moved, Same

LEMMA Refused ==
    ASSUME Typed, NEW r \in Requests, Refuse(r)
    PROVE  Stops(r, "refused", charge[r])
BY RolledBack DEF Refuse

LEMMA RefundedOrRefused ==
    ASSUME Typed, NEW r \in Requests, RefundAndRefuse(r)
    PROVE  \/ charge[r] = "none" /\ Stops(r, "refused", charge[r])
           \/ charge[r] # "none" /\ Stops(r, "refused", "refunded")
           \/ charge[r] # "none" /\ Stops(r, "fault", charge[r])
<1>1. CASE charge[r] = "none"
  BY <1>1, Refused DEF RefundAndRefuse
<1>2. CASE charge[r] # "none"
  <2>1. CASE RollBack(r, "refused") /\ charge' = [charge EXCEPT ![r] = "refunded"]
    BY <1>2, <2>1, RolledBack
  <2>2. CASE RollBack(r, "fault") /\ UNCHANGED charge
    BY <1>2, <2>2, RolledBack
  <2> QED BY <1>2, <2>1, <2>2 DEF RefundAndRefuse
<1> QED BY <1>1, <1>2

-----------------------------------------------------------------------------
(* The handlers' steps, one outcome after the other.                       *)

\* Where the action leaves the charge alone it stays.
LEMMA NoCharge ==
    ASSUME Typed, NEW r \in Requests, NEW p, NEW x, Goto(r, p), tx' = [tx EXCEPT ![r] = x],
           UNCHANGED <<now, order, user, row, pay, charge, revived>>
    PROVE  Stays(r, p, x, charge[r])
<1>1. charge' = [charge EXCEPT ![r] = charge[r]]
  BY DEF Typed
<1> QED BY <1>1 DEF Goto, Stays, Moved, Same

LEMMA NoChange ==
    ASSUME Typed, NEW r \in Requests, NEW p, Goto(r, p),
           UNCHANGED <<now, order, user, row, pay, tx, revived>>
    PROVE  /\ UNCHANGED charge => Stays(r, p, tx[r], charge[r])
           /\ \A c : charge' = [charge EXCEPT ![r] = c] => Stays(r, p, tx[r], c)
<1>1. charge = [charge EXCEPT ![r] = charge[r]] /\ tx = [tx EXCEPT ![r] = tx[r]]
  BY DEF Typed
<1> QED BY <1>1 DEF Goto, Stays, Moved, Same

Begun(r, kind) == [tx[r] EXCEPT !.kind = kind, !.now = now, !.seen = user[Caller[r]]]

LEMMA BeginMoves ==
    ASSUME Typed, NEW r \in Requests, NEW kind \in Kinds, Begin(r, kind)
    PROVE  Begun(r, kind) \in Transaction /\ Stays(r, "find", Begun(r, kind), charge[r])
<1>1. Begun(r, kind) \in Transaction
  BY ZenonT(40) DEF Typed, Transaction, Begun, Users
<1>2. tx' = [tx EXCEPT ![r] = Begun(r, kind)]
  BY DEF Begin, Begun, Typed
<1> QED BY <1>1, <1>2, NoCharge DEF Begin

Found(r, o) == [tx[r] EXCEPT !.cart = o, !.version = order[o].version]

LEMMA FindCartMoves ==
    ASSUME Typed, NEW r \in Requests, FindCart(r), NEW o, o = user[Caller[r]].cart
    PROVE  \/ /\ o \in Requests /\ IsCart(o, tx[r].now) /\ Found(r, o) \in Transaction
              /\ Stays(r, "lock", Found(r, o), charge[r])
           \/ /\ ~IsCart(o, tx[r].now) /\ tx[r].kind = "update"
              /\ Stays(r, "create", tx[r], charge[r])
           \/ Stops(r, "refused", charge[r])
<1>1. CASE IsCart(o, tx[r].now) /\ ~Refuse(r)
  <2>1. o \in Requests
    BY <1>1 DEF IsCart, Typed, UserRows, Users
  <2>2. Found(r, o) \in Transaction
    <3>1. order[o].version \in Nat
      BY <2>1 DEF Typed, Orders
    <3>2. tx[r] \in Transaction
      BY DEF Typed
    <3> QED BY <2>1, <3>1, <3>2 DEF Found, Transaction
  <2>3. tx' = [tx EXCEPT ![r] = Found(r, o)]
    BY <1>1 DEF FindCart, Found, Typed
  <2> QED BY <1>1, <2>1, <2>2, <2>3, NoCharge DEF FindCart
<1>2. CASE ~IsCart(o, tx[r].now) /\ ~Refuse(r)
  BY <1>2, NoChange DEF FindCart
<1>3. CASE Refuse(r)
  BY <1>3, Refused
<1> QED BY <1>1, <1>2, <1>3

Created(r) == [tx[r] EXCEPT !.cart = r, !.version = 0, !.order = NewCart]

LEMMA NewCartFacts == NewCart \in Orders
BY FiniteAssumption DEF NewCart, Orders

LEMMA CreateCartMoves ==
    ASSUME Typed, NEW r \in Requests, CreateCart(r)
    PROVE  \/ Created(r) \in Transaction /\ Stays(r, "link", Created(r), charge[r])
           \/ Stops(r, "refused", charge[r])
<1>1. CASE Refuse(r)
  BY <1>1, Refused
<1>2. CASE ~Refuse(r)
  <2>1. Created(r) \in Transaction
    BY NewCartFacts, ZenonT(40) DEF Created, Typed, Transaction
  <2>2. tx' = [tx EXCEPT ![r] = Created(r)]
    BY <1>2 DEF CreateCart, Created, Typed
  <2> QED BY <1>2, <2>1, <2>2, NoCharge DEF CreateCart
<1> QED BY <1>1, <1>2

WithUser(r, c) == [tx[r] EXCEPT !.user = [cart |-> c, stamp |-> tx[r].seen.stamp + 1]]

LEMMA WithUserFacts ==
    ASSUME Typed, NEW r \in Requests, NEW c \in Requests \cup {Null}
    PROVE  WithUser(r, c) \in Transaction
<1>1. tx[r].seen.stamp + 1 \in Nat
  BY DEF Typed, Transaction, UserRows
<1>2. [cart |-> c, stamp |-> tx[r].seen.stamp + 1] \in UserRows
  BY <1>1 DEF UserRows
<1> QED BY <1>2, SMTT(60) DEF WithUser, Typed, Transaction

LEMMA LinkCartMoves ==
    ASSUME Typed, NEW r \in Requests, LinkCart(r)
    PROVE  \/ /\ AsSeen(r) /\ WithUser(r, r) \in Transaction
              /\ Stays(r, "lock", WithUser(r, r), charge[r])
           \/ Stops(r, "refused", charge[r])
<1>1. CASE Refuse(r)
  BY <1>1, Refused
<1>2. CASE ~Refuse(r)
  <2>1. WithUser(r, r) \in Transaction
    BY WithUserFacts
  <2>2. tx' = [tx EXCEPT ![r] = WithUser(r, r)]
    BY <1>2 DEF LinkCart, WithUser, Typed
  <2> QED BY <1>2, <2>1, <2>2, NoCharge DEF LinkCart
<1> QED BY <1>1, <1>2

Locking(r) ==
    [tx[r] EXCEPT !.order = [Cart(r) EXCEPT !.version = @ + 1], !.version = @ + 1]

\* A request sees a well-formed order.
LEMMA CartFacts ==
    ASSUME Typed, NEW r \in Requests, tx[r].cart # Null
    PROVE  tx[r].cart \in Requests /\ Cart(r) \in Orders
BY DEF Typed, Transaction, Cart

LEMMA LockMoves ==
    ASSUME Typed, NEW r \in Requests, tx[r].cart # Null, Lock(r)
    PROVE  \/ /\ SameVersion(r) /\ Locking(r) \in Transaction
              /\ Stays(r, AfterLock(tx[r].kind), Locking(r), charge[r])
           \/ Stops(r, "refused", charge[r])
<1>1. CASE Refuse(r)
  BY <1>1, Refused
<1>2. CASE ~Refuse(r)
  <2>1. [Cart(r) EXCEPT !.version = @ + 1] \in Orders
    BY CartFacts DEF Orders
  <2>2. Locking(r) \in Transaction
    <3>1. tx[r] \in Transaction
      BY DEF Typed
    <3>2. tx[r].version + 1 \in Nat
      BY <3>1 DEF Transaction
    <3> QED BY <2>1, <3>1, <3>2 DEF Locking, Transaction
  <2>3. tx' = [tx EXCEPT ![r] = Locking(r)]
    BY <1>2 DEF Lock, Locking, Typed
  <2> QED BY <1>2, <2>2, <2>3, NoCharge DEF Lock
<1> QED BY <1>1, <1>2

\* Growing and shrinking a cart: the tickets T are written, the order is c.
Writing(r, w, c) == [tx[r] EXCEPT !.rows = w, !.order = c]
ExpiryOf(r) == IF Cart(r).expires = Null THEN now + CartTTL ELSE Cart(r).expires
Reserves(r, T) == [t \in T |-> ReservedFor(row[t], tx[r].cart, ExpiryOf(r))]
Grown(r, q) == [Cart(r) EXCEPT !.quantity = q, !.expires = ExpiryOf(r)]
Releases(T) == [t \in T |-> Released(row[t])]
Shrunk(r, q) ==
    [Cart(r) EXCEPT !.quantity = q, !.expires = IF q = 0 THEN Null ELSE Cart(r).expires]

\* What the statements write to a row leaves it a row.
LEMMA RowOperations ==
    ASSUME NEW x \in Rows
    PROVE  /\ \A i \in Requests, u \in Times \cup {Null} : ReservedFor(x, i, u) \in Rows
           /\ Released(x) \in Rows
           /\ \A u \in Times \cup {Null} : KeptUntil(x, u) \in Rows
           /\ \A i \in Requests, w \in Users : PurchasedBy(x, i, w) \in Rows
BY DEF Rows, ReservedFor, Released, KeptUntil, PurchasedBy, Statuses

\* What they change of it.
LEMMA RowColumns ==
    ASSUME NEW x \in Rows, NEW i, NEW u, NEW w
    PROVE  /\ ReservedFor(x, i, u).item = i /\ ReservedFor(x, i, u).until = u
           /\ ReservedFor(x, i, u).status = "Reserved"
           /\ Released(x).item = Null /\ Released(x).status = "Available"
           /\ KeptUntil(x, u).item = x.item /\ KeptUntil(x, u).wallet = x.wallet
           /\ KeptUntil(x, u).status = x.status
           /\ PurchasedBy(x, i, w).item = x.item /\ PurchasedBy(x, i, w).wallet = w
           /\ PurchasedBy(x, i, w).status = "Purchased"
BY DEF Rows, ReservedFor, Released, KeptUntil, PurchasedBy

LEMMA TimesFacts ==
    ASSUME Typed
    PROVE  now + CartTTL \in Times /\ now + PayTTL \in Times /\ now \in Int
BY TimeAssumption DEF Typed, Times

LEMMA ExpiryFacts ==
    ASSUME Typed, NEW r \in Requests, tx[r].cart # Null
    PROVE  ExpiryOf(r) \in Times
<1>1. Cart(r).expires \in Times \cup {Null}
  BY CartFacts DEF Orders
<1> QED BY <1>1, TimesFacts DEF ExpiryOf

LEMMA GrowMoves ==
    ASSUME Typed, NEW r \in Requests, tx[r].cart # Null, NEW q \in 0..MaxQuantity,
           pc[r] = "body", Grow(r, q)
    PROVE  \/ \E T \in SUBSET Free(r) :
                 /\ Cardinality(T) = q - Cart(r).quantity
                 /\ Writing(r, Reserves(r, T), Grown(r, q)) \in Transaction
                 /\ Stays(r, "commit", Writing(r, Reserves(r, T), Grown(r, q)), charge[r])
           \/ Stops(r, "refused", charge[r])
<1>1. CASE Refuse(r)
  BY <1>1, Refused
<1>2. CASE ~Refuse(r)
  <2>1. PICK T \in SUBSET Free(r) :
           /\ Cardinality(T) = q - Cart(r).quantity
           /\ Goto(r, "commit")
           /\ tx' = [tx EXCEPT ![r].rows = Reserves(r, T), ![r].order = Grown(r, q)]
           /\ UNCHANGED <<now, order, user, row, pay, charge, revived>>
    BY <1>2 DEF Grow, Reserves, Grown, ExpiryOf, Written
  <2>2. Writing(r, Reserves(r, T), Grown(r, q)) \in Transaction
    <3>1. Grown(r, q) \in Orders
      BY CartFacts, ExpiryFacts DEF Grown, Orders
    <3>2. Reserves(r, T) \in Writes
      <4>1. T \subseteq Tickets
        BY DEF Free
      <4>2. \A t \in T : ReservedFor(row[t], tx[r].cart, ExpiryOf(r)) \in Rows
        BY <4>1, CartFacts, ExpiryFacts, RowOperations DEF Typed
      <4> QED BY <4>1, <4>2, WritesMade DEF Reserves
    <3>3. tx[r] \in Transaction
      BY DEF Typed
    <3> QED BY <3>1, <3>2, <3>3 DEF Writing, Transaction
  <2>3. tx' = [tx EXCEPT ![r] = Writing(r, Reserves(r, T), Grown(r, q))]
    BY <2>1 DEF Writing, Typed
  <2>4. Stays(r, "commit", Writing(r, Reserves(r, T), Grown(r, q)), charge[r])
    BY <2>1, <2>3, NoCharge
  <2> QED BY <2>1, <2>2, <2>4
<1> QED BY <1>1, <1>2

LEMMA ShrinkMoves ==
    ASSUME Typed, NEW r \in Requests, tx[r].cart # Null, NEW q \in 0..MaxQuantity,
           pc[r] = "body", Shrink(r, q)
    PROVE  \/ \E T \in SUBSET Mine(r) :
                 /\ Cardinality(T) = Cart(r).quantity - q
                 /\ q = 0 => Cart(r).expires > now
                 /\ Writing(r, Releases(T), Shrunk(r, q)) \in Transaction
                 /\ Stays(r, "commit", Writing(r, Releases(T), Shrunk(r, q)), charge[r])
           \/ Stops(r, "refused", charge[r])
<1>1. CASE Refuse(r)
  BY <1>1, Refused
<1>2. CASE ~Refuse(r)
  <2>1. PICK T \in SUBSET Mine(r) :
           /\ Cardinality(T) = Cart(r).quantity - q
           /\ q = 0 => Cart(r).expires > now
           /\ Goto(r, "commit")
           /\ tx' = [tx EXCEPT ![r].rows = Releases(T), ![r].order = Shrunk(r, q)]
           /\ UNCHANGED <<now, order, user, row, pay, charge, revived>>
    BY <1>2 DEF Shrink, Releases, Shrunk, Written
  <2>2. Writing(r, Releases(T), Shrunk(r, q)) \in Transaction
    <3>1. Shrunk(r, q) \in Orders
      BY CartFacts DEF Shrunk, Orders
    <3>2. Releases(T) \in Writes
      <4>1. T \subseteq Tickets
        BY DEF Mine
      <4>2. \A t \in T : Released(row[t]) \in Rows
        BY <4>1, RowOperations DEF Typed
      <4> QED BY <4>1, <4>2, WritesMade DEF Releases
    <3>3. tx[r] \in Transaction
      BY DEF Typed
    <3> QED BY <3>1, <3>2, <3>3 DEF Writing, Transaction
  <2>3. tx' = [tx EXCEPT ![r] = Writing(r, Releases(T), Shrunk(r, q))]
    BY <2>1 DEF Writing, Typed
  <2>4. Stays(r, "commit", Writing(r, Releases(T), Shrunk(r, q)), charge[r])
    BY <2>1, <2>3, NoCharge
  <2> QED BY <2>1, <2>2, <2>4
<1> QED BY <1>1, <1>2

\* The steps of a checkout.
LEMMA AuthorizeMoves ==
    ASSUME Typed, NEW r \in Requests, Authorize(r)
    PROVE  \/ Stays(r, "mark", tx[r], "authorized")
           \/ Stops(r, "refused", charge[r])
BY NoChange, Refused DEF Authorize

Marking(r) == [tx[r] EXCEPT !.order = [tx[r].order EXCEPT !.status = "PartiallyPaid",
                                                          !.expires = now + PayTTL]]

LEMMA MarkOrderMoves ==
    ASSUME Typed, NEW r \in Requests, tx[r].cart # Null, tx[r].order # Null, MarkOrder(r)
    PROVE  \/ Marking(r) \in Transaction /\ Stays(r, "keep", Marking(r), charge[r])
           \/ RefundAndRefuse(r)
<1>1. CASE ~RefundAndRefuse(r)
  <2>1. tx' = [tx EXCEPT ![r] = Marking(r)]
    BY <1>1 DEF MarkOrder, Marking, Typed
  <2>2. Marking(r) \in Transaction
    <3>1. tx[r] \in Transaction /\ tx[r].order \in Orders
      BY DEF Typed, Transaction
    <3>2. [tx[r].order EXCEPT !.status = "PartiallyPaid", !.expires = now + PayTTL] \in Orders
      BY <3>1, TimesFacts DEF Orders
    <3> QED BY <3>1, <3>2 DEF Marking, Transaction
  <2> QED BY <1>1, <2>1, <2>2, NoCharge DEF MarkOrder
<1> QED BY <1>1

Keeps(r) == [t \in Bought(r) |-> KeptUntil(row[t], tx[r].order.expires)]
Keeping(r) ==
    [tx[r] EXCEPT !.rows = Keeps(r),
                  !.pay = IF tx[r].kind = "card" THEN "Authorized" ELSE "Completed"]

LEMMA KeepTicketsMoves ==
    ASSUME Typed, NEW r \in Requests, tx[r].cart # Null, tx[r].order # Null, KeepTickets(r)
    PROVE  /\ Keeping(r) \in Transaction
           /\ Stays(r, "complete", Keeping(r), charge[r])
<1>1. tx' = [tx EXCEPT ![r] = Keeping(r)]
  BY DEF KeepTickets, Keeping, Keeps, Written, Typed
<1>2. Keeping(r) \in Transaction
  <2>1. tx[r] \in Transaction /\ tx[r].order \in Orders
    BY DEF Typed, Transaction
  <2>2. Keeps(r) \in Writes
    <3>1. Bought(r) \subseteq Tickets
      BY DEF Bought
    <3>2. \A t \in Bought(r) : KeptUntil(row[t], tx[r].order.expires) \in Rows
      <4>1. tx[r].order.expires \in Times \cup {Null}
        BY <2>1 DEF Orders
      <4> QED BY <4>1, <3>1, RowOperations DEF Typed
    <3> QED BY <3>1, <3>2, WritesMade DEF Keeps
  <2> QED BY <2>1, <2>2 DEF Keeping, Transaction, Payments
<1> QED BY <1>1, <1>2, NoCharge DEF KeepTickets

Captured(r) == [tx[r] EXCEPT !.pay = "Completed"]

LEMMA CaptureMoves ==
    ASSUME Typed, NEW r \in Requests, Capture(r)
    PROVE  \/ Captured(r) \in Transaction /\ Stays(r, "complete", Captured(r), "captured")
           \/ Stops(r, "fault", charge[r])
<1>1. CASE RollBack(r, "fault") /\ UNCHANGED charge
  BY <1>1, RolledBack
<1>2. CASE ~(RollBack(r, "fault") /\ UNCHANGED charge)
  <2>1. Captured(r) \in Transaction
    BY DEF Captured, Typed, Transaction, Payments
  <2>2. /\ Goto(r, "complete") /\ charge' = [charge EXCEPT ![r] = "captured"]
        /\ tx' = [tx EXCEPT ![r] = Captured(r)]
        /\ UNCHANGED <<now, order, user, row, pay, revived>>
    BY <1>2 DEF Capture, Captured, Typed
  <2> QED BY <2>1, <2>2 DEF Goto, Stays, Moved, Same
<1> QED BY <1>1, <1>2

Buys(r) == [t \in Bought(r) |-> PurchasedBy(Seen(r, t), tx[r].cart, Caller[r])]
Completing(r) ==
    [tx[r] EXCEPT !.order = [Cart(r) EXCEPT !.status = "Paid"], !.rows = Buys(r),
                  !.seen = user[Caller[r]]]

\* A request sees well-formed rows.
LEMMA SeenFacts ==
    ASSUME Typed, NEW r \in Requests, NEW t \in Tickets
    PROVE  Seen(r, t) \in Rows
<1>1. tx[r].rows \in Writes
  BY DEF Typed, Transaction
<1> QED BY <1>1, WritesFacts DEF Seen, Typed

LEMMA CompleteMoves ==
    ASSUME Typed, NEW r \in Requests, tx[r].cart # Null, Complete(r)
    PROVE  \/ ~Covered(r) /\ Stays(r, AfterPayment(r), tx[r], charge[r])
           \/ /\ Covered(r) /\ ~OrderLocked(tx[r].cart, r) /\ ~Waits(r)
              /\ Completing(r) \in Transaction
              /\ Stays(r, IF user[Caller[r]].cart = tx[r].cart THEN "unlink" ELSE AfterPayment(r),
                       Completing(r), charge[r])
<1>0. CASE ~Covered(r)
  BY <1>0, NoChange DEF Complete
<1>1. ASSUME Covered(r)
      PROVE  tx' = [tx EXCEPT ![r] = Completing(r)]
  BY <1>1 DEF Complete, Completing, Buys, Typed
<1>2. Completing(r) \in Transaction
  <2>1. tx[r] \in Transaction /\ Caller[r] \in Users /\ user[Caller[r]] \in UserRows
    BY DEF Typed, Users
  <2>2. Buys(r) \in Writes
    <3>1. Bought(r) \subseteq Tickets
      BY DEF Bought
    <3>2. \A t \in Bought(r) : PurchasedBy(Seen(r, t), tx[r].cart, Caller[r]) \in Rows
      BY <2>1, <3>1, CartFacts, SeenFacts, RowOperations
    <3> QED BY <3>1, <3>2, WritesMade DEF Buys
  <2>3. [Cart(r) EXCEPT !.status = "Paid"] \in Orders
    BY CartFacts DEF Orders
  <2> QED BY <2>1, <2>2, <2>3 DEF Completing, Transaction
<1> QED BY <1>0, <1>1, <1>2, NoCharge DEF Complete

LEMMA UnlinkCartMoves ==
    ASSUME Typed, NEW r \in Requests, UnlinkCart(r)
    PROVE  \/ /\ AsSeen(r) /\ WithUser(r, Null) \in Transaction
              /\ Stays(r, AfterPayment(r), WithUser(r, Null), charge[r])
           \/ RefundAndRefuse(r)
<1>1. CASE ~RefundAndRefuse(r)
  <2>1. WithUser(r, Null) \in Transaction
    BY WithUserFacts
  <2>2. tx' = [tx EXCEPT ![r] = WithUser(r, Null)]
    BY <1>1 DEF UnlinkCart, WithUser, Typed
  <2> QED BY <1>1, <2>1, <2>2, NoCharge DEF UnlinkCart
<1> QED BY <1>1

LEMMA TransferTokensMoves ==
    ASSUME Typed, NEW r \in Requests, TransferTokens(r)
    PROVE  \/ Stays(r, "commit", tx[r], charge[r])
           \/ Stops(r, "fault", charge[r])
BY NoChange, RolledBack DEF TransferTokens

LEMMA CrashMoves ==
    ASSUME Typed, NEW r \in Requests, Crash(r)
    PROVE  Stops(r, "fault", charge[r])
BY RolledBack DEF Crash

LEMMA SameQuantityMoves ==
    ASSUME Typed, NEW r \in Requests, Goto(r, "commit"),
           UNCHANGED <<now, order, user, row, pay, charge, tx, revived>>
    PROVE  Stays(r, "commit", tx[r], charge[r])
BY NoChange

\* The steps that commit.
Applies(r, p, x) == Moved(r, p, x, charge[r]) /\ Apply(r) /\ UNCHANGED now

LEMMA Applied ==
    ASSUME Typed, NEW r \in Requests, NEW p, NEW x, Apply(r), Goto(r, p),
           tx' = [tx EXCEPT ![r] = x], UNCHANGED <<now, charge>>
    PROVE  Applies(r, p, x)
<1>1. charge' = [charge EXCEPT ![r] = charge[r]]
  BY DEF Typed
<1> QED BY <1>1 DEF Applies, Moved, Goto

LEMMA UnpublishedMoves ==
    ASSUME Typed, NEW r \in Requests, Unpublished(r)
    PROVE  Applies(r, "refused", Emptied(tx[r]))
<1>1. tx' = [tx EXCEPT ![r] = Emptied(tx[r])]
  BY DEF Unpublished
<1> QED BY <1>1, Applied DEF Unpublished

LEMMA CommitMoves ==
    ASSUME Typed, NEW r \in Requests, Commit(r)
    PROVE  Applies(r, "ok", Emptied(tx[r]))
<1>1. tx' = [tx EXCEPT ![r] = Emptied(tx[r])]
  BY DEF Commit
<1> QED BY <1>1, Applied DEF Commit

Authorized(r) == [Emptied(tx[r]) EXCEPT !.now = now]

LEMMA CommitAuthorizationMoves ==
    ASSUME Typed, NEW r \in Requests, CommitAuthorization(r)
    PROVE  Authorized(r) \in Transaction /\ Applies(r, "capture", Authorized(r))
<1>1. tx' = [tx EXCEPT ![r] = Authorized(r)]
  BY DEF CommitAuthorization, Authorized
<1>2. Emptied(tx[r]) \in Transaction
  BY EmptiedFacts DEF Typed
<1>3. Authorized(r) \in Transaction
  BY <1>2 DEF Authorized, Transaction, Typed
<1> QED BY <1>1, <1>3, Applied DEF CommitAuthorization

-----------------------------------------------------------------------------
(* Types.                                                                  *)

LEMMA TypedStays ==
    ASSUME Typed, NEW r \in Requests, NEW p \in Steps \cup Ended, NEW x \in Transaction, x.now <= now,
           NEW c \in {"none", "authorized", "captured", "refunded"}, Stays(r, p, x, c)
    PROVE  Typed'
<1>1. tx' = [tx EXCEPT ![r] = x]
  BY DEF Stays, Moved
<1>2. tx' \in [Requests -> Transaction] /\ \A q \in Requests : tx'[q].now <= now
  BY <1>1 DEF Typed
<1> QED BY <1>2 DEF Typed, Stays, Moved, Same

LEMMA TypedStops ==
    ASSUME Typed, NEW r \in Requests, NEW p \in Ended,
           NEW c \in {"none", "authorized", "captured", "refunded"}, Stops(r, p, c)
    PROVE  Typed'
<1>1. Emptied(tx[r]) \in Transaction /\ Emptied(tx[r]).now <= now
  BY EmptiedFacts DEF Typed
<1> QED BY <1>1, TypedStays DEF Stops

LEMMA TypedApplies ==
    ASSUME Typed, NEW r \in Requests, NEW p \in Steps \cup Ended, NEW x \in Transaction, x.now <= now,
           tx[r].order # Null => tx[r].cart # Null, Applies(r, p, x)
    PROVE  Typed'
<1>0. tx[r] \in Transaction
  BY DEF Typed
<1>1. tx' = [tx EXCEPT ![r] = x] /\ now' = now
  BY DEF Applies, Moved
<1>2. tx' \in [Requests -> Transaction] /\ \A q \in Requests : tx'[q].now <= now
  BY <1>1 DEF Typed
<1>3. order' \in [Requests -> Orders]
  BY <1>0 DEF Typed, Applies, Apply, Transaction
<1>4. user' \in [Users -> UserRows]
  BY <1>0 DEF Typed, Applies, Apply, Transaction
<1>5. row' \in [Tickets -> Rows]
  <2>1. row' = [t \in Tickets |-> Seen(r, t)]
    BY DEF Applies, Apply
  <2> QED BY <2>1, SeenFacts
<1>6. pay' \in [Requests -> Payments]
  BY <1>0 DEF Typed, Applies, Apply, Transaction
<1>7. revived' \subseteq Requests
  BY <1>0 DEF Typed, Applies, Apply, Transaction, Revives
<1>8. charge' = [charge EXCEPT ![r] = charge[r]] /\ pc' = [pc EXCEPT ![r] = p]
  BY DEF Applies, Moved
<1> QED BY <1>1, <1>2, <1>3, <1>4, <1>5, <1>6, <1>7, <1>8 DEF Typed

-----------------------------------------------------------------------------
(* A step that commits nothing.                                            *)

LEMMA OthersStay ==
    ASSUME NEW r \in Requests, NEW q \in Requests \ {r}, Frame(r), Own(q),
           UNCHANGED <<now, order, user, row, revived>>, pay'[q] = pay[q]
    PROVE  Own(q)'
<1>1. pc'[q] = pc[q] /\ tx'[q] = tx[q] /\ charge'[q] = charge[q]
  BY DEF Frame
<1>2. Shape(q)'
  BY <1>1 DEF Own, Shape, AtStart, AtLink, AtLock, AtBody, AtAuth, AtMark, AtCapture, AtComplete,
              AtUnlink, AtTokens, AtCommit, AtEnd, Nothing, Made, Linked, Unlinked, Charged, InOrder,
              Promised, MoneyIn, Second, Unpaid, PaidUp, Finished, Covered, InFull
<1>3. Stages(q)'
  BY <1>1 DEF Own, Stages, OwnCart, NotYet, FoundDraft, WritesDraft, WritesPaid, Unborn,
              Settled, Linked, InFull
<1>4. Links(q)'
  BY <1>1 DEF Own, Links, HasSeen, Replaces, WritesUser, AsSeen, Gone, Linked, Unlinked
<1>5. Takes(q)'
  BY <1>1 DEF Own, Takes, WritesRow, RowOf
<1>6. WholeFor(q)'
  BY <1>1 DEF Own, WholeFor, HeldBy, Seen, InUse
<1> QED BY <1>1, <1>2, <1>3, <1>4, <1>5, <1>6 DEF Own, Empty

LEMMA OthersApart ==
    ASSUME NEW r \in Requests, NEW q \in Requests \ {r}, NEW s \in Requests \ {r}, Frame(r),
           Apart(q, s)
    PROVE  Apart(q, s)'
BY DEF Frame, Apart, Settled

LEMMA ApartIsSymmetricNext ==
    ASSUME NEW q \in Requests, NEW r \in Requests, Apart(q, r)'
    PROVE  Apart(r, q)'
BY DEF Apart

\* The database stays as it is; only a request that has not ended moves.
LEMMA DatabaseStays ==
    ASSUME Typed, Database, NEW r \in Requests, NEW p, NEW x, NEW c, Stays(r, p, x, c),
           pc[r] # "ok", pay[r] # "none" => x.cart = tx[r].cart
    PROVE  Database'
<1>1. Frame(r) /\ tx'[r] = x
  BY MovedFacts DEF Stays
<1>2. pay[r] # "Completed"
  BY DEF Database, PaysLast
<1>3. \A o \in Requests : PaysLast(o)'
  BY <1>1, <1>2 DEF Database, PaysLast, Frame, Stays, Same
<1>4. \A o \in Requests : PaidFor(o)'
  <2> SUFFICES ASSUME NEW o \in Requests, order[o].status = "Paid"
               PROVE  \E q \in Requests : Payer(q, o)'
    BY DEF PaidFor, Stays, Same
  <2>1. PICK q \in Requests : Payer(q, o)
    BY DEF Database, PaidFor
  <2>2. CASE q # r
    BY <2>1, <2>2, <1>1 DEF Payer, InMoney, InFull, Frame, Stays, Same
  <2>3. CASE q = r
    BY <2>1, <2>3, <1>1, <1>2 DEF Payer, InMoney, Stays, Same
  <2> QED BY <2>2, <2>3
<1>5. \A o \in Requests : Fresh(o)' /\ Whole(o)' /\ Superseded(o)'
  BY DEF Database, Stays, Same, Fresh, Whole, Superseded, Empty, InUse, Held
<1>6. (\A u \in Users : UserCart(u)') /\ (\A t \in Tickets : Bound(t)')
  BY DEF Database, Stays, Same, UserCart, Bound
<1> QED BY <1>3, <1>4, <1>5, <1>6 DEF Database

\* What is left to show for a step of r.
LEMMA StepStays ==
    ASSUME Checkout, NEW r \in Requests, NEW p, NEW x, NEW c, Stays(r, p, x, c),
           pc[r] # "ok", pay[r] # "none" => x.cart = tx[r].cart,
           Typed', Own(r)', \A q \in Requests \ {r} : Apart(r, q)'
    PROVE  Checkout'
<1>1. Frame(r)
  BY MovedFacts DEF Stays, Checkout
<1>2. Working'
  <2>1. \A q \in Requests \ {r} : Own(q)'
    BY <1>1, OthersStay DEF Checkout, Working, Stays, Same
  <2> QED BY <2>1 DEF Working
<1>3. NoConflict'
  <2>1. \A q, s \in Requests \ {r} : q # s => Apart(q, s)'
    BY <1>1, OthersApart DEF Checkout, NoConflict
  <2>2. \A q \in Requests \ {r} : Apart(q, r)'
    BY ApartIsSymmetricNext
  <2> QED BY <2>1, <2>2 DEF NoConflict
<1>4. Database'
  BY DatabaseStays DEF Checkout
<1> QED BY <1>2, <1>3, <1>4 DEF Checkout

\* What two requests owe each other, as long as the one writes no more than it did.
LEMMA ApartKept ==
    ASSUME NEW r \in Requests, NEW q \in Requests \ {r}, Frame(r), Apart(r, q),
           tx'[r].order # Null => tx[r].order # Null /\ tx'[r].cart = tx[r].cart,
           tx'[r].user # Null => tx[r].user # Null,
           DOMAIN tx'[r].rows \subseteq DOMAIN tx[r].rows,
           Settled(r)' => Settled(r) /\ tx'[r].cart = tx[r].cart
    PROVE  Apart(r, q)'
<1>1. pc'[q] = pc[q] /\ tx'[q] = tx[q] /\ charge'[q] = charge[q]
  BY DEF Frame
<1>2. Settled(q)' => Settled(q)
  BY <1>1 DEF Settled
<1> QED BY <1>1, <1>2 DEF Apart

LEMMA NoRowsFacts == DOMAIN NoRows = {}
BY DEF NoRows

-----------------------------------------------------------------------------
(* A request that ends without its commit.                                 *)

LEMMA StopsStay ==
    ASSUME Checkout, NEW r \in Requests, NEW p \in {"refused", "fault"},
           NEW c \in {"none", "authorized", "captured", "refunded"}, Stops(r, p, c),
           pc[r] # "ok",
           c # "none" => tx[r].kind = "card" /\ tx[r].cart # Null,
           p = "refused" => c \in {"none", "refunded"},
           p = "fault" => c # "refunded",
           c = "captured" => Settled(r)
    PROVE  Checkout'
<1> DEFINE x == Emptied(tx[r])
<1>1. x \in Transaction /\ x.kind = tx[r].kind /\ x.cart = tx[r].cart
      /\ x.order = Null /\ x.user = Null /\ x.rows = NoRows /\ x.pay = Null
  BY EmptiedFacts DEF Checkout, Typed
<1>2. Stays(r, p, x, c)
  BY DEF Stops
<1> HIDE DEF x
<1>3. Frame(r) /\ pc'[r] = p /\ tx'[r] = x /\ charge'[r] = c
  BY <1>2, MovedFacts DEF Stays, Checkout
<1>4. Typed'
  BY TypedStops DEF Checkout, Ended
<1>5. Settled(r)' => Settled(r) /\ pc'[r] # "ok"
  BY <1>1, <1>3 DEF Settled
<1>6. Own(r)'
  <2>1. Shape(r)'
    BY <1>1, <1>3 DEF Shape, AtStart, AtLink, AtLock, AtBody, AtAuth, AtMark, AtCapture,
          AtComplete, AtUnlink, AtTokens, AtCommit, AtEnd, Nothing
  <2>2. Stages(r)'
    <3>1. Stages(r)
      BY DEF Checkout, Working, Own
    <3>2. OwnCart(r)' /\ NotYet(r)' /\ FoundDraft(r)' /\ WritesDraft(r)'
      BY <1>1, <1>2, <1>3, <3>1 DEF Stages, OwnCart, NotYet, FoundDraft, WritesDraft, Unborn
    <3>3. WritesPaid(r)'
      BY <1>1, <1>2, <1>3, <1>5, <3>1 DEF Stages, WritesPaid, Stays, Same
    <3> QED BY <3>2, <3>3 DEF Stages
  <2>3. Links(r)'
    BY <1>1, <1>3 DEF Links, HasSeen, Replaces, WritesUser
  <2>4. Takes(r)'
    BY <1>1, <1>3, NoRowsFacts DEF Takes
  <2>5. WholeFor(r)'
    BY <1>1, <1>3 DEF WholeFor
  <2> QED BY <1>1, <1>3, <2>1, <2>2, <2>3, <2>4, <2>5 DEF Own
<1>7. \A q \in Requests \ {r} : Apart(r, q)'
  BY <1>1, <1>3, <1>5, ApartKept, NoRowsFacts DEF Checkout, NoConflict
<1> QED BY <1>1, <1>2, <1>4, <1>6, <1>7, StepStays

\* Before it charges anything.
LEMMA RefusedStays ==
    ASSUME Checkout, NEW r \in Requests, charge[r] = "none", pc[r] # "ok",
           NEW p \in {"refused", "fault"}, Stops(r, p, charge[r])
    PROVE  Checkout'
BY StopsStay

\* What a request has charged tells how far it has come.
LEMMA ChargeFacts ==
    ASSUME Checkout, NEW r \in Requests, pc[r] \in Steps
    PROVE  /\ charge[r] # "refunded"
           /\ charge[r] # "none" => tx[r].kind = "card" /\ tx[r].cart # Null
           /\ charge[r] = "captured" => Settled(r)
           /\ charge[r] \in {"none", "authorized", "captured", "refunded"}
<1>1. Shape(r)
  BY DEF Checkout, Working, Own
<1>2. charge[r] \in {"none", "authorized", "captured", "refunded"}
  BY DEF Checkout, Typed
<1>3. pc[r] \in {"find", "create", "link", "lock", "body", "auth", "mark", "keep", "commitAuth",
                 "capture", "complete", "unlink", "tokens", "commit"}
  BY DEF Steps
<1>4. CASE pc[r] \in {"find", "create", "link", "lock", "body", "auth"}
  BY <1>1, <1>2, <1>4 DEF Shape, AtStart, AtLink, AtLock, AtBody, AtAuth
<1>5. CASE pc[r] \in {"mark", "keep", "commitAuth", "capture"}
  BY <1>1, <1>2, <1>5 DEF Shape, AtMark, AtCapture, Charged, InOrder
<1>6. CASE pc[r] \in {"complete", "unlink", "tokens"} \/ (pc[r] = "commit" /\ tx[r].kind # "update")
  <2>1. (Promised(r) \/ MoneyIn(r)) /\ (PaidUp(r) \/ Unpaid(r))
        /\ (pc[r] \in {"tokens", "commit"} => MoneyIn(r))
    BY <1>1, <1>6 DEF Shape, AtComplete, AtUnlink, AtTokens, AtCommit, Finished
  <2>2. tx[r].cart # Null
    BY <2>1 DEF PaidUp, Unpaid, InOrder
  <2> QED BY <1>2, <1>6, <2>1, <2>2 DEF Promised, MoneyIn, Charged, Settled
<1>7. CASE pc[r] = "commit" /\ tx[r].kind = "update"
  BY <1>1, <1>2, <1>7 DEF Shape, AtCommit
<1> QED BY <1>3, <1>4, <1>5, <1>6, <1>7

LEMMA CrashStays ==
    ASSUME Checkout, NEW r \in Requests, pc[r] \in Steps, Stops(r, "fault", charge[r])
    PROVE  Checkout'
BY ChargeFacts, StopsStay DEF Steps

LEMMA RefundStays ==
    ASSUME Checkout, NEW r \in Requests, pc[r] \in Steps, RefundAndRefuse(r)
    PROVE  Checkout'
<1>1. Typed /\ pc[r] # "ok"
  BY DEF Checkout, Steps
<1>2. CASE charge[r] = "none" /\ Stops(r, "refused", charge[r])
  BY <1>1, <1>2, RefusedStays
<1>3. CASE charge[r] # "none" /\ Stops(r, "refused", "refunded")
  BY <1>1, <1>3, ChargeFacts, StopsStay
<1>4. CASE charge[r] # "none" /\ Stops(r, "fault", charge[r])
  BY <1>4, CrashStays
<1> QED BY <1>1, <1>2, <1>3, <1>4, RefundedOrRefused

-----------------------------------------------------------------------------
(* Finding, creating and locking the cart.                                 *)

LEMMA BeginStays ==
    ASSUME Checkout, NEW r \in Requests, NEW kind \in Kinds, Begin(r, kind)
    PROVE  Checkout'
<1> DEFINE x == Begun(r, kind)
<1>1. x \in Transaction /\ Stays(r, "find", x, charge[r])
  BY BeginMoves DEF Checkout
<1>2. x.kind = kind /\ x.now = now /\ x.seen = user[Caller[r]] /\ x.cart = tx[r].cart
      /\ x.order = tx[r].order /\ x.user = tx[r].user /\ x.rows = tx[r].rows /\ x.pay = tx[r].pay
  BY DEF Begun, Checkout, Typed, Transaction
<1> HIDE DEF x
<1>3. Frame(r) /\ pc'[r] = "find" /\ tx'[r] = x /\ charge'[r] = charge[r] /\ pc[r] = "idle"
  BY <1>1, MovedFacts DEF Stays, Checkout, Begin
<1>4. Typed'
  BY <1>1, <1>2, TypedStays, SMTT(20) DEF Checkout, Typed, Steps
<1>5. AtStart(r) /\ Stages(r)
  BY DEF Checkout, Working, Own, Shape
<1>6. x.order = Null /\ x.user = Null /\ x.rows = NoRows /\ x.pay = Null /\ x.cart = Null
      /\ charge[r] = "none" /\ pay[r] = "none" /\ pay' = pay
  BY <1>1, <1>2, <1>3, <1>5 DEF Stays, Same, AtStart, Nothing
<1>7. Own(r)'
  <2>1. Shape(r)'
    BY <1>3, <1>6 DEF Shape, AtStart, AtLink, AtLock, AtBody, AtAuth, AtMark, AtCapture,
          AtComplete, AtUnlink, AtTokens, AtCommit, AtEnd, Nothing, Ended
  <2>2. Stages(r)'
    BY <1>1, <1>3, <1>5, <1>6 DEF Stages, OwnCart, NotYet, FoundDraft, WritesDraft, WritesPaid,
          Unborn, Stays, Same, Settled
  <2>3. Links(r)'
    <3>1. user[Caller[r]].stamp \in Nat
      BY DEF Checkout, Typed, UserRows, Users
    <3> QED BY <1>1, <1>2, <1>3, <1>6, <3>1 DEF Links, HasSeen, Replaces, WritesUser, AsSeen, Stays, Same
  <2>4. Takes(r)' /\ WholeFor(r)'
    BY <1>3, <1>6, NoRowsFacts DEF Takes, WholeFor
  <2> QED BY <1>3, <1>6, <2>1, <2>2, <2>3, <2>4 DEF Own
<1>8. \A q \in Requests \ {r} : Apart(r, q)'
  BY <1>2, <1>3, <1>6, ApartKept, NoRowsFacts DEF Checkout, NoConflict, Settled
<1> QED BY <1>1, <1>2, <1>3, <1>4, <1>7, <1>8, StepStays

LEMMA FindCartStays ==
    ASSUME Checkout, NEW r \in Requests, FindCart(r)
    PROVE  Checkout'
<1>1. PICK o : o = user[Caller[r]].cart
  OBVIOUS
<1>2. pc[r] = "find" /\ Typed
  BY DEF FindCart, Checkout
<1>3. AtStart(r) /\ Stages(r) /\ Links(r)
  BY DEF Checkout, Working, Own, Shape
<1>4. Nothing(r) /\ tx[r].cart = Null /\ charge[r] = "none" /\ pay[r] = "none"
  BY <1>2, <1>3 DEF AtStart
<1>5. CASE Stops(r, "refused", charge[r])
  BY <1>2, <1>4, <1>5, RefusedStays
<1>6. CASE /\ o \in Requests /\ IsCart(o, tx[r].now) /\ Found(r, o) \in Transaction
           /\ Stays(r, "lock", Found(r, o), charge[r])
  <2> DEFINE x == Found(r, o)
  <2>1. x.kind = tx[r].kind /\ x.now = tx[r].now /\ x.seen = tx[r].seen /\ x.cart = o
        /\ x.version = order[o].version
        /\ x.order = tx[r].order /\ x.user = tx[r].user /\ x.rows = tx[r].rows /\ x.pay = tx[r].pay
    BY <1>2 DEF Found, Typed, Transaction
  <2>2. x \in Transaction /\ Stays(r, "lock", x, charge[r])
    BY <1>6
  <2> HIDE DEF x
  <2>3. Frame(r) /\ pc'[r] = "lock" /\ tx'[r] = x /\ charge'[r] = charge[r]
    BY <1>2, <2>2, MovedFacts DEF Stays
  <2>4. Typed'
    BY <1>2, <2>1, <2>2, TypedStays DEF Typed, Steps
  <2>5. o # Null /\ Caller[o] = Caller[r] /\ order[o].status = "Draft" /\ order[o].version \in Nat
    <3>1. Caller[o] = Caller[r]
      BY <1>1, <1>6, NullAssumption DEF Checkout, Database, UserCart, Users
    <3>2. o # Null /\ order[o].status = "Draft"
      BY <1>6 DEF IsCart
    <3> QED BY <1>2, <1>6, <3>1, <3>2 DEF Typed, Orders
  <2>6. Own(r)'
    <3>1. Shape(r)'
      BY <1>4, <2>1, <2>3, <2>5 DEF Shape, AtStart, AtLink, AtLock, AtBody, AtAuth, AtMark, AtCapture,
            AtComplete, AtUnlink, AtTokens, AtCommit, AtEnd, Nothing, Ended
    <3>2. Stages(r)'
      BY <1>3, <1>4, <2>1, <2>2, <2>3, <2>5 DEF Stages, OwnCart, NotYet, FoundDraft, WritesDraft,
            WritesPaid, Unborn, Stays, Same, Settled, Nothing
    <3>3. Links(r)'
      BY <1>4, <2>1, <2>3 DEF Links, HasSeen, Replaces, WritesUser, Nothing
    <3>4. Takes(r)' /\ WholeFor(r)'
      BY <1>4, <2>1, <2>3, NoRowsFacts DEF Takes, WholeFor, Nothing
    <3> QED BY <1>4, <2>1, <2>3, <3>1, <3>2, <3>3, <3>4 DEF Own, Nothing
  <2>7. \A q \in Requests \ {r} : Apart(r, q)'
    BY <1>4, <2>1, <2>3, ApartKept, NoRowsFacts DEF Checkout, NoConflict, Settled, Nothing
  <2> QED BY <1>2, <1>4, <2>2, <2>4, <2>6, <2>7, StepStays
<1>7. CASE /\ ~IsCart(o, tx[r].now) /\ tx[r].kind = "update"
           /\ Stays(r, "create", tx[r], charge[r])
  <2>1. Frame(r) /\ pc'[r] = "create" /\ tx'[r] = tx[r] /\ charge'[r] = charge[r]
    BY <1>2, <1>7, MovedFacts DEF Stays
  <2>2. Typed'
    BY <1>2, <1>7, TypedStays DEF Typed, Steps
  <2>3. Gone(o)
    <3> SUFFICES ASSUME o # Null PROVE Gone(o)
      BY DEF Gone
    <3>1. o \in Requests /\ order[o].status # "none"
      BY <1>1, <1>2 DEF Typed, UserRows, Users, Checkout, Database, UserCart
    <3>2. order[o].status \in {"Draft", "PartiallyPaid", "Paid"}
      BY <1>2, <3>1 DEF Typed, Orders
    <3>3. CASE Before(order[o].expires, tx[r].now)
      <4>1. order[o].expires \in Times \cup {Null} /\ tx[r].now \in Int /\ now \in Int /\ tx[r].now <= now
        BY <1>2, <3>1 DEF Typed, Orders, Transaction
      <4>2. Before(order[o].expires, now)
        BY <3>3, <4>1 DEF Before, Times
      <4> QED BY <3>2, <4>2 DEF Gone
    <3> QED BY <1>7, <3>2, <3>3 DEF Gone, IsCart
  <2>4. Own(r)'
    <3>1. Shape(r)'
      BY <1>4, <1>7, <2>1 DEF Stays, Same, Shape, AtStart, AtLink, AtLock, AtBody, AtAuth, AtMark, AtCapture,
            AtComplete, AtUnlink, AtTokens, AtCommit, AtEnd, Nothing, Ended
    <3>2. Stages(r)'
      BY <1>2, <1>3, <1>4, <1>7, <2>1 DEF Stages, OwnCart, NotYet, FoundDraft, WritesDraft,
            WritesPaid, Unborn, Stays, Same, Settled, Nothing
    <3>3. Links(r)'
      BY <1>1, <1>2, <1>3, <1>4, <1>7, <2>1, <2>3 DEF Links, HasSeen, Replaces, WritesUser, AsSeen,
            Gone, Nothing, Stays, Same
    <3>4. Takes(r)' /\ WholeFor(r)'
      BY <1>4, <2>1, NoRowsFacts DEF Takes, WholeFor, Nothing
    <3> QED BY <1>4, <2>1, <3>1, <3>2, <3>3, <3>4 DEF Own, Nothing
  <2>5. \A q \in Requests \ {r} : Apart(r, q)'
    BY <1>4, <2>1, ApartKept DEF Checkout, NoConflict, Settled, Nothing
  <2> QED BY <1>2, <1>7, <2>2, <2>4, <2>5, StepStays
<1> QED BY <1>1, <1>2, <1>5, <1>6, <1>7, FindCartMoves

\* No other request works on a cart that is not committed yet.
LEMMA UnbornIsOwn ==
    ASSUME Checkout, NEW r \in Requests, order[r].status = "none",
           NEW q \in Requests \ {r}, tx[q].order # Null
    PROVE  tx[q].cart # r
<1>1. WritesDraft(q) /\ WritesPaid(q)
  BY DEF Checkout, Working, Own, Stages
<1> QED BY <1>1 DEF WritesDraft, WritesPaid

\* As long as a request has written no row it sees the committed ones.
LEMMA SeesCommitted ==
    ASSUME NEW r \in Requests, tx[r].rows = NoRows
    PROVE  \A t \in Tickets : Seen(r, t) = row[t]
BY NoRowsFacts DEF Seen

\* What a request sees of its cart stays whole as long as it writes nothing else.
LEMMA WholeForKept ==
    ASSUME NEW r \in Requests, WholeFor(r), Same,
           tx'[r].rows = tx[r].rows, tx'[r].cart = tx[r].cart,
           tx'[r].order # Null =>
               /\ tx[r].order # Null
               /\ tx'[r].order.status = tx[r].order.status
               /\ tx'[r].order.expires = tx[r].order.expires
               /\ tx'[r].order.quantity = tx[r].order.quantity
    PROVE  WholeFor(r)'
<1>1. \A t \in Tickets : Seen(r, t)' = Seen(r, t)
  BY DEF Seen, Same
<1>2. HeldBy(r)' = HeldBy(r)
  BY <1>1 DEF HeldBy
<1>3. \A t \in HeldBy(r) : t \in Tickets
  BY DEF HeldBy
<1> QED BY <1>1, <1>2, <1>3 DEF WholeFor, InUse, Same

LEMMA CreateCartStays ==
    ASSUME Checkout, NEW r \in Requests, CreateCart(r)
    PROVE  Checkout'
<1>1. pc[r] = "create" /\ Typed
  BY DEF CreateCart, Checkout
<1>2. AtStart(r) /\ Stages(r) /\ Links(r)
  BY DEF Checkout, Working, Own, Shape
<1>3. Nothing(r) /\ tx[r].cart = Null /\ charge[r] = "none" /\ pay[r] = "none" /\ tx[r].kind = "update"
  BY <1>1, <1>2 DEF AtStart
<1>4. CASE Stops(r, "refused", charge[r])
  BY <1>1, <1>3, <1>4, RefusedStays
<1>5. CASE Created(r) \in Transaction /\ Stays(r, "link", Created(r), charge[r])
  <2> DEFINE x == Created(r)
  <2>1. x.kind = tx[r].kind /\ x.now = tx[r].now /\ x.seen = tx[r].seen /\ x.cart = r
        /\ x.version = 0
        /\ x.order = NewCart /\ x.user = tx[r].user /\ x.rows = tx[r].rows /\ x.pay = tx[r].pay
    BY <1>1 DEF Created, Typed, Transaction
  <2>2. x \in Transaction /\ Stays(r, "link", x, charge[r])
    BY <1>5
  <2> HIDE DEF x
  <2>3. Frame(r) /\ pc'[r] = "link" /\ tx'[r] = x /\ charge'[r] = charge[r]
    BY <1>1, <2>2, MovedFacts DEF Stays
  <2>4. Typed'
    BY <1>1, <2>1, <2>2, TypedStays DEF Typed, Steps
  <2>5. NewCart.status = "Draft" /\ NewCart.expires = Null /\ NewCart.quantity = 0
    BY DEF NewCart
  <2>6. order[r].status = "none" /\ order[r].expires = Null /\ order[r].quantity = 0
    BY <1>1, <1>2 DEF Stages, NotYet, Unborn, Checkout, Database, Fresh
  <2>7. Own(r)'
    <3>1. Shape(r)'
      BY <1>3, <2>1, <2>3 DEF Shape, AtStart, AtLink, AtLock, AtBody, AtAuth, AtMark, AtCapture,
            AtComplete, AtUnlink, AtTokens, AtCommit, AtEnd, Nothing, Ended, Made
    <3>2. Stages(r)'
      BY <2>1, <2>2, <2>3, <2>5, <2>6 DEF Stages, OwnCart, NotYet, FoundDraft, WritesDraft,
            WritesPaid, Unborn, Stays, Same, Settled
    <3>3. Links(r)'
      BY <1>1, <1>2, <1>3, <2>1, <2>2, <2>3 DEF Links, HasSeen, Replaces, WritesUser, AsSeen,
            Gone, Nothing, Stays, Same
    <3>4. Takes(r)'
      BY <1>3, <2>1, <2>3, NoRowsFacts DEF Takes, Nothing
    <3>5. WholeFor(r)'
      <4>1. Whole(r)
        BY DEF Checkout, Database
      <4>2. Cardinality(Held(r)) = 0 /\ \A t \in Held(r) : row[t].until = Null
        BY <2>6, <4>1 DEF Whole, InUse, Before
      <4>3. \A t \in Tickets : Seen(r, t)' = row[t]
        BY <1>3, <2>1, <2>2, <2>3, NoRowsFacts DEF Seen, Nothing, Stays, Same
      <4>4. HeldBy(r)' = Held(r)
        BY <2>1, <2>3, <4>3 DEF HeldBy, Held
      <4>5. \A t \in Held(r) : t \in Tickets
        BY DEF Held
      <4> QED BY <2>1, <2>3, <2>5, <4>2, <4>3, <4>4, <4>5 DEF WholeFor
    <3> QED BY <2>1, <2>3, <2>5, <3>1, <3>2, <3>3, <3>4, <3>5 DEF Own, Empty
  <2>8. \A q \in Requests \ {r} : Apart(r, q)'
    <3> TAKE q \in Requests \ {r}
    <3>1. Apart(r, q)
      BY DEF Checkout, NoConflict
    <3>2. tx[q].order # Null => tx[q].cart # r
      BY <2>6, UnbornIsOwn
    <3> QED BY <1>3, <2>1, <2>3, <3>1, <3>2, NoRowsFacts DEF Apart, Frame, Settled, Nothing
  <2> QED BY <1>1, <1>3, <2>2, <2>4, <2>7, <2>8, StepStays
<1> QED BY <1>1, <1>4, <1>5, CreateCartMoves

LEMMA WithUserFields ==
    ASSUME Typed, NEW r \in Requests, NEW c, NEW x, x = WithUser(r, c)
    PROVE  /\ x.kind = tx[r].kind /\ x.now = tx[r].now /\ x.seen = tx[r].seen
           /\ x.cart = tx[r].cart /\ x.version = tx[r].version /\ x.order = tx[r].order
           /\ x.rows = tx[r].rows /\ x.pay = tx[r].pay
           /\ x.user.cart = c /\ x.user.stamp = tx[r].seen.stamp + 1
BY DEF WithUser, Typed, Transaction

LEMMA LinkCartStays ==
    ASSUME Checkout, NEW r \in Requests, LinkCart(r)
    PROVE  Checkout'
<1>1. pc[r] = "link" /\ Typed /\ ~UserLocked(Caller[r], r)
  BY DEF LinkCart, Checkout
<1>2. AtLink(r) /\ Stages(r) /\ Links(r) /\ WholeFor(r)
  BY DEF Checkout, Working, Own, Shape
<1>3. Made(r) /\ tx[r].version = 0 /\ tx[r].user = Null /\ tx[r].rows = NoRows
      /\ tx[r].pay = Null /\ charge[r] = "none"
  BY <1>1, <1>2 DEF AtLink
<1>4. CASE Stops(r, "refused", charge[r])
  BY <1>1, <1>3, <1>4, RefusedStays
<1>5. CASE /\ AsSeen(r) /\ WithUser(r, r) \in Transaction
           /\ Stays(r, "lock", WithUser(r, r), charge[r])
  <2>1. PICK x : x = WithUser(r, r)
    OBVIOUS
  <2>2. x.kind = tx[r].kind /\ x.now = tx[r].now /\ x.seen = tx[r].seen /\ x.cart = tx[r].cart
        /\ x.version = tx[r].version /\ x.order = tx[r].order
        /\ x.rows = tx[r].rows /\ x.pay = tx[r].pay
        /\ x.user.cart = r /\ x.user.stamp = tx[r].seen.stamp + 1
    BY <1>1, <2>1, WithUserFields
  <2>3. x \in Transaction /\ Stays(r, "lock", x, charge[r])
    BY <1>5, <2>1
  <2>4. Frame(r) /\ pc'[r] = "lock" /\ tx'[r] = x /\ charge'[r] = charge[r]
    BY <1>1, <2>3, MovedFacts DEF Stays
  <2>5. Typed'
    BY <1>1, <2>2, <2>3, TypedStays DEF Typed, Steps
  <2>6. x.user # Null
    <3>1. [cart |-> r, stamp |-> tx[r].seen.stamp + 1] \in UserRows
      BY <1>1 DEF Typed, Transaction, UserRows
    <3>2. x.user = [cart |-> r, stamp |-> tx[r].seen.stamp + 1]
      BY <1>1, <2>1 DEF WithUser, Typed, Transaction
    <3> QED BY <3>1, <3>2, NullAssumption
  <2>7. Own(r)'
    <3>1. Shape(r)'
      BY <1>3, <2>2, <2>4, <2>6, NullAssumption DEF Shape, AtStart, AtLink, AtLock, AtBody, AtAuth, AtMark,
            AtCapture, AtComplete, AtUnlink, AtTokens, AtCommit, AtEnd, Nothing, Ended, Made, Linked
    <3>2. Stages(r)'
      <4>1. order' = order /\ order[r].status = "none"
        BY <1>1, <1>2, <2>3 DEF Stages, NotYet, Unborn, Stays, Same
      <4>2. OwnCart(r)' /\ NotYet(r)'
        BY <1>2, <2>2, <2>4, <4>1 DEF Stages, OwnCart, NotYet
      <4>3. FoundDraft(r)'
        BY <1>3, <2>2, <2>4, NewCartFacts, NullAssumption DEF FoundDraft, Made
      <4>4. WritesDraft(r)'
        <5>1. ~Settled(r)
          BY <1>1 DEF Settled
        <5> QED BY <1>1, <1>2, <1>3, <2>2, <2>4, <2>6, <4>1, <5>1 DEF Stages, WritesDraft, Linked, Made
      <4>5. WritesPaid(r)'
        BY <2>4 DEF WritesPaid, Settled
      <4> QED BY <4>2, <4>3, <4>4, <4>5 DEF Stages
    <3>3. Links(r)'
      <4>1. Gone(user[Caller[r]].cart) /\ user[Caller[r]] = tx[r].seen
        BY <1>1, <1>2, <1>5 DEF Links, Replaces, AsSeen
      <4>2. tx[r].seen.stamp \in Nat
        BY <1>1 DEF Typed, Transaction, UserRows
      <4>3. x.user.stamp > user[Caller[r]].stamp
        BY <2>2, <4>1, <4>2
      <4>4. ~Unlinked(r)'
        BY <2>2, <2>4, NullAssumption DEF Unlinked
      <4> QED BY <2>3, <2>4, <4>1, <4>3, <4>4 DEF Links, HasSeen, Replaces, WritesUser, Gone,
            Stays, Same
    <3>4. Takes(r)'
      BY <1>3, <2>2, <2>4, NoRowsFacts DEF Takes
    <3>5. WholeFor(r)'
      BY <1>2, <2>2, <2>3, <2>4, WholeForKept DEF Stays
    <3>6. tx'[r].order # Null => Empty(tx'[r].order)
      BY <2>2, <2>4 DEF Checkout, Working, Own
    <3> QED BY <3>1, <3>2, <3>3, <3>4, <3>5, <3>6 DEF Own, Empty
  <2>8. \A q \in Requests \ {r} : Apart(r, q)'
    <3> TAKE q \in Requests \ {r}
    <3>1. Apart(r, q)
      BY DEF Checkout, NoConflict
    <3>2. tx[q].user # Null => Caller[q] # Caller[r]
      BY <1>1 DEF UserLocked, Others
    <3>3. ~Settled(r)'
      BY <2>4 DEF Settled
    <3> QED BY <2>2, <2>4, <3>1, <3>2, <3>3 DEF Apart, Frame, Settled
  <2> QED BY <1>1, <2>2, <2>3, <2>5, <2>7, <2>8, StepStays
<1> QED BY <1>1, <1>4, <1>5, LinkCartMoves

LEMMA LockingFields ==
    ASSUME Typed, NEW r \in Requests, tx[r].cart # Null, NEW x, x = Locking(r)
    PROVE  /\ x.kind = tx[r].kind /\ x.now = tx[r].now /\ x.seen = tx[r].seen
           /\ x.cart = tx[r].cart /\ x.user = tx[r].user /\ x.rows = tx[r].rows /\ x.pay = tx[r].pay
           /\ x.order # Null /\ x.order.status = Cart(r).status
           /\ x.order.expires = Cart(r).expires /\ x.order.quantity = Cart(r).quantity
           /\ x.order.version = Cart(r).version + 1
<1>1. Cart(r) \in Orders
  BY CartFacts
<1>2. [Cart(r) EXCEPT !.version = @ + 1] \in Orders
  BY <1>1 DEF Orders
<1>3. tx[r] \in Transaction
  BY DEF Typed
<1>4. x.order = [Cart(r) EXCEPT !.version = @ + 1]
  BY <1>3 DEF Locking, Transaction
<1>5. x.order # Null
  BY <1>2, <1>4, NullAssumption
<1>6. x.order.status = Cart(r).status /\ x.order.expires = Cart(r).expires
      /\ x.order.quantity = Cart(r).quantity /\ x.order.version = Cart(r).version + 1
  BY <1>1, <1>4 DEF Orders
<1> QED BY <1>3, <1>5, <1>6 DEF Locking, Transaction

\* What a request that takes its lock finds.
LEMMA LockFinds ==
    ASSUME Checkout, NEW r \in Requests, pc[r] = "lock", SameVersion(r)
    PROVE  /\ Cart(r).status = "Draft" /\ Empty(Cart(r))
           /\ Cart(r).version = order[tx[r].cart].version
           /\ order[tx[r].cart].status = "none" => tx[r].cart = r /\ Linked(r)
           /\ order[tx[r].cart].status \in {"none", "Draft"}
           /\ Cart(r).expires = order[tx[r].cart].expires
           /\ InUse(Cart(r)) =>
                 /\ Cardinality(HeldBy(r)) = Cart(r).quantity
                 /\ \A t \in HeldBy(r) : Seen(r, t).until = Cart(r).expires
<1>1. AtLock(r) /\ Stages(r) /\ WholeFor(r) /\ (tx[r].order # Null => Empty(tx[r].order))
  BY DEF Checkout, Working, Own, Shape
<1>2. tx[r].cart \in Requests /\ tx[r].rows = NoRows
  BY <1>1 DEF AtLock, Checkout, Typed, Transaction
<1>3. CASE tx[r].order = Null
  <2>1. Cart(r) = order[tx[r].cart]
    BY <1>3 DEF Cart
  <2>2. Cart(r).status = "Draft"
    BY <1>1, <1>3, <2>1 DEF Stages, FoundDraft, SameVersion
  <2>3. Fresh(tx[r].cart) /\ Whole(tx[r].cart)
    BY <1>2 DEF Checkout, Database
  <2>4. \A t \in Tickets : Seen(r, t) = row[t]
    BY <1>2, SeesCommitted
  <2>5. HeldBy(r) = Held(tx[r].cart)
    BY <2>4 DEF HeldBy, Held
  <2>6. \A t \in Held(tx[r].cart) : t \in Tickets
    BY DEF Held
  <2> QED BY <2>1, <2>2, <2>3, <2>4, <2>5, <2>6 DEF Fresh, Whole
<1>4. CASE tx[r].order # Null
  <2>1. Made(r) /\ tx[r].version = 0 /\ Linked(r)
    BY <1>1, <1>4 DEF AtLock
  <2>2. Cart(r) = NewCart /\ tx[r].order = NewCart /\ tx[r].cart = r
    BY <1>4, <2>1 DEF Cart, Made
  <2>3. order[r].status = "none" /\ order[r].version = 0 /\ order[r].expires = Null
    BY <1>1, <1>4 DEF Stages, NotYet, Unborn, Checkout, Database, Fresh
  <2>4. NewCart.status = "Draft" /\ NewCart.expires = Null /\ NewCart.version = 0
    BY DEF NewCart
  <2> QED BY <1>1, <2>1, <2>2, <2>3, <2>4, <1>4 DEF WholeFor
<1> QED BY <1>3, <1>4

LEMMA LockStays ==
    ASSUME Checkout, NEW r \in Requests, Lock(r)
    PROVE  Checkout'
<1>1. pc[r] = "lock" /\ Typed /\ ~OrderLocked(tx[r].cart, r)
  BY DEF Lock, Checkout
<1>2. AtLock(r) /\ Stages(r) /\ Links(r)
  BY DEF Checkout, Working, Own, Shape
<1>3. tx[r].cart # Null /\ tx[r].rows = NoRows /\ tx[r].pay = Null /\ charge[r] = "none"
      /\ (tx[r].user # Null => Linked(r) /\ tx[r].kind = "update")
  BY <1>1, <1>2 DEF AtLock, Made
<1>4. CASE Stops(r, "refused", charge[r])
  BY <1>1, <1>3, <1>4, RefusedStays
<1>5. CASE /\ SameVersion(r) /\ Locking(r) \in Transaction
           /\ Stays(r, AfterLock(tx[r].kind), Locking(r), charge[r])
  <2>1. PICK x : x = Locking(r)
    OBVIOUS
  <2>2. PICK p : p = AfterLock(tx[r].kind)
    OBVIOUS
  <2>3. /\ x.kind = tx[r].kind /\ x.now = tx[r].now /\ x.seen = tx[r].seen
        /\ x.cart = tx[r].cart /\ x.user = tx[r].user /\ x.rows = tx[r].rows /\ x.pay = tx[r].pay
        /\ x.order # Null /\ x.order.status = Cart(r).status
        /\ x.order.expires = Cart(r).expires /\ x.order.quantity = Cart(r).quantity
        /\ x.order.version = Cart(r).version + 1
    BY <1>1, <1>3, <2>1, LockingFields
  <2>4. x \in Transaction /\ Stays(r, p, x, charge[r])
    BY <1>5, <2>1, <2>2
  <2>5. Frame(r) /\ pc'[r] = p /\ tx'[r] = x /\ charge'[r] = charge[r]
    BY <1>1, <2>4, MovedFacts DEF Stays
  <2>6. /\ p = "body" => tx[r].kind = "update"
        /\ p = "auth" => tx[r].kind = "card"
        /\ p = "mark" => tx[r].kind \in {"external", "free"}
        /\ p \in {"body", "auth", "mark"}
    <3> QED BY <1>1, <2>2, KindsAre DEF AfterLock
  <2>7. Typed'
    BY <1>1, <2>3, <2>4, <2>6, TypedStays DEF Typed, Steps
  <2>8. /\ Cart(r).status = "Draft" /\ Empty(Cart(r))
        /\ Cart(r).version = order[tx[r].cart].version
        /\ order[tx[r].cart].status = "none" => tx[r].cart = r /\ Linked(r)
        /\ order[tx[r].cart].status \in {"none", "Draft"}
        /\ Cart(r).expires = order[tx[r].cart].expires
        /\ InUse(Cart(r)) =>
              /\ Cardinality(HeldBy(r)) = Cart(r).quantity
              /\ \A t \in HeldBy(r) : Seen(r, t).until = Cart(r).expires
    BY <1>1, <1>5, LockFinds
  <2>9. ~Settled(r)' /\ ~Unborn(r)'
    BY <2>5, <2>6 DEF Settled, Unborn
  <2>10. Own(r)'
    <3>1. Shape(r)'
      BY <1>3, <2>3, <2>5, <2>6, <2>8 DEF Shape, AtStart, AtLink, AtLock, AtBody, AtAuth, AtMark,
            AtCapture, AtComplete, AtUnlink, AtTokens, AtCommit, AtEnd, Nothing, Ended, Linked, InOrder, Charged
    <3>2. Stages(r)'
      <4>1. order' = order
        BY <2>4 DEF Stays, Same
      <4>2. OwnCart(r)' /\ NotYet(r)' /\ FoundDraft(r)' /\ WritesPaid(r)'
        BY <1>2, <2>3, <2>5, <2>6, <2>9, <4>1 DEF Stages, OwnCart, NotYet, FoundDraft, WritesPaid
      <4>3. WritesDraft(r)'
        BY <2>3, <2>5, <2>8, <4>1 DEF WritesDraft, Linked
      <4> QED BY <4>2, <4>3 DEF Stages
    <3>3. Links(r)'
      BY <1>2, <2>3, <2>4, <2>5, <2>6 DEF Links, HasSeen, Replaces, WritesUser, Gone, Linked,
            Unlinked, Stays, Same
    <3>4. Takes(r)'
      BY <1>3, <2>3, <2>5, NoRowsFacts DEF Takes
    <3>5. WholeFor(r)'
      <4>1. \A t \in Tickets : Seen(r, t)' = Seen(r, t)
        BY <2>3, <2>4, <2>5 DEF Seen, Stays, Same
      <4>2. HeldBy(r)' = HeldBy(r)
        BY <2>3, <2>5, <4>1 DEF HeldBy
      <4>3. \A t \in HeldBy(r) : t \in Tickets
        BY DEF HeldBy
      <4>4. InUse(tx[r].order)' => InUse(Cart(r))
        BY <2>3, <2>4, <2>5 DEF InUse, Stays, Same
      <4> QED BY <2>3, <2>5, <2>8, <4>1, <4>2, <4>3, <4>4 DEF WholeFor
    <3>6. Empty(tx'[r].order)
      BY <2>3, <2>5, <2>8 DEF Empty
    <3> QED BY <3>1, <3>2, <3>3, <3>4, <3>5, <3>6 DEF Own, Empty
  <2>11. \A q \in Requests \ {r} : Apart(r, q)'
    <3> TAKE q \in Requests \ {r}
    <3>1. Apart(r, q)
      BY DEF Checkout, NoConflict
    <3>2. tx[q].order # Null => tx[q].cart # tx[r].cart
      BY <1>1 DEF OrderLocked, Others
    <3> QED BY <2>3, <2>5, <2>9, <3>1, <3>2 DEF Apart, Frame
  <2> QED BY <1>1, <2>3, <2>4, <2>7, <2>10, <2>11, StepStays
<1> QED BY <1>1, <1>3, <1>4, <1>5, LockMoves

-----------------------------------------------------------------------------
(* Changing the quantity.                                                  *)

LEMMA WritingFields ==
    ASSUME Typed, NEW r \in Requests, NEW w, NEW c, NEW x, x = Writing(r, w, c)
    PROVE  /\ x.kind = tx[r].kind /\ x.now = tx[r].now /\ x.seen = tx[r].seen
           /\ x.cart = tx[r].cart /\ x.user = tx[r].user /\ x.pay = tx[r].pay
           /\ x.order = c /\ x.rows = w
BY DEF Writing, Typed, Transaction

\* What update_quantities has found once it has its lock.
LEMMA AtBodyFacts ==
    ASSUME Checkout, NEW r \in Requests, pc[r] = "body"
    PROVE  /\ InOrder(r, "Draft") /\ tx[r].kind = "update" /\ (tx[r].user # Null => Linked(r))
           /\ tx[r].rows = NoRows /\ tx[r].pay = Null /\ charge[r] = "none"
           /\ tx[r].cart \in Requests /\ Cart(r) = tx[r].order /\ Cart(r) \in Orders
           /\ Empty(Cart(r)) /\ Stages(r) /\ Links(r)
           /\ Cart(r).expires = order[tx[r].cart].expires
           /\ HeldBy(r) = Held(tx[r].cart) /\ \A t \in Tickets : Seen(r, t) = row[t]
           /\ InUse(Cart(r)) =>
                 /\ Cardinality(Held(tx[r].cart)) = Cart(r).quantity
                 /\ \A t \in Held(tx[r].cart) : row[t].until = Cart(r).expires
<1>1. AtBody(r) /\ Stages(r) /\ Links(r) /\ WholeFor(r) /\ (tx[r].order # Null => Empty(tx[r].order))
  BY DEF Checkout, Working, Own, Shape
<1>2. InOrder(r, "Draft") /\ tx[r].kind = "update" /\ (tx[r].user # Null => Linked(r))
      /\ tx[r].rows = NoRows /\ tx[r].pay = Null /\ charge[r] = "none"
  BY <1>1 DEF AtBody
<1>3. Cart(r) = tx[r].order /\ tx[r].order # Null /\ tx[r].order.status = "Draft"
  BY <1>2 DEF Cart, InOrder
<1>4. tx[r].cart \in Requests /\ Cart(r) \in Orders
  BY <1>2, CartFacts DEF InOrder, Checkout
<1>5. \A t \in Tickets : Seen(r, t) = row[t]
  BY <1>2, SeesCommitted
<1>6. HeldBy(r) = Held(tx[r].cart)
  BY <1>5 DEF HeldBy, Held
<1>7. \A t \in Held(tx[r].cart) : t \in Tickets
  BY DEF Held
<1>8. Cart(r).expires = order[tx[r].cart].expires
  <2>1. ~Settled(r)
    BY <1>2 DEF Settled
  <2> QED BY <1>1, <1>3, <2>1 DEF Stages, WritesDraft
<1> QED BY <1>1, <1>2, <1>3, <1>4, <1>5, <1>6, <1>7, <1>8 DEF WholeFor

LEMMA BodyStays ==
    ASSUME Checkout, NEW r \in Requests, pc[r] = "body", NEW w, NEW c,
           Writing(r, w, c) \in Transaction, Stays(r, "commit", Writing(r, w, c), charge[r]),
           c # Null, c.status = "Draft", c.version = Cart(r).version, Empty(c),
           Null \in {c.expires, Cart(r).expires} \/ c.expires = Cart(r).expires,
           \A t \in DOMAIN w :
              /\ ~RowLocked(t, r) /\ row[t].status # "Purchased" /\ w[t].status # "Purchased"
              /\ w[t].item \in {tx[r].cart, Null}
              /\ \/ row[t].item \in {tx[r].cart, Null}
                 \/ Before(row[t].until, tx[r].now),
           WholeFor(r)'
    PROVE  Checkout'
<1>1. PICK x : x = Writing(r, w, c)
  OBVIOUS
<1>2. /\ x.kind = tx[r].kind /\ x.now = tx[r].now /\ x.seen = tx[r].seen
      /\ x.cart = tx[r].cart /\ x.user = tx[r].user /\ x.pay = tx[r].pay
      /\ x.order = c /\ x.rows = w
  BY <1>1, WritingFields DEF Checkout
<1>3. x \in Transaction /\ Stays(r, "commit", x, charge[r])
  BY <1>1
<1>4. Frame(r) /\ pc'[r] = "commit" /\ tx'[r] = x /\ charge'[r] = charge[r]
  BY <1>3, MovedFacts DEF Stays, Checkout
<1>5. /\ InOrder(r, "Draft") /\ tx[r].kind = "update" /\ (tx[r].user # Null => Linked(r))
      /\ tx[r].rows = NoRows /\ tx[r].pay = Null /\ charge[r] = "none"
      /\ tx[r].cart \in Requests /\ Cart(r) = tx[r].order
      /\ Stages(r) /\ Links(r) /\ Cart(r).expires = order[tx[r].cart].expires
  BY AtBodyFacts
<1>6. Typed'
  BY <1>2, <1>3, TypedStays DEF Checkout, Typed, Steps
<1>7. ~Settled(r)' /\ ~Settled(r)
  BY <1>2, <1>4, <1>5 DEF Settled
<1>8. Own(r)'
  <2>1. Shape(r)'
    BY <1>2, <1>4, <1>5 DEF Shape, AtStart, AtLink, AtLock, AtBody, AtAuth, AtMark,
          AtCapture, AtComplete, AtUnlink, AtTokens, AtCommit, AtEnd, Nothing, Ended, Linked, InOrder, Charged
  <2>2. Stages(r)'
    <3>1. order' = order
      BY <1>3 DEF Stays, Same
    <3>2. OwnCart(r)' /\ NotYet(r)' /\ FoundDraft(r)' /\ WritesPaid(r)'
      BY <1>2, <1>4, <1>5, <1>7, <3>1 DEF Stages, OwnCart, NotYet, Unborn, FoundDraft, WritesPaid
    <3>3. WritesDraft(r)'
      <4>1. tx[r].order # Null
        BY <1>5 DEF InOrder
      <4>2. WritesDraft(r)
        BY <1>5 DEF Stages
      <4> QED BY <1>2, <1>4, <1>5, <1>7, <3>1, <4>1, <4>2 DEF WritesDraft, Linked
    <3> QED BY <3>2, <3>3 DEF Stages
  <2>3. Links(r)'
    BY <1>2, <1>3, <1>4, <1>5 DEF Links, HasSeen, Replaces, WritesUser, Gone, Linked, Unlinked,
          Stays, Same
  <2>4. Takes(r)'
    <3>1. row' = row
      BY <1>3 DEF Stays, Same
    <3> QED BY <1>2, <1>4, <1>5, <3>1 DEF Takes, WritesRow, RowOf
  <2> QED BY <1>2, <1>4, <2>1, <2>2, <2>3, <2>4 DEF Own, Empty
<1>9. \A q \in Requests \ {r} : Apart(r, q)'
  <2> TAKE q \in Requests \ {r}
  <2>1. Apart(r, q)
    BY DEF Checkout, NoConflict
  <2>2. DOMAIN w \cap DOMAIN tx[q].rows = {}
    BY DEF RowLocked, Others
  <2>3. tx[r].order # Null
    BY <1>5 DEF InOrder
  <2> QED BY <1>2, <1>4, <1>7, <2>1, <2>2, <2>3 DEF Apart, Frame
<1>10. pc[r] # "ok"
  OBVIOUS
<1> QED BY <1>2, <1>3, <1>6, <1>8, <1>9, <1>10, StepStays

LEMMA SameQuantityStays ==
    ASSUME Checkout, NEW r \in Requests, pc[r] = "body", Stays(r, "commit", tx[r], charge[r])
    PROVE  Checkout'
<1>1. Writing(r, NoRows, tx[r].order) = tx[r]
  <2>1. tx[r] \in Transaction /\ tx[r].rows = NoRows
    BY AtBodyFacts DEF Checkout, Typed
  <2>2. Writing(r, NoRows, tx[r].order)
          = [tx[r] EXCEPT !.rows = tx[r].rows, !.order = tx[r].order]
    BY <2>1 DEF Writing
  <2> QED BY <2>1, <2>2 DEF Transaction
<1>2. tx[r] \in Transaction
  BY DEF Checkout, Typed
<1>3. WholeFor(r)'
  <2>1. tx'[r] = tx[r]
    BY MovedFacts DEF Checkout, Stays
  <2> QED BY <2>1, WholeForKept DEF Checkout, Working, Own, Stays
<1> QED BY <1>1, <1>2, <1>3, AtBodyFacts, BodyStays, NoRowsFacts DEF InOrder

\* A ticket that a request may take is in no cart in use.
LEMMA FreeFacts ==
    ASSUME Checkout, NEW r \in Requests, NEW t \in Free(r)
    PROVE  /\ t \in Tickets /\ ~RowLocked(t, r) /\ row[t].status # "Purchased"
           /\ row[t].item = Null \/ Before(row[t].until, tx[r].now)
           /\ \A u : row[t].item # Null /\ row[t].until = u => Before(u, now)
<1>1. t \in Tickets /\ ~RowLocked(t, r) /\ Takeable(row[t], Null, tx[r].now)
  BY DEF Free
<1>2. row[t].item = Null \/ (Before(row[t].until, tx[r].now) /\ row[t].status # "Purchased")
  BY <1>1 DEF Takeable
<1>3. row[t].status # "Purchased"
  BY <1>1, <1>2 DEF Checkout, Database, Bound
<1>4. Before(row[t].until, tx[r].now) => Before(row[t].until, now)
  <2>1. row[t].until \in Times \cup {Null} /\ tx[r].now \in Int /\ now \in Int /\ tx[r].now <= now
    BY <1>1 DEF Checkout, Typed, Rows, Transaction
  <2> QED BY <2>1 DEF Before, Times
<1> QED BY <1>1, <1>2, <1>3, <1>4

LEMMA GrowStays ==
    ASSUME Checkout, NEW r \in Requests, NEW q \in 0..MaxQuantity, pc[r] = "body", Grow(r, q)
    PROVE  Checkout'
<1>1. /\ InOrder(r, "Draft") /\ charge[r] = "none" /\ tx[r].cart \in Requests
      /\ tx[r].rows = NoRows /\ Cart(r) = tx[r].order /\ Cart(r) \in Orders /\ Empty(Cart(r))
      /\ HeldBy(r) = Held(tx[r].cart) /\ \A t \in Tickets : Seen(r, t) = row[t]
      /\ InUse(Cart(r)) =>
            /\ Cardinality(Held(tx[r].cart)) = Cart(r).quantity
            /\ \A t \in Held(tx[r].cart) : row[t].until = Cart(r).expires
  BY AtBodyFacts
<1>2. Typed /\ tx[r].cart # Null
  BY <1>1, NullAssumption DEF Checkout
<1>3. CASE Stops(r, "refused", charge[r])
  BY <1>1, <1>3, RefusedStays
<1>4. ASSUME NEW T \in SUBSET Free(r), Cardinality(T) = q - Cart(r).quantity,
             Writing(r, Reserves(r, T), Grown(r, q)) \in Transaction,
             Stays(r, "commit", Writing(r, Reserves(r, T), Grown(r, q)), charge[r])
      PROVE  Checkout'
  <2>1. PICK c, w : c = Grown(r, q) /\ w = Reserves(r, T)
    OBVIOUS
  <2>2. PICK e : e = ExpiryOf(r)
    OBVIOUS
  <2>3. e \in Times /\ e # Null
    BY <1>1, <1>2, <2>2, ExpiryFacts, TimeAssumption, NullAssumption DEF Times
  <2>4. c.status = "Draft" /\ c.version = Cart(r).version /\ c.expires = e /\ c.quantity = q /\ c # Null
    <3>1. c.status = Cart(r).status /\ c.version = Cart(r).version /\ c.expires = e /\ c.quantity = q
      BY <1>1, <2>1, <2>2 DEF Grown, Orders
    <3>2. c \in Orders
      BY <1>1, <1>2, <2>1, <2>2, <2>3 DEF Grown, Orders
    <3>3. Cart(r).status = "Draft"
      BY <1>1 DEF InOrder
    <3> QED BY <3>1, <3>2, <3>3, NullAssumption
  <2>5. DOMAIN w = T /\ \A t \in T : w[t] = ReservedFor(row[t], tx[r].cart, e)
    BY <2>1, <2>2 DEF Reserves
  <2>6. \A t \in T :
           /\ t \in Tickets /\ ~RowLocked(t, r) /\ row[t].status # "Purchased"
           /\ row[t].item = Null \/ Before(row[t].until, tx[r].now)
           /\ \A u : row[t].item # Null /\ row[t].until = u => Before(u, now)
    BY FreeFacts
  <2>7. \A t \in T : w[t].item = tx[r].cart /\ w[t].status = "Reserved" /\ w[t].until = e
    <3>1. \A t \in T : row[t] \in Rows
      BY <2>6, <1>2 DEF Typed
    <3> QED BY <2>5, <3>1, RowColumns
  <2>8. WholeFor(r)'
    <3>1. Frame(r) /\ tx'[r] = Writing(r, w, c) /\ now' = now /\ row' = row
      BY <1>4, <1>2, <2>1, MovedFacts DEF Stays, Same
    <3>2. tx'[r].order = c /\ tx'[r].rows = w /\ tx'[r].cart = tx[r].cart
      BY <3>1, <1>2, WritingFields
    <3>3. \A t \in Tickets : Seen(r, t)' = IF t \in T THEN w[t] ELSE row[t]
      BY <3>1, <3>2, <2>5 DEF Seen
    <3>4. HeldBy(r)' = Held(tx[r].cart) \cup T
      BY <3>2, <3>3, <2>6, <2>7 DEF HeldBy, Held
    <3>5. SUFFICES ASSUME ~Before(e, now)
                   PROVE  /\ Cardinality(Held(tx[r].cart) \cup T) = q
                          /\ \A t \in Held(tx[r].cart) \cup T : Seen(r, t)'.until = e
      BY <3>1, <3>2, <3>4, <2>4 DEF WholeFor, InUse
    <3>6. InUse(Cart(r)) /\ Cart(r).quantity \in Nat
      <4>1. Cart(r).status = "Draft"
        BY <1>1 DEF InOrder
      <4>2. ~Before(Cart(r).expires, now)
        BY <2>2, <3>5 DEF Before, ExpiryOf
      <4> QED BY <1>1, <4>1, <4>2 DEF InUse, Orders
    <3>7. /\ IsFiniteSet(Held(tx[r].cart)) /\ IsFiniteSet(T)
          /\ Held(tx[r].cart) \subseteq Tickets /\ T \subseteq Tickets
      <4>1. Held(tx[r].cart) \subseteq Tickets /\ T \subseteq Tickets
        BY <2>6 DEF Held
      <4> QED BY <4>1, FiniteAssumption, FS_Subset
    <3>8. \A t \in Held(tx[r].cart) : row[t].until = e
      <4>1. CASE Cart(r).expires = Null
        <5>1. Cardinality(Held(tx[r].cart)) = 0
          BY <1>1, <3>6, <4>1 DEF Empty, InUse
        <5> QED BY <5>1, <3>7, FS_EmptySet
      <4>2. CASE Cart(r).expires # Null
        BY <1>1, <3>6, <4>2, <2>2 DEF ExpiryOf
      <4> QED BY <4>1, <4>2
    <3>9. Held(tx[r].cart) \cap T = {}
      BY <2>6, <3>5, <3>8, <1>2 DEF Held
    <3>10. Cardinality(Held(tx[r].cart) \cup T) = Cardinality(Held(tx[r].cart)) + Cardinality(T)
      <4>1. Cardinality({}) = 0
        BY FS_EmptySet
      <4>2. Cardinality(Held(tx[r].cart)) \in Nat /\ Cardinality(T) \in Nat
        BY <3>7, FS_CardinalityType
      <4>3. Cardinality(Held(tx[r].cart) \cup T)
              = Cardinality(Held(tx[r].cart)) + Cardinality(T) - Cardinality(Held(tx[r].cart) \cap T)
        BY <3>7, FS_Union
      <4> QED BY <3>9, <4>1, <4>2, <4>3
    <3>11. Cardinality(Held(tx[r].cart) \cup T) = q
      <4>1. Cardinality(Held(tx[r].cart)) = Cart(r).quantity /\ q \in Int
        BY <1>1, <3>6
      <4> QED BY <4>1, <3>6, <3>10, <1>4
    <3>12. \A t \in Held(tx[r].cart) \cup T : Seen(r, t)'.until = e
      BY <3>3, <3>7, <3>8, <2>7
    <3> QED BY <3>11, <3>12
  <2>9. Null \in {c.expires, Cart(r).expires} \/ c.expires = Cart(r).expires
    BY <2>2, <2>4 DEF ExpiryOf
  <2>10. Empty(c)
    BY <2>3, <2>4 DEF Empty
  <2>11. Writing(r, w, c) \in Transaction /\ Stays(r, "commit", Writing(r, w, c), charge[r])
    BY <1>4, <2>1
  <2>12. \A t \in DOMAIN w :
           /\ ~RowLocked(t, r) /\ row[t].status # "Purchased" /\ w[t].status # "Purchased"
           /\ w[t].item \in {tx[r].cart, Null}
           /\ \/ row[t].item \in {tx[r].cart, Null}
              \/ Before(row[t].until, tx[r].now)
    BY <2>5, <2>6, <2>7
  <2> QED BY <2>4, <2>8, <2>9, <2>10, <2>11, <2>12, BodyStays
<1> QED BY <1>2, <1>3, <1>4, GrowMoves

LEMMA ShrinkStays ==
    ASSUME Checkout, NEW r \in Requests, NEW q \in 0..MaxQuantity, pc[r] = "body", Shrink(r, q)
    PROVE  Checkout'
<1>1. /\ InOrder(r, "Draft") /\ charge[r] = "none" /\ tx[r].cart \in Requests
      /\ tx[r].rows = NoRows /\ Cart(r) = tx[r].order /\ Cart(r) \in Orders /\ Empty(Cart(r))
      /\ HeldBy(r) = Held(tx[r].cart) /\ \A t \in Tickets : Seen(r, t) = row[t]
      /\ InUse(Cart(r)) =>
            /\ Cardinality(Held(tx[r].cart)) = Cart(r).quantity
            /\ \A t \in Held(tx[r].cart) : row[t].until = Cart(r).expires
  BY AtBodyFacts
<1>2. Typed /\ tx[r].cart # Null /\ Cart(r).quantity - q > 0
  BY <1>1, NullAssumption DEF Checkout, Shrink
<1>3. CASE Stops(r, "refused", charge[r])
  BY <1>1, <1>3, RefusedStays
<1>4. ASSUME NEW T \in SUBSET Mine(r), Cardinality(T) = Cart(r).quantity - q,
             q = 0 => Cart(r).expires > now,
             Writing(r, Releases(T), Shrunk(r, q)) \in Transaction,
             Stays(r, "commit", Writing(r, Releases(T), Shrunk(r, q)), charge[r])
      PROVE  Checkout'
  <2>1. PICK c, w : c = Shrunk(r, q) /\ w = Releases(T)
    OBVIOUS
  <2>2. Cart(r).status = "Draft" /\ Cart(r).quantity \in Nat /\ q \in Nat
    BY <1>1 DEF InOrder, Orders
  <2>3. Cart(r).expires # Null
    BY <1>1, <1>2, <2>2 DEF Empty
  <2>4. /\ c.status = "Draft" /\ c.version = Cart(r).version /\ c.quantity = q
        /\ c.expires = IF q = 0 THEN Null ELSE Cart(r).expires
        /\ c # Null
    <3>1. c \in Orders
      BY <1>1, <2>1 DEF Shrunk, Orders
    <3> QED BY <1>1, <2>1, <2>2, <3>1, NullAssumption DEF Shrunk, Orders
  <2>5. DOMAIN w = T /\ \A t \in T : w[t] = Released(row[t])
    BY <2>1 DEF Releases
  <2>6. \A t \in T :
           /\ t \in Tickets /\ ~RowLocked(t, r) /\ row[t].status = "Reserved"
           /\ row[t].item = tx[r].cart
    BY DEF Mine, Releasable
  <2>7. \A t \in T : w[t].item = Null /\ w[t].status = "Available"
    <3>1. \A t \in T : row[t] \in Rows
      BY <2>6, <1>2 DEF Typed
    <3> QED BY <2>5, <3>1, RowColumns
  <2>8. WholeFor(r)'
    <3>1. Frame(r) /\ tx'[r] = Writing(r, w, c) /\ now' = now /\ row' = row
      BY <1>4, <1>2, <2>1, MovedFacts DEF Stays, Same
    <3>2. tx'[r].order = c /\ tx'[r].rows = w /\ tx'[r].cart = tx[r].cart
      BY <3>1, <1>2, WritingFields
    <3>3. \A t \in Tickets : Seen(r, t)' = IF t \in T THEN w[t] ELSE row[t]
      BY <3>1, <3>2, <2>5 DEF Seen
    <3>4. HeldBy(r)' = Held(tx[r].cart) \ T
      BY <3>2, <3>3, <2>6, <2>7, <1>2 DEF HeldBy, Held
    <3>5. SUFFICES ASSUME ~Before(c.expires, now)
                   PROVE  /\ Cardinality(Held(tx[r].cart) \ T) = q
                          /\ \A t \in Held(tx[r].cart) \ T : Seen(r, t)'.until = c.expires
      BY <3>1, <3>2, <3>4, <2>4 DEF WholeFor, InUse
    <3>6. InUse(Cart(r))
      <4>1. Cart(r).expires \in Times
        BY <1>1, <2>3 DEF Orders
      <4>2. Cart(r).expires \in Int /\ now \in Int
        BY <4>1, <1>2 DEF Times, Typed
      <4>3. ~Before(Cart(r).expires, now)
        BY <1>4, <2>4, <3>5, <4>2 DEF Before
      <4> QED BY <2>2, <4>3 DEF InUse
    <3>7. /\ IsFiniteSet(Held(tx[r].cart)) /\ IsFiniteSet(T)
          /\ Held(tx[r].cart) \subseteq Tickets /\ T \subseteq Held(tx[r].cart)
      <4>1. Held(tx[r].cart) \subseteq Tickets /\ T \subseteq Held(tx[r].cart)
        BY <2>6 DEF Held
      <4> QED BY <4>1, FiniteAssumption, FS_Subset
    <3>8. Cardinality(Held(tx[r].cart) \ T) = Cardinality(Held(tx[r].cart)) - Cardinality(T)
      <4>1. Held(tx[r].cart) \cap T = T
        BY <3>7
      <4>2. Cardinality(Held(tx[r].cart) \ T)
              = Cardinality(Held(tx[r].cart)) - Cardinality(Held(tx[r].cart) \cap T)
        BY <3>7, FS_Difference
      <4> QED BY <4>1, <4>2
    <3>9. Cardinality(Held(tx[r].cart) \ T) = q
      <4>1. Cardinality(Held(tx[r].cart)) = Cart(r).quantity
        BY <1>1, <3>6
      <4> QED BY <4>1, <3>8, <1>4, <2>2
    <3>10. \A t \in Held(tx[r].cart) \ T : Seen(r, t)'.until = c.expires
      <4>1. CASE q = 0
        <5>1. Held(tx[r].cart) \ T = {}
          BY <4>1, <3>7, <3>9, FS_Difference, FS_EmptySet
        <5> QED BY <5>1
      <4>2. CASE q # 0
        BY <1>1, <2>4, <3>3, <3>6, <3>7, <4>2
      <4> QED BY <4>1, <4>2
    <3> QED BY <3>9, <3>10
  <2>9. Null \in {c.expires, Cart(r).expires} \/ c.expires = Cart(r).expires
    BY <2>4
  <2>10. Empty(c)
    BY <2>3, <2>4 DEF Empty
  <2>11. Writing(r, w, c) \in Transaction /\ Stays(r, "commit", Writing(r, w, c), charge[r])
    BY <1>4, <2>1
  <2>12. \A t \in DOMAIN w :
           /\ ~RowLocked(t, r) /\ row[t].status # "Purchased" /\ w[t].status # "Purchased"
           /\ w[t].item \in {tx[r].cart, Null}
           /\ \/ row[t].item \in {tx[r].cart, Null}
              \/ Before(row[t].until, tx[r].now)
    BY <2>5, <2>6, <2>7
  <2> QED BY <2>4, <2>8, <2>9, <2>10, <2>11, <2>12, BodyStays
<1> QED BY <1>2, <1>3, <1>4, ShrinkMoves

LEMMA BodyActionStays ==
    ASSUME Checkout, NEW r \in Requests, NEW q \in 0..MaxQuantity, Body(r, q)
    PROVE  Checkout'
<1>1. pc[r] = "body" /\ Typed
  BY DEF Body, Checkout
<1>2. CASE Grow(r, q)
  BY <1>1, <1>2, GrowStays
<1>3. CASE Shrink(r, q)
  BY <1>1, <1>3, ShrinkStays
<1>4. CASE Goto(r, "commit") /\ UNCHANGED <<now, order, user, row, pay, charge, tx, revived>>
  BY <1>1, <1>4, SameQuantityMoves, SameQuantityStays
<1> QED BY <1>2, <1>3, <1>4 DEF Body

-----------------------------------------------------------------------------
(* Checking out.                                                           *)

LEMMA AuthorizeStays ==
    ASSUME Checkout, NEW r \in Requests, Authorize(r)
    PROVE  Checkout'
<1>1. pc[r] = "auth" /\ Typed
  BY DEF Authorize, Checkout
<1>2. AtAuth(r) /\ Stages(r) /\ Links(r) /\ Takes(r) /\ WholeFor(r)
      /\ (tx[r].order # Null => Empty(tx[r].order))
  BY DEF Checkout, Working, Own, Shape
<1>3. InOrder(r, "Draft") /\ tx[r].kind = "card" /\ charge[r] = "none"
      /\ tx[r].user = Null /\ tx[r].rows = NoRows /\ tx[r].pay = Null
  BY <1>1, <1>2 DEF AtAuth
<1>4. CASE Stops(r, "refused", charge[r])
  BY <1>1, <1>3, <1>4, RefusedStays
<1>5. CASE Stays(r, "mark", tx[r], "authorized")
  <2>1. Frame(r) /\ pc'[r] = "mark" /\ tx'[r] = tx[r] /\ charge'[r] = "authorized"
    BY <1>1, <1>5, MovedFacts DEF Stays
  <2>2. Typed'
    BY <1>1, <1>5, TypedStays DEF Typed, Steps
  <2>3. ~Settled(r)' /\ ~Settled(r) /\ ~Unborn(r)'
    BY <1>1, <2>1 DEF Settled, Unborn
  <2>4. Own(r)'
    <3>1. Shape(r)'
      BY <1>3, <2>1 DEF Shape, AtStart, AtLink, AtLock, AtBody, AtAuth, AtMark,
            AtCapture, AtComplete, AtUnlink, AtTokens, AtCommit, AtEnd, Ended, InOrder, Charged
    <3>2. Stages(r)'
      <4>1. order' = order
        BY <1>5 DEF Stays, Same
      <4>2. OwnCart(r)' /\ NotYet(r)' /\ FoundDraft(r)' /\ WritesPaid(r)'
        BY <1>2, <2>1, <2>3, <4>1 DEF Stages, OwnCart, NotYet, FoundDraft, WritesPaid
      <4>3. WritesDraft(r)'
        BY <1>1, <1>2, <2>1, <2>3, <4>1 DEF Stages, WritesDraft, Linked
      <4> QED BY <4>2, <4>3 DEF Stages
    <3>3. Links(r)'
      BY <1>3, <2>1 DEF Links, HasSeen, Replaces, WritesUser
    <3>4. Takes(r)'
      BY <1>3, <2>1, NoRowsFacts DEF Takes
    <3>5. WholeFor(r)'
      BY <1>2, <1>5, <2>1, WholeForKept DEF Stays
    <3> QED BY <1>2, <2>1, <3>1, <3>2, <3>3, <3>4, <3>5 DEF Own, Empty
  <2>5. \A q \in Requests \ {r} : Apart(r, q)'
    BY <2>1, <2>3, ApartKept DEF Checkout, NoConflict
  <2> QED BY <1>1, <1>5, <2>2, <2>4, <2>5, StepStays
<1> QED BY <1>1, <1>4, <1>5, AuthorizeMoves

LEMMA MarkOrderStays ==
    ASSUME Checkout, NEW r \in Requests, MarkOrder(r)
    PROVE  Checkout'
<1>1. pc[r] = "mark" /\ Typed
  BY DEF MarkOrder, Checkout
<1>2. AtMark(r) /\ Stages(r)
  BY DEF Checkout, Working, Own, Shape
<1>3. tx[r].cart # Null /\ tx[r].order # Null /\ tx[r].kind # "update" /\ Charged(r, "authorized")
      /\ tx[r].user = Null /\ tx[r].rows = NoRows /\ tx[r].pay = Null
  BY <1>1, <1>2 DEF AtMark, InOrder
<1>4. CASE RefundAndRefuse(r)
  BY <1>1, <1>4, RefundStays DEF Steps
<1>5. CASE Marking(r) \in Transaction /\ Stays(r, "keep", Marking(r), charge[r])
  <2>1. PICK x : x = Marking(r)
    OBVIOUS
  <2>2. x.kind = tx[r].kind /\ x.now = tx[r].now /\ x.cart = tx[r].cart
        /\ x.user = tx[r].user /\ x.rows = tx[r].rows /\ x.pay = tx[r].pay
        /\ x.order # Null /\ x.order.status = "PartiallyPaid" /\ x.order.version = tx[r].order.version
    <3>1. tx[r] \in Transaction /\ tx[r].order \in Orders
      BY <1>1, <1>3 DEF Typed, Transaction
    <3>2. x.order = [tx[r].order EXCEPT !.status = "PartiallyPaid", !.expires = now + PayTTL]
      BY <2>1, <3>1 DEF Marking, Transaction
    <3>3. x.order \in Orders
      BY <1>1, <3>1, <3>2, TimesFacts DEF Orders
    <3>4. x.order.status = "PartiallyPaid" /\ x.order.version = tx[r].order.version
      BY <3>1, <3>2 DEF Orders
    <3> QED BY <2>1, <3>1, <3>3, <3>4, NullAssumption DEF Marking, Transaction
  <2>3. x \in Transaction /\ Stays(r, "keep", x, charge[r])
    BY <1>5, <2>1
  <2>4. Frame(r) /\ pc'[r] = "keep" /\ tx'[r] = x /\ charge'[r] = charge[r]
    BY <1>1, <2>3, MovedFacts DEF Stays
  <2>5. Typed'
    BY <1>1, <2>2, <2>3, TypedStays DEF Typed, Steps
  <2>6. ~Settled(r)' /\ ~Settled(r) /\ ~Unborn(r)'
    BY <1>1, <2>4 DEF Settled, Unborn
  <2>7. Own(r)'
    <3>1. Shape(r)'
      BY <1>3, <2>2, <2>4 DEF Shape, AtStart, AtLink, AtLock, AtBody, AtAuth, AtMark,
            AtCapture, AtComplete, AtUnlink, AtTokens, AtCommit, AtEnd, Ended, InOrder, Charged
    <3>2. Stages(r)'
      <4>1. order' = order
        BY <2>3 DEF Stays, Same
      <4>2. OwnCart(r)' /\ NotYet(r)' /\ FoundDraft(r)' /\ WritesPaid(r)'
        BY <1>2, <2>2, <2>4, <2>6, <4>1 DEF Stages, OwnCart, NotYet, FoundDraft, WritesPaid
      <4>3. WritesDraft(r)'
        BY <1>1, <1>2, <1>3, <2>2, <2>4, <2>6, <4>1 DEF Stages, WritesDraft, Linked
      <4> QED BY <4>2, <4>3 DEF Stages
    <3>3. Links(r)'
      BY <1>3, <2>2, <2>4 DEF Links, HasSeen, Replaces, WritesUser
    <3>4. Takes(r)'
      BY <1>3, <2>2, <2>4, NoRowsFacts DEF Takes
    <3>5. WholeFor(r)' /\ Empty(x.order)
      BY <2>2, <2>4 DEF WholeFor, InUse, Empty
    <3> QED BY <2>4, <3>1, <3>2, <3>3, <3>4, <3>5 DEF Own, Empty
  <2>8. \A q \in Requests \ {r} : Apart(r, q)'
    BY <1>3, <2>2, <2>4, <2>6, ApartKept DEF Checkout, NoConflict
  <2> QED BY <1>1, <2>2, <2>3, <2>5, <2>7, <2>8, StepStays
<1> QED BY <1>1, <1>3, <1>4, <1>5, MarkOrderMoves

\* The tickets a purchase writes are its own.
LEMMA BoughtFacts ==
    ASSUME Checkout, NEW r \in Requests, tx[r].cart # Null, tx[r].kind # "update",
           NEW t \in Bought(r), ~Waits(r)
    PROVE  /\ t \in Tickets /\ ~RowLocked(t, r) /\ Seen(r, t) \in Rows
           /\ Seen(r, t).item = tx[r].cart /\ row[t].item = tx[r].cart
           /\ row[t].status = "Purchased" => row[t].wallet = Caller[r]
<1>1. t \in Tickets /\ Seen(r, t).item = tx[r].cart /\ ~RowLocked(t, r)
  BY DEF Bought, Waits
<1>2. row[t].item = tx[r].cart
  <2>1. Takes(r)
    BY DEF Checkout, Working, Own
  <2> QED BY <1>1, <2>1 DEF Takes, WritesRow, RowOf, Seen
<1>3. row[t].status = "Purchased" => row[t].wallet = Caller[r]
  <2>1. OwnCart(r) /\ Bound(t)
    BY <1>1 DEF Checkout, Working, Own, Stages, Database
  <2> QED BY <1>2, <2>1 DEF OwnCart, Bound
<1> QED BY <1>1, <1>2, <1>3, SeenFacts DEF Checkout

LEMMA KeepTicketsStays ==
    ASSUME Checkout, NEW r \in Requests, KeepTickets(r)
    PROVE  Checkout'
<1>1. pc[r] = "keep" /\ Typed /\ ~Waits(r)
  BY DEF KeepTickets, Checkout
<1>2. AtMark(r) /\ Stages(r) /\ WholeFor(r)
  BY DEF Checkout, Working, Own, Shape
<1>3. InOrder(r, "PartiallyPaid") /\ tx[r].cart # Null /\ tx[r].order # Null /\ tx[r].kind # "update"
      /\ Charged(r, "authorized") /\ tx[r].user = Null /\ tx[r].rows = NoRows /\ tx[r].pay = Null
  BY <1>1, <1>2 DEF AtMark, InOrder
<1>4. PICK x : x = Keeping(r)
  OBVIOUS
<1>5. PICK p : p = "complete"
  OBVIOUS
<1>6. x \in Transaction /\ Stays(r, p, x, charge[r])
  BY <1>1, <1>3, <1>4, <1>5, KeepTicketsMoves
<1>7. x.kind = tx[r].kind /\ x.now = tx[r].now /\ x.cart = tx[r].cart /\ x.order = tx[r].order
      /\ x.user = tx[r].user /\ x.rows = Keeps(r)
      /\ x.pay = IF tx[r].kind = "card" THEN "Authorized" ELSE "Completed"
  BY <1>1, <1>4 DEF Keeping, Typed, Transaction
<1>8. Frame(r) /\ pc'[r] = p /\ tx'[r] = x /\ charge'[r] = charge[r]
  BY <1>1, <1>6, MovedFacts DEF Stays
<1>9. tx[r].kind \in {"card", "external", "free"}
  BY <1>1, <1>3, KindsAre
<1>10. Typed'
  BY <1>1, <1>5, <1>6, <1>7, TypedStays DEF Typed, Steps
<1>11. ~Settled(r)' /\ ~Settled(r) /\ ~Unborn(r)'
  BY <1>1, <1>5, <1>7, <1>8 DEF Settled, Unborn
<1>12. DOMAIN x.rows = Bought(r)
       /\ \A t \in Bought(r) : x.rows[t] = KeptUntil(row[t], tx[r].order.expires)
  BY <1>7 DEF Keeps
<1>13. Own(r)'
  <2>1. Shape(r)'
    BY <1>3, <1>5, <1>7, <1>8, <1>9 DEF Shape, AtStart, AtLink, AtLock, AtBody, AtAuth, AtMark,
          AtCapture, AtComplete, AtUnlink, AtTokens, AtCommit, AtEnd, Ended, InOrder, Charged,
          Promised, MoneyIn, Second, Unpaid
  <2>2. Stages(r)'
    <3>1. order' = order
      BY <1>6 DEF Stays, Same
    <3>2. OwnCart(r)' /\ NotYet(r)' /\ FoundDraft(r)' /\ WritesPaid(r)'
      BY <1>2, <1>5, <1>7, <1>8, <1>11, <3>1 DEF Stages, OwnCart, NotYet, FoundDraft, WritesPaid
    <3>3. WritesDraft(r)'
      BY <1>1, <1>2, <1>3, <1>5, <1>7, <1>8, <1>11, <3>1 DEF Stages, WritesDraft, Linked, InOrder
    <3> QED BY <3>2, <3>3 DEF Stages
  <2>3. Links(r)'
    BY <1>3, <1>5, <1>7, <1>8 DEF Links, HasSeen, Replaces, WritesUser
  <2>4. Takes(r)'
    <3>1. SUFFICES ASSUME NEW t \in Bought(r) PROVE WritesRow(r, t)'
      BY <1>8, <1>12 DEF Takes
    <3>2. row[t] \in Rows /\ row[t].item = tx[r].cart
          /\ (row[t].status = "Purchased" => row[t].wallet = Caller[r])
      BY <1>1, <1>3, BoughtFacts DEF Typed
    <3>3. x.rows[t].item = row[t].item /\ x.rows[t].wallet = row[t].wallet
          /\ x.rows[t].status = row[t].status
      BY <1>12, <3>2, RowColumns
    <3>4. row' = row
      BY <1>6 DEF Stays, Same
    <3> QED BY <1>3, <1>7, <1>8, <3>2, <3>3, <3>4 DEF WritesRow, RowOf
  <2>5. WholeFor(r)' /\ Empty(x.order)
    BY <1>3, <1>7, <1>8 DEF WholeFor, InUse, Empty, InOrder
  <2> QED BY <1>8, <2>1, <2>2, <2>3, <2>4, <2>5 DEF Own, Empty
<1>14. \A q \in Requests \ {r} : Apart(r, q)'
  <2> TAKE q \in Requests \ {r}
  <2>1. Apart(r, q)
    BY DEF Checkout, NoConflict
  <2>2. DOMAIN x.rows \cap DOMAIN tx[q].rows = {}
    BY <1>1, <1>3, <1>12, BoughtFacts DEF RowLocked, Others
  <2> QED BY <1>3, <1>7, <1>8, <1>11, <2>1, <2>2 DEF Apart, Frame
<1> QED BY <1>1, <1>6, <1>7, <1>10, <1>13, <1>14, StepStays

LEMMA CaptureStays ==
    ASSUME Checkout, NEW r \in Requests, Capture(r)
    PROVE  Checkout'
<1>1. pc[r] = "capture" /\ Typed
  BY DEF Capture, Checkout
<1>2. AtCapture(r) /\ Stages(r)
  BY DEF Checkout, Working, Own, Shape
<1>3. Nothing(r) /\ tx[r].kind = "card" /\ tx[r].cart # Null
  BY <1>1, <1>2 DEF AtCapture
<1>4. CASE Stops(r, "fault", charge[r])
  BY <1>1, <1>4, CrashStays DEF Steps
<1>5. CASE Captured(r) \in Transaction /\ Stays(r, "complete", Captured(r), "captured")
  <2>1. PICK x : x = Captured(r)
    OBVIOUS
  <2>2. x.kind = tx[r].kind /\ x.now = tx[r].now /\ x.cart = tx[r].cart /\ x.order = Null
        /\ x.user = Null /\ x.rows = NoRows /\ x.pay = "Completed"
    BY <1>1, <1>3, <2>1 DEF Captured, Typed, Transaction, Nothing
  <2>3. x \in Transaction /\ Stays(r, "complete", x, "captured")
    BY <1>5, <2>1
  <2>4. Frame(r) /\ pc'[r] = "complete" /\ tx'[r] = x /\ charge'[r] = "captured"
    BY <1>1, <2>3, MovedFacts DEF Stays
  <2>5. Typed'
    BY <1>1, <2>2, <2>3, TypedStays DEF Typed, Steps
  <2>6. Settled(r)' /\ Settled(r) /\ ~Unborn(r)'
    BY <1>1, <1>3, <2>2, <2>4 DEF Settled, Unborn
  <2>7. Own(r)'
    <3>1. Shape(r)'
      BY <1>3, <2>2, <2>4 DEF Shape, AtStart, AtLink, AtLock, AtBody, AtAuth, AtMark,
            AtCapture, AtComplete, AtUnlink, AtTokens, AtCommit, AtEnd, Ended, Charged,
            MoneyIn, Second, Unpaid
    <3>2. Stages(r)'
      <4>1. order' = order
        BY <2>3 DEF Stays, Same
      <4> QED BY <1>1, <1>2, <1>3, <2>2, <2>4, <2>6, <4>1 DEF Stages, OwnCart, NotYet, FoundDraft,
                 WritesPaid, WritesDraft
    <3>3. Links(r)'
      BY <2>2, <2>4 DEF Links, HasSeen, Replaces, WritesUser
    <3>4. Takes(r)' /\ WholeFor(r)'
      BY <2>2, <2>4, NoRowsFacts DEF Takes, WholeFor
    <3> QED BY <2>2, <2>4, <3>1, <3>2, <3>3, <3>4 DEF Own
  <2>8. \A q \in Requests \ {r} : Apart(r, q)'
    BY <2>2, <2>4, <2>6, ApartKept, NoRowsFacts DEF Checkout, NoConflict
  <2> QED BY <1>1, <2>2, <2>3, <2>5, <2>7, <2>8, StepStays
<1> QED BY <1>1, <1>4, <1>5, CaptureMoves

LEMMA CompletingFields ==
    ASSUME Typed, NEW r \in Requests, tx[r].cart # Null, NEW x, x = Completing(r)
    PROVE  /\ x.kind = tx[r].kind /\ x.now = tx[r].now /\ x.cart = tx[r].cart
           /\ x.user = tx[r].user /\ x.rows = Buys(r) /\ x.pay = tx[r].pay
           /\ x.seen = user[Caller[r]] /\ x.order # Null
           /\ x.order.status = "Paid" /\ x.order.version = Cart(r).version
<1>1. Cart(r) \in Orders /\ tx[r] \in Transaction
  BY CartFacts DEF Typed
<1>2. [Cart(r) EXCEPT !.status = "Paid"] \in Orders
  BY <1>1 DEF Orders
<1>3. x.order = [Cart(r) EXCEPT !.status = "Paid"]
  BY <1>1 DEF Completing, Transaction
<1>4. x.order # Null /\ x.order.status = "Paid" /\ x.order.version = Cart(r).version
  BY <1>1, <1>2, <1>3, NullAssumption DEF Orders
<1> QED BY <1>1, <1>4 DEF Completing, Transaction

\* What a checkout has come to when it asks whether its order is fully paid.
LEMMA AtCompleteFacts ==
    ASSUME Checkout, NEW r \in Requests, pc[r] = "complete"
    PROVE  /\ tx[r].kind # "update" /\ tx[r].cart # Null /\ tx[r].user = Null
           /\ Promised(r) \/ MoneyIn(r)
           /\ Unpaid(r) /\ Stages(r)
           /\ Settled(r) => Second(r) /\ MoneyIn(r) /\ tx[r].order = Null /\ tx[r].rows = NoRows
           /\ ~Settled(r) => ~Second(r) /\ InOrder(r, "PartiallyPaid")
           /\ AfterPayment(r) \in {"commitAuth", "tokens"}
           /\ AfterPayment(r) = "commitAuth" => Promised(r) /\ ~Settled(r)
           /\ AfterPayment(r) = "tokens" => MoneyIn(r)
<1>1. AtComplete(r) /\ Stages(r)
  BY DEF Checkout, Working, Own, Shape
<1>2. tx[r].kind # "update" /\ (Promised(r) \/ MoneyIn(r)) /\ Unpaid(r)
  BY <1>1 DEF AtComplete
<1>3. Settled(r) <=> Second(r)
  BY DEF Settled, Second
<1>4. Second(r) => MoneyIn(r)
  BY <1>2 DEF Second, Promised
<1>5. /\ AfterPayment(r) \in {"commitAuth", "tokens"}
      /\ AfterPayment(r) = "commitAuth" => Promised(r) /\ ~Second(r)
      /\ AfterPayment(r) = "tokens" => MoneyIn(r)
  BY <1>2 DEF AfterPayment, Promised, MoneyIn, Second
<1> QED BY <1>1, <1>2, <1>3, <1>4, <1>5 DEF Unpaid

LEMMA UncoveredStays ==
    ASSUME Checkout, NEW r \in Requests, pc[r] = "complete", ~Covered(r),
           Stays(r, AfterPayment(r), tx[r], charge[r])
    PROVE  Checkout'
<1>1. PICK p : p = AfterPayment(r)
  OBVIOUS
<1>2. /\ tx[r].kind # "update" /\ tx[r].cart # Null /\ tx[r].user = Null
      /\ Unpaid(r) /\ Stages(r) /\ p \in {"commitAuth", "tokens"}
      /\ p = "commitAuth" => Promised(r) /\ ~Settled(r)
      /\ p = "tokens" => MoneyIn(r)
      /\ Settled(r) => Second(r) /\ tx[r].order = Null
      /\ ~Settled(r) => ~Second(r) /\ InOrder(r, "PartiallyPaid")
  BY <1>1, AtCompleteFacts
<1>3. Typed /\ Stays(r, p, tx[r], charge[r])
  BY <1>1 DEF Checkout
<1>4. Frame(r) /\ pc'[r] = p /\ tx'[r] = tx[r] /\ charge'[r] = charge[r]
  BY <1>3, MovedFacts DEF Stays
<1>5. Typed'
  BY <1>2, <1>3, TypedStays DEF Typed, Steps
<1>6. (Settled(r)' => Settled(r)) /\ (Settled(r) => Settled(r)') /\ ~Unborn(r)'
  <2>1. p = "tokens" => (tx[r].kind = "card" => tx[r].pay = "Completed")
    BY <1>2 DEF MoneyIn
  <2> QED BY <1>2, <1>4, <2>1 DEF Settled, Second, Unborn
<1>7. Own(r)'
  <2>1. Shape(r)'
    <3>1. (Unpaid(r) <=> Unpaid(r)') /\ (MoneyIn(r) <=> MoneyIn(r)') /\ (Covered(r) <=> Covered(r)')
          /\ (Promised(r) <=> Promised(r)')
      BY <1>4 DEF Unpaid, MoneyIn, Covered, InFull, Promised, Second, InOrder, Charged
    <3>2. Promised(r)' => tx'[r].kind = "card" /\ charge'[r] = "authorized" /\ tx'[r].pay = "Authorized"
      BY DEF Promised
    <3> QED BY <1>2, <1>4, <3>1, <3>2 DEF Shape, AtStart, AtLink, AtLock, AtBody, AtAuth, AtMark,
               AtCapture, AtComplete, AtUnlink, AtTokens, AtCommit, AtEnd, Ended, Finished
  <2>2. Stages(r)'
    <3>1. order' = order
      BY <1>3 DEF Stays, Same
    <3>2. OwnCart(r)' /\ NotYet(r)' /\ FoundDraft(r)' /\ WritesPaid(r)'
      BY <1>2, <1>4, <1>6, <3>1 DEF Stages, OwnCart, NotYet, FoundDraft, WritesPaid
    <3>3. WritesDraft(r)'
      BY <1>2, <1>4, <1>6, <3>1 DEF Stages, WritesDraft, Linked, Unpaid, InOrder
    <3> QED BY <3>2, <3>3 DEF Stages
  <2>3. Links(r)'
    BY <1>2, <1>4 DEF Links, HasSeen, Replaces, WritesUser
  <2>4. Takes(r)'
    BY <1>3, <1>4 DEF Checkout, Working, Own, Takes, WritesRow, RowOf, Stays, Same
  <2>5. WholeFor(r)' /\ (tx[r].order # Null => Empty(tx[r].order))
    BY <1>3, <1>4, WholeForKept DEF Checkout, Working, Own, Stays
  <2> QED BY <1>4, <2>1, <2>2, <2>3, <2>4, <2>5 DEF Own, Empty
<1>8. \A q \in Requests \ {r} : Apart(r, q)'
  BY <1>4, <1>6, ApartKept DEF Checkout, NoConflict
<1>9. pc[r] # "ok"
  OBVIOUS
<1> QED BY <1>3, <1>5, <1>7, <1>8, <1>9, StepStays

LEMMA CoveredStays ==
    ASSUME Checkout, NEW r \in Requests, pc[r] = "complete", Covered(r), ~Waits(r),
           ~OrderLocked(tx[r].cart, r), Completing(r) \in Transaction,
           Stays(r, IF user[Caller[r]].cart = tx[r].cart THEN "unlink" ELSE AfterPayment(r),
                 Completing(r), charge[r])
    PROVE  Checkout'
<1>1. pc[r] = "complete" /\ Typed /\ ~Waits(r) /\ ~OrderLocked(tx[r].cart, r)
  BY DEF Checkout
<1>2. PICK a : a = AfterPayment(r)
  OBVIOUS
<1>3. /\ tx[r].kind # "update" /\ tx[r].cart # Null /\ tx[r].user = Null
      /\ Promised(r) \/ MoneyIn(r)
      /\ Stages(r) /\ a \in {"commitAuth", "tokens"}
      /\ a = "commitAuth" => Promised(r) /\ ~Settled(r)
      /\ a = "tokens" => MoneyIn(r)
      /\ Settled(r) => Second(r) /\ tx[r].order = Null
      /\ ~Settled(r) => ~Second(r) /\ InOrder(r, "PartiallyPaid")
  BY <1>2, AtCompleteFacts
<1>4. PICK x : x = Completing(r)
  OBVIOUS
<1>5. PICK p : p = IF user[Caller[r]].cart = tx[r].cart THEN "unlink" ELSE a
  OBVIOUS
<1>6. x \in Transaction /\ Stays(r, p, x, charge[r])
  BY <1>2, <1>4, <1>5
<1>7. /\ x.kind = tx[r].kind /\ x.now = tx[r].now /\ x.cart = tx[r].cart
      /\ x.user = tx[r].user /\ x.rows = Buys(r) /\ x.pay = tx[r].pay
      /\ x.seen = user[Caller[r]] /\ x.order # Null
      /\ x.order.status = "Paid" /\ x.order.version = Cart(r).version
  BY <1>1, <1>3, <1>4, CompletingFields
<1>8. Frame(r) /\ pc'[r] = p /\ tx'[r] = x /\ charge'[r] = charge[r]
  BY <1>1, <1>6, MovedFacts DEF Stays
<1>9. p \in {"unlink", "commitAuth", "tokens"} /\ p \in {"unlink", a}
      /\ (p = "unlink" => user[Caller[r]].cart = tx[r].cart)
  BY <1>3, <1>5
<1>10. Typed'
  BY <1>1, <1>6, <1>7, <1>9, TypedStays DEF Typed, Steps
<1>11. (Settled(r)' => Settled(r)) /\ (Settled(r) => Settled(r)') /\ ~Unborn(r)'
       /\ (Settled(r) => tx[r].order = Null)
  <2>1. p = "tokens" => (tx[r].kind = "card" => tx[r].pay = "Completed")
    BY <1>3, <1>9 DEF MoneyIn
  <2> QED BY <1>1, <1>3, <1>7, <1>8, <1>9, <2>1 DEF Settled, Second, Unborn
<1>12. DOMAIN x.rows = Bought(r)
       /\ \A t \in Bought(r) : x.rows[t] = PurchasedBy(Seen(r, t), tx[r].cart, Caller[r])
  BY <1>7 DEF Buys
<1>13. Own(r)'
  <2>1. Shape(r)'
    <3>1. /\ Promised(r) <=> Promised(r)'
          /\ MoneyIn(r) <=> MoneyIn(r)'
          /\ Covered(r)'
      BY <1>7, <1>8 DEF Promised, MoneyIn, Charged, Covered, InFull
    <3>2. PaidUp(r)' /\ tx'[r].user = Null
      BY <1>3, <1>7, <1>8, <3>1 DEF PaidUp, InOrder
    <3>3. Promised(r)' => tx'[r].kind = "card" /\ charge'[r] = "authorized" /\ tx'[r].pay = "Authorized"
      BY DEF Promised
    <3>4. p = "unlink" => tx'[r].seen.cart = tx'[r].cart
      BY <1>7, <1>8, <1>9
    <3> QED BY <1>3, <1>7, <1>8, <1>9, <3>1, <3>2, <3>3, <3>4 DEF Shape, AtStart, AtLink, AtLock,
               AtBody, AtAuth, AtMark, AtCapture, AtComplete, AtUnlink, AtTokens, AtCommit, AtEnd,
               Ended, Finished
  <2>2. Stages(r)'
    <3>1. order' = order
      BY <1>6 DEF Stays, Same
    <3>2. OwnCart(r)' /\ NotYet(r)' /\ FoundDraft(r)'
      BY <1>3, <1>7, <1>8, <1>9, <1>11, <3>1 DEF Stages, OwnCart, NotYet, FoundDraft
    <3>3. WritesPaid(r)'
      <4>1. Settled(r) => Cart(r) = order[tx[r].cart]
        BY <1>11 DEF Cart
      <4> QED BY <1>1, <1>3, <1>7, <1>8, <1>9, <1>11, <3>1, <4>1 DEF Stages, WritesPaid
    <3>4. WritesDraft(r)'
      <4>1. ~Settled(r) => Cart(r) = tx[r].order /\ tx[r].order # Null
        BY <1>3 DEF Cart, InOrder
      <4> QED BY <1>1, <1>3, <1>7, <1>8, <1>9, <1>11, <3>1, <4>1 DEF Stages, WritesDraft, Linked
    <3> QED BY <3>2, <3>3, <3>4 DEF Stages
  <2>3. Links(r)'
    BY <1>3, <1>7, <1>8, <1>9 DEF Links, HasSeen, Replaces, WritesUser
  <2>4. Takes(r)'
    <3>1. SUFFICES ASSUME NEW t \in Bought(r) PROVE WritesRow(r, t)'
      BY <1>8, <1>12 DEF Takes
    <3>2. Seen(r, t) \in Rows /\ row[t].item = tx[r].cart /\ Seen(r, t).item = tx[r].cart
          /\ (row[t].status = "Purchased" => row[t].wallet = Caller[r])
      BY <1>1, <1>3, BoughtFacts
    <3>3. x.rows[t].item = tx[r].cart /\ x.rows[t].wallet = Caller[r]
      BY <1>12, <3>2, RowColumns
    <3>4. row' = row
      BY <1>6 DEF Stays, Same
    <3> QED BY <1>7, <1>8, <3>2, <3>3, <3>4 DEF WritesRow, RowOf
  <2>5. WholeFor(r)' /\ Empty(x.order)
    BY <1>7, <1>8 DEF WholeFor, InUse, Empty
  <2> QED BY <1>8, <2>1, <2>2, <2>3, <2>4, <2>5 DEF Own, Empty
<1>14. \A q \in Requests \ {r} : Apart(r, q)'
  <2> TAKE q \in Requests \ {r}
  <2>1. Apart(r, q)
    BY DEF Checkout, NoConflict
  <2>2. DOMAIN x.rows \cap DOMAIN tx[q].rows = {}
    BY <1>1, <1>3, <1>12, BoughtFacts DEF RowLocked, Others
  <2>3. tx[q].order # Null => tx[q].cart # tx[r].cart
    BY <1>1 DEF OrderLocked, Others
  <2>4. Settled(q)' => Settled(q)
    BY <1>8 DEF Frame, Settled
  <2> QED BY <1>3, <1>7, <1>8, <1>11, <2>1, <2>2, <2>3, <2>4 DEF Apart, Frame
<1> QED BY <1>1, <1>6, <1>7, <1>10, <1>13, <1>14, StepStays

LEMMA CompleteStays ==
    ASSUME Checkout, NEW r \in Requests, Complete(r)
    PROVE  Checkout'
<1>1. pc[r] = "complete" /\ Typed
  BY DEF Complete, Checkout
<1>2. tx[r].cart # Null
  BY <1>1, AtCompleteFacts
<1>3. CASE ~Covered(r) /\ Stays(r, AfterPayment(r), tx[r], charge[r])
  BY <1>1, <1>3, UncoveredStays
<1>4. CASE /\ Covered(r) /\ ~OrderLocked(tx[r].cart, r) /\ ~Waits(r)
           /\ Completing(r) \in Transaction
           /\ Stays(r, IF user[Caller[r]].cart = tx[r].cart THEN "unlink" ELSE AfterPayment(r),
                    Completing(r), charge[r])
  BY <1>1, <1>4, CoveredStays
<1> QED BY <1>1, <1>2, <1>3, <1>4, CompleteMoves

LEMMA UnlinkCartStays ==
    ASSUME Checkout, NEW r \in Requests, UnlinkCart(r)
    PROVE  Checkout'
<1>1. pc[r] = "unlink" /\ Typed /\ ~UserLocked(Caller[r], r)
  BY DEF UnlinkCart, Checkout
<1>2. AtUnlink(r) /\ Stages(r) /\ Takes(r) /\ WholeFor(r)
  BY DEF Checkout, Working, Own, Shape
<1>3. /\ tx[r].kind # "update" /\ InOrder(r, "Paid") /\ (Promised(r) \/ MoneyIn(r))
      /\ Covered(r) /\ tx[r].seen.cart = tx[r].cart /\ tx[r].cart # Null
      /\ tx[r].order # Null /\ tx[r].order.status = "Paid" /\ tx[r].user = Null
  BY <1>1, <1>2 DEF AtUnlink, PaidUp, InOrder
<1>4. CASE RefundAndRefuse(r)
  BY <1>1, <1>4, RefundStays DEF Steps
<1>5. CASE /\ AsSeen(r) /\ WithUser(r, Null) \in Transaction
           /\ Stays(r, AfterPayment(r), WithUser(r, Null), charge[r])
  <2>0. PICK p : p = AfterPayment(r)
    OBVIOUS
  <2>1. PICK x : x = WithUser(r, Null)
    OBVIOUS
  <2>2. /\ x.kind = tx[r].kind /\ x.now = tx[r].now /\ x.seen = tx[r].seen
        /\ x.cart = tx[r].cart /\ x.version = tx[r].version /\ x.order = tx[r].order
        /\ x.rows = tx[r].rows /\ x.pay = tx[r].pay
        /\ x.user.cart = Null /\ x.user.stamp = tx[r].seen.stamp + 1
    BY <1>1, <2>1, WithUserFields
  <2>3. x \in Transaction /\ Stays(r, p, x, charge[r])
    BY <1>5, <2>0, <2>1
  <2>10. /\ p \in {"commitAuth", "tokens"}
         /\ p = "commitAuth" => Promised(r)
         /\ p = "tokens" => MoneyIn(r)
    BY <1>3, <2>0 DEF AfterPayment, Promised, MoneyIn
  <2>4. Frame(r) /\ pc'[r] = p /\ tx'[r] = x /\ charge'[r] = charge[r]
    BY <1>1, <2>3, MovedFacts DEF Stays
  <2>5. Typed'
    BY <1>1, <2>2, <2>3, <2>10, TypedStays DEF Typed, Steps
  <2>6. x.user # Null
    <3>1. [cart |-> Null, stamp |-> tx[r].seen.stamp + 1] \in UserRows
      BY <1>1 DEF Typed, Transaction, UserRows
    <3>2. x.user = [cart |-> Null, stamp |-> tx[r].seen.stamp + 1]
      BY <1>1, <2>1 DEF WithUser, Typed, Transaction
    <3> QED BY <3>1, <3>2, NullAssumption
  <2>7. (Settled(r)' => Settled(r)) /\ (Settled(r) => Settled(r)') /\ ~Unborn(r)'
    BY <1>1, <2>2, <2>4, <2>10 DEF Settled, Unborn, Promised, MoneyIn
  <2>8. Own(r)'
    <3>1. Shape(r)'
      <4>1. /\ Promised(r) <=> Promised(r)'
            /\ MoneyIn(r) <=> MoneyIn(r)'
            /\ Covered(r)'
        BY <1>3, <2>2, <2>4 DEF Promised, MoneyIn, Charged, Covered, InFull
      <4>2. PaidUp(r)'
        BY <1>3, <2>2, <2>4, <4>1 DEF PaidUp, InOrder, Unlinked
      <4>3. Promised(r)' => tx'[r].kind = "card" /\ charge'[r] = "authorized" /\ tx'[r].pay = "Authorized"
        BY DEF Promised
      <4> QED BY <1>3, <2>2, <2>4, <2>10, <4>1, <4>2, <4>3 DEF Shape, AtStart, AtLink, AtLock, AtBody,
                 AtAuth, AtMark, AtCapture, AtComplete, AtUnlink, AtTokens, AtCommit, AtEnd, Ended, Finished
    <3>2. Stages(r)'
      <4>1. order' = order
        BY <2>3 DEF Stays, Same
      <4>2. OwnCart(r)' /\ NotYet(r)' /\ FoundDraft(r)'
        BY <1>2, <2>2, <2>4, <2>7, <2>10, <4>1 DEF Stages, OwnCart, NotYet, FoundDraft
      <4>3. WritesPaid(r)'
        BY <1>1, <1>2, <2>2, <2>4, <2>7, <2>10, <4>1 DEF Stages, WritesPaid
      <4>4. WritesDraft(r)'
        <5>1. WritesDraft(r) /\ tx[r].user = Null
          BY <1>2, <1>3 DEF Stages
        <5> QED BY <1>1, <1>3, <2>2, <2>4, <2>7, <2>10, <4>1, <5>1 DEF WritesDraft, Linked
      <4> QED BY <4>2, <4>3, <4>4 DEF Stages
    <3>3. Links(r)'
      <4>1. user[Caller[r]] = tx[r].seen /\ tx[r].seen.stamp \in Nat
        BY <1>1, <1>5 DEF AsSeen, Typed, Transaction, UserRows
      <4>2. x.user.stamp > user[Caller[r]].stamp
        BY <2>2, <4>1
      <4>3. ~Linked(r)'
        BY <2>2, <2>4, NullAssumption DEF Linked
      <4>4. user' = user
        BY <2>3 DEF Stays, Same
      <4> QED BY <1>3, <2>2, <2>4, <2>10, <4>1, <4>2, <4>3, <4>4 DEF Links, HasSeen, Replaces, WritesUser
    <3>4. Takes(r)'
      BY <1>2, <2>2, <2>3, <2>4 DEF Takes, WritesRow, RowOf, Stays, Same
    <3>5. WholeFor(r)' /\ Empty(x.order)
      BY <1>3, <2>2, <2>4 DEF WholeFor, InUse, Empty
    <3> QED BY <2>4, <3>1, <3>2, <3>3, <3>4, <3>5 DEF Own, Empty
  <2>9. \A q \in Requests \ {r} : Apart(r, q)'
    <3> TAKE q \in Requests \ {r}
    <3>1. Apart(r, q)
      BY DEF Checkout, NoConflict
    <3>2. tx[q].user # Null => Caller[q] # Caller[r]
      BY <1>1 DEF UserLocked, Others
    <3>3. Settled(q)' => Settled(q)
      BY <2>4 DEF Frame, Settled
    <3> QED BY <2>2, <2>4, <2>7, <3>1, <3>2, <3>3 DEF Apart, Frame
  <2> QED BY <1>1, <2>2, <2>3, <2>5, <2>8, <2>9, StepStays
<1> QED BY <1>1, <1>4, <1>5, UnlinkCartMoves

LEMMA TransferTokensStays ==
    ASSUME Checkout, NEW r \in Requests, TransferTokens(r)
    PROVE  Checkout'
<1>1. pc[r] = "tokens" /\ Typed
  BY DEF TransferTokens, Checkout
<1>2. AtTokens(r) /\ Stages(r) /\ Links(r) /\ Takes(r) /\ WholeFor(r)
      /\ (tx[r].order # Null => Empty(tx[r].order))
  BY DEF Checkout, Working, Own, Shape
<1>3. /\ tx[r].kind # "update" /\ Finished(r)
      /\ tx[r].order # Null => tx[r].order.status # "Draft"
  BY <1>1, <1>2 DEF AtTokens, Finished, PaidUp, Unpaid, InOrder
<1>4. CASE Stops(r, "fault", charge[r])
  BY <1>1, <1>4, CrashStays DEF Steps
<1>5. CASE Stays(r, "commit", tx[r], charge[r])
  <2>1. Frame(r) /\ pc'[r] = "commit" /\ tx'[r] = tx[r] /\ charge'[r] = charge[r]
    BY <1>1, <1>5, MovedFacts DEF Stays
  <2>2. Typed'
    BY <1>1, <1>5, TypedStays DEF Typed, Steps
  <2>3. (Settled(r)' => Settled(r)) /\ (Settled(r) => Settled(r)') /\ ~Unborn(r)'
    BY <1>1, <2>1 DEF Settled, Unborn
  <2>4. Own(r)'
    <3>1. Shape(r)'
      <4>1. Finished(r)'
        BY <1>3, <2>1 DEF Finished, MoneyIn, PaidUp, Unpaid, InOrder, Unlinked, Second, Covered, InFull,
              Charged
      <4> QED BY <1>3, <2>1, <4>1 DEF Shape, AtStart, AtLink, AtLock, AtBody, AtAuth, AtMark,
                 AtCapture, AtComplete, AtUnlink, AtTokens, AtCommit, AtEnd, Ended
    <3>2. Stages(r)'
      <4>1. order' = order
        BY <1>5 DEF Stays, Same
      <4>2. OwnCart(r)' /\ NotYet(r)' /\ FoundDraft(r)' /\ WritesPaid(r)'
        BY <1>1, <1>2, <2>1, <2>3, <4>1 DEF Stages, OwnCart, NotYet, FoundDraft, WritesPaid
      <4>3. WritesDraft(r)'
        BY <1>1, <1>2, <1>3, <2>1, <2>3, <4>1 DEF Stages, WritesDraft, Linked
      <4> QED BY <4>2, <4>3 DEF Stages
    <3>3. Links(r)'
      BY <1>2, <1>5, <2>1 DEF Links, HasSeen, Replaces, WritesUser, Gone, Linked, Unlinked,
            Stays, Same
    <3>4. Takes(r)'
      BY <1>2, <1>5, <2>1 DEF Takes, WritesRow, RowOf, Stays, Same
    <3>5. WholeFor(r)'
      BY <1>2, <1>5, <2>1, WholeForKept DEF Stays
    <3> QED BY <1>2, <2>1, <3>1, <3>2, <3>3, <3>4, <3>5 DEF Own, Empty
  <2>5. \A q \in Requests \ {r} : Apart(r, q)'
    BY <2>1, <2>3, ApartKept DEF Checkout, NoConflict
  <2> QED BY <1>1, <1>5, <2>2, <2>4, <2>5, StepStays
<1> QED BY <1>1, <1>4, <1>5, TransferTokensMoves

-----------------------------------------------------------------------------
(* A step that commits.                                                    *)

\* What a request that is about to commit an order has come to.
Ready(r) ==
    /\ tx[r].order # Null /\ tx[r].cart # Null /\ tx[r].order.status # "none"
    /\ Settled(r) => tx[r].order.status = "Paid"
    /\ order[tx[r].cart].status = "none" => tx[r].cart = r /\ Linked(r)
    /\ order[tx[r].cart].status # "none" /\ ~Settled(r) =>
          tx[r].order.version = order[tx[r].cart].version + 1
    /\ tx[r].user # Null => Linked(r) \/ (Unlinked(r) /\ tx[r].order.status # "Draft")

LEMMA ReadyFacts ==
    ASSUME Checkout, NEW r \in Requests,
           \/ pc[r] = "lock" /\ tx[r].order # Null
           \/ pc[r] \in {"commitAuth", "commit"} /\ tx[r].order # Null
    PROVE  Ready(r)
<1>1. AtLock(r) /\ AtCapture(r) /\ AtCommit(r) /\ WritesDraft(r) /\ WritesPaid(r) /\ NotYet(r)
  BY DEF Checkout, Working, Own, Shape, Stages
<1>3. NewCart.status = "Draft" /\ NewCart.version = 0
  BY DEF NewCart
<1>4. CASE pc[r] = "lock" /\ tx[r].order # Null
  <2>1. Made(r) /\ Linked(r) /\ tx[r].cart # Null /\ Unborn(r)
    BY <1>1, <1>4 DEF AtLock, Unborn
  <2> QED BY <1>1, <1>3, <1>4, <2>1 DEF Ready, Made, NotYet, Settled
<1>5. CASE pc[r] = "commitAuth" /\ tx[r].order # Null
  <2>1. /\ tx[r].cart # Null /\ tx[r].order.status \in {"PartiallyPaid", "Paid"}
        /\ tx[r].user # Null => Unlinked(r)
    BY <1>1, <1>5 DEF AtCapture, PaidUp, Unpaid, InOrder
  <2> QED BY <1>1, <1>5, <2>1 DEF Ready, WritesDraft, Settled, Linked
<1>6. CASE pc[r] = "commit" /\ tx[r].order # Null
  <2>1. /\ tx[r].cart # Null /\ tx[r].order.status \in {"Draft", "PartiallyPaid", "Paid"}
        /\ tx[r].user # Null => Linked(r) \/ (Unlinked(r) /\ tx[r].order.status # "Draft")
        /\ Second(r) => tx[r].order.status = "Paid"
    BY <1>1, <1>6, NullAssumption DEF AtCommit, Finished, PaidUp, Unpaid, InOrder, Second, Payments
  <2>2. Settled(r) => Second(r) /\ order[tx[r].cart].status # "none"
    BY <1>1, <1>6 DEF Settled, WritesPaid, AtCommit, Finished, MoneyIn, Second
  <2> QED BY <1>1, <1>6, <2>1, <2>2 DEF Ready, WritesDraft
<1> QED BY <1>4, <1>5, <1>6

\* What the commit writes to the order and to the user's row.
LEMMA AppliedFacts ==
    ASSUME Checkout, NEW r \in Requests, NEW p, NEW x, Ready(r), Applies(r, p, x)
    PROVE  /\ Frame(r) /\ pc'[r] = p /\ tx'[r] = x /\ charge'[r] = charge[r] /\ now' = now
           /\ tx[r].cart \in Requests /\ tx[r].order \in Orders
           /\ order'[tx[r].cart] = tx[r].order
           /\ \A o \in Requests : o # tx[r].cart => order'[o] = order[o]
           /\ tx[r].user # Null => user'[Caller[r]] = tx[r].user
           /\ \A u \in Users : tx[r].user = Null \/ u # Caller[r] => user'[u] = user[u]
           /\ \A t \in Tickets : row'[t] = Seen(r, t)
           /\ \A q \in Requests \ {r} : pay'[q] = pay[q]
           /\ pay'[r] = IF tx[r].pay = Null THEN pay[r] ELSE tx[r].pay
           /\ revived \subseteq revived'
           /\ Revives(r) => tx[r].cart \in revived'
<1>1. Typed /\ Moved(r, p, x, charge[r]) /\ Apply(r) /\ now' = now
  BY DEF Checkout, Applies
<1>2. tx[r].cart \in Requests /\ tx[r].order \in Orders /\ Caller[r] \in Users
  BY <1>1 DEF Typed, Transaction, Ready, Users
<1>3. order' = [order EXCEPT ![tx[r].cart] = tx[r].order]
      /\ (tx[r].user # Null => user' = [user EXCEPT ![Caller[r]] = tx[r].user])
      /\ (tx[r].user = Null => user' = user)
      /\ row' = [t \in Tickets |-> Seen(r, t)]
      /\ pay' = (IF tx[r].pay = Null THEN pay ELSE [pay EXCEPT ![r] = tx[r].pay])
      /\ revived' = (IF Revives(r) THEN revived \cup {tx[r].cart} ELSE revived)
  BY <1>1 DEF Apply, Ready
<1>4. Frame(r) /\ pc'[r] = p /\ tx'[r] = x /\ charge'[r] = charge[r]
  BY <1>1, MovedFacts
<1>5. /\ order'[tx[r].cart] = tx[r].order
      /\ \A o \in Requests : o # tx[r].cart => order'[o] = order[o]
  BY <1>1, <1>2, <1>3 DEF Typed
<1>6. /\ tx[r].user # Null => user'[Caller[r]] = tx[r].user
      /\ \A u \in Users : tx[r].user = Null \/ u # Caller[r] => user'[u] = user[u]
  BY <1>1, <1>2, <1>3 DEF Typed
<1>7. /\ \A q \in Requests \ {r} : pay'[q] = pay[q]
      /\ pay'[r] = IF tx[r].pay = Null THEN pay[r] ELSE tx[r].pay
  BY <1>1, <1>3 DEF Typed
<1> QED BY <1>1, <1>2, <1>3, <1>4, <1>5, <1>6, <1>7

\* The committed order grows: in its version, and from a draft to a paid order.
LEMMA OrderGrows ==
    ASSUME Checkout, NEW r \in Requests, Ready(r)
    PROVE  LET o == tx[r].cart IN
           /\ order[o].status \in {"none", "Draft"} \/ Settled(r)
           /\ Settled(r) => order[o].status = "PartiallyPaid" \/ order[o].status = "Paid"
           /\ tx[r].order.version >= order[o].version
           /\ order[o].status # "none" /\ tx[r].order.version = order[o].version => Settled(r)
<1>1. tx[r].cart \in Requests /\ tx[r].order \in Orders /\ WritesDraft(r) /\ WritesPaid(r)
  BY DEF Checkout, Typed, Transaction, Ready, Working, Own, Stages
<1>2. order[tx[r].cart].version \in Nat /\ tx[r].order.version \in Nat
      /\ (order[tx[r].cart].status = "none" => order[tx[r].cart].version = 0)
  BY <1>1 DEF Checkout, Typed, Orders, Database, Fresh
<1> QED BY <1>1, <1>2 DEF Ready, WritesDraft, WritesPaid

\* A cart that is out of use stays out of it, or is recorded.
LEMMA GoneStays ==
    ASSUME Checkout, NEW r \in Requests, NEW p, NEW x, Ready(r), Applies(r, p, x),
           NEW c \in Requests \cup {Null}, Gone(c)
    PROVE  Gone(c)'
<1> USE AppliedFacts
<1>1. SUFFICES ASSUME c # Null, c \notin revived PROVE Gone(c)'
  BY DEF Gone
<1>2. CASE c # tx[r].cart
  BY <1>1, <1>2 DEF Gone
<1>3. CASE c = tx[r].cart
  <2>1. order'[c] = tx[r].order /\ tx[r].order.status \in {"Draft", "PartiallyPaid", "Paid"}
    BY <1>3 DEF Ready, Orders
  <2>2. CASE order[c].status \in {"PartiallyPaid", "Paid"}
    BY <1>3, <2>1, <2>2, OrderGrows DEF Ready, Gone
  <2>3. CASE order[c].status = "Draft" /\ Before(order[c].expires, now) /\ tx[r].order.status = "Draft"
    <3>1. ~Settled(r) /\ WritesDraft(r)
      BY <1>3, <2>3, OrderGrows DEF Checkout, Working, Own, Stages
    <3>2. CASE tx[r].order.expires = order[c].expires
      BY <2>1, <2>3, <3>2 DEF Gone
    <3>3. CASE tx[r].order.expires = Null
      BY <1>3, <2>3, <3>3 DEF Gone, Revives, Ready
    <3>4. order[c].expires # Null
      BY <2>3 DEF Before
    <3> QED BY <1>3, <2>3, <3>1, <3>2, <3>3, <3>4 DEF WritesDraft, Ready
  <2> QED BY <1>1, <2>1, <2>2, <2>3 DEF Gone
<1> QED BY <1>2, <1>3

\* A ticket of a cart in use is written by no request with another cart.
LEMMA Untouched ==
    ASSUME Checkout, NEW r \in Requests, NEW c \in Requests, c # tx[r].cart,
           NEW t \in DOMAIN tx[r].rows
    PROVE  /\ tx[r].rows[t].item # c
           /\ row[t].item = c => Before(row[t].until, now)
<1>1. WritesRow(r, t) /\ c # Null
  BY NullAssumption DEF Checkout, Working, Own, Takes
<1>2. tx[r].rows[t].item # c
  BY <1>1 DEF WritesRow
<1>3. SUFFICES ASSUME row[t].item = c PROVE Before(row[t].until, now)
  BY <1>2
<1>4. Before(row[t].until, tx[r].now)
  BY <1>1, <1>3 DEF WritesRow, RowOf
<1>5. t \in Tickets /\ tx[r].now \in Nat /\ now \in Nat /\ tx[r].now <= now
  <2>1. tx[r].rows \in Writes /\ tx[r].now \in 0..MaxTime
    BY DEF Checkout, Typed, Transaction
  <2>2. now \in 0..MaxTime /\ tx[r].now <= now
    BY DEF Checkout, Typed
  <2> QED BY <2>1, <2>2, WritesFacts
<1>6. row[t].until \in Times \cup {Null}
  BY <1>5 DEF Checkout, Typed, Rows
<1> QED BY <1>4, <1>5, <1>6 DEF Before, Times

\* Only a request that has a cart writes an order.
LEMMA WritersHaveCarts ==
    ASSUME Checkout, NEW q \in Requests, tx[q].order # Null
    PROVE  tx[q].cart # Null
<1>1. Shape(q)
  BY DEF Checkout, Working, Own
<1>2. pc[q] \in {"idle", "find", "create", "link", "lock", "body", "auth", "mark", "keep",
                 "commitAuth", "capture", "complete", "unlink", "tokens", "commit",
                 "ok", "refused", "fault"}
  BY DEF Checkout, Typed, Steps, Ended
<1>3. CASE pc[q] \in {"idle", "find", "create", "ok", "refused", "fault"}
  BY <1>1, <1>3 DEF Shape, AtStart, AtEnd, Nothing, Ended
<1>4. CASE pc[q] = "link"
  BY <1>1, <1>4, NullAssumption DEF Shape, AtLink, Made
<1>5. CASE pc[q] \in {"lock", "body", "auth"}
  BY <1>1, <1>5 DEF Shape, AtLock, AtBody, AtAuth, InOrder
<1>6. CASE pc[q] \in {"mark", "keep", "commitAuth", "capture"}
  BY <1>1, <1>6 DEF Shape, AtMark, AtCapture, InOrder
<1>7. CASE pc[q] \in {"complete", "unlink", "tokens", "commit"}
  BY <1>1, <1>7 DEF Shape, AtComplete, AtUnlink, AtTokens, AtCommit, InOrder, Finished, PaidUp, Unpaid
<1> QED BY <1>2, <1>3, <1>4, <1>5, <1>6, <1>7

\* The database's account of another request's order and user stays true.
LEMMA OthersStages ==
    ASSUME Checkout, NEW r \in Requests, NEW p, NEW x, Ready(r), Applies(r, p, x),
           NEW q \in Requests \ {r}
    PROVE  Stages(q)'
<1>1. /\ Frame(r) /\ pay'[q] = pay[q] /\ tx[r].cart \in Requests /\ order'[tx[r].cart] = tx[r].order
      /\ \A o \in Requests : o # tx[r].cart => order'[o] = order[o]
  BY AppliedFacts
<1>2. pc'[q] = pc[q] /\ tx'[q] = tx[q] /\ charge'[q] = charge[q]
  BY <1>1 DEF Frame
<1>3. Stages(q) /\ Apart(q, r) /\ tx[q].cart \in Requests \cup {Null}
  BY DEF Checkout, Working, Own, NoConflict, Typed, Transaction
<1>4. tx[r].order # Null /\ tx[r].order.status # "none"
  BY DEF Ready
<1>5. (Settled(q) <=> Settled(q)') /\ (Unborn(q) <=> Unborn(q)')
  BY <1>2 DEF Settled, Unborn
<1>6. OwnCart(q)'
  BY <1>2, <1>3 DEF Stages, OwnCart
<1>7. NotYet(q)'
  <2>1. Unborn(q) => tx[r].cart # q
    <3>1. order[q].status = "none" => tx[r].cart # q
      BY DEF Ready
    <3> QED BY <1>3, <3>1 DEF Stages, NotYet
  <2> QED BY <1>1, <1>3, <1>5, <2>1 DEF Stages, NotYet
<1>8. FoundDraft(q)'
  <2> SUFFICES ASSUME pc[q] = "lock", tx[q].order = Null
               PROVE  /\ order'[tx[q].cart].status # "none"
                      /\ order'[tx[q].cart].version >= tx[q].version
                      /\ order'[tx[q].cart].version = tx[q].version =>
                            order'[tx[q].cart].status = "Draft"
    BY <1>2 DEF FoundDraft
  <2>1. /\ order[tx[q].cart].status # "none"
        /\ order[tx[q].cart].version >= tx[q].version
        /\ order[tx[q].cart].version = tx[q].version => order[tx[q].cart].status = "Draft"
    BY <1>3 DEF Stages, FoundDraft
  <2>2. tx[q].cart \in Requests
    BY <1>3 DEF Checkout, Working, Own, Shape, AtLock
  <2>3. CASE tx[q].cart # tx[r].cart
    BY <1>1, <2>1, <2>2, <2>3
  <2>4. CASE tx[q].cart = tx[r].cart
    <3>1. order[tx[r].cart].version \in Nat /\ tx[r].order.version \in Nat /\ tx[q].version \in Nat
      <4>1. tx[r].order \in Orders /\ tx[q].version \in Nat /\ order[tx[r].cart] \in Orders
        BY <1>1, <1>4 DEF Checkout, Typed, Transaction
      <4> QED BY <4>1 DEF Orders
    <3> QED BY <1>1, <1>4, <2>1, <2>4, <3>1, OrderGrows
  <2> QED BY <2>3, <2>4
<1>9. WritesDraft(q)'
  <2>1. tx[q].order # Null => tx[q].cart \in Requests /\ tx[q].cart # tx[r].cart
    <3>1. tx[q].order # Null => tx[q].cart # Null
      BY WritersHaveCarts
    <3> QED BY <1>3, <1>4, <3>1 DEF Apart
  <2>2. tx[q].order # Null => order'[tx[q].cart] = order[tx[q].cart]
    BY <1>1, <2>1
  <2> QED BY <1>2, <1>3, <1>5, <2>2 DEF Stages, WritesDraft, Linked
<1>10. WritesPaid(q)'
  <2>1. Settled(q) => tx[q].cart \in Requests /\ tx[q].cart # tx[r].cart
    <3>1. Settled(q) => order[tx[q].cart].status \in {"PartiallyPaid", "Paid"} /\ tx[q].cart # Null
      BY <1>3 DEF Stages, WritesPaid
    <3> QED BY <1>3, <3>1, OrderGrows DEF Apart
  <2>2. Settled(q) => order'[tx[q].cart] = order[tx[q].cart]
    BY <1>1, <2>1
  <2> QED BY <1>1, <1>2, <1>3, <1>5, <2>2 DEF Stages, WritesPaid, InFull
<1> QED BY <1>6, <1>7, <1>8, <1>9, <1>10 DEF Stages

LEMMA OthersLinks ==
    ASSUME Checkout, NEW r \in Requests, NEW p, NEW x, Ready(r), Applies(r, p, x),
           NEW q \in Requests \ {r}
    PROVE  Links(q)'
<1>1. /\ tx[r].user # Null => user'[Caller[r]] = tx[r].user
      /\ \A u \in Users : tx[r].user = Null \/ u # Caller[r] => user'[u] = user[u]
  BY AppliedFacts
<1>2. pc'[q] = pc[q] /\ tx'[q] = tx[q]
  BY AppliedFacts DEF Frame
<1>3. Links(q) /\ Links(r) /\ Apart(q, r) /\ Caller[q] \in Users
  BY DEF Checkout, Working, Own, NoConflict, Users
<1>4. /\ user[Caller[q]] \in UserRows /\ tx[q].seen \in UserRows
      /\ (tx[r].user # Null => tx[r].user \in UserRows)
  BY <1>3 DEF Checkout, Typed, Transaction
<1>5. CASE user'[Caller[q]] = user[Caller[q]]
  <2>1. HasSeen(q)'
    BY <1>2, <1>3, <1>5 DEF Links, HasSeen, AsSeen
  <2>2. Replaces(q)'
    <3>1. PICK c \in Requests \cup {Null} : c = tx[q].seen.cart
      BY <1>4 DEF UserRows
    <3>2. Gone(c) => Gone(c)'
      BY GoneStays
    <3> QED BY <1>2, <1>3, <1>5, <3>1, <3>2 DEF Links, Replaces, AsSeen, Gone
  <2>3. WritesUser(q)'
    <3>1. PICK c \in Requests \cup {Null} : c = user[Caller[q]].cart
      BY <1>4 DEF UserRows
    <3>2. Gone(c) => Gone(c)'
      BY GoneStays
    <3>3. tx[q].user # Null =>
             /\ tx[q].user.stamp > user[Caller[q]].stamp
             /\ Linked(q) => Gone(c)
             /\ Unlinked(q) => user[Caller[q]].cart = tx[q].cart
      BY <1>3, <3>1 DEF Links, WritesUser
    <3>4. (Linked(q) <=> Linked(q)') /\ (Unlinked(q) <=> Unlinked(q)')
      BY <1>2 DEF Linked, Unlinked
    <3>5. Gone(c)' => Gone(user[Caller[q]].cart)'
      BY <1>5, <3>1 DEF Gone
    <3> QED BY <1>2, <1>5, <3>2, <3>3, <3>4, <3>5 DEF WritesUser
  <2> QED BY <2>1, <2>2, <2>3 DEF Links
<1>6. CASE user'[Caller[q]] # user[Caller[q]]
  <2>1. tx[r].user # Null /\ Caller[q] = Caller[r] /\ user'[Caller[q]] = tx[r].user
    BY <1>1, <1>3, <1>6
  <2>2. tx[q].user = Null
    BY <1>3, <2>1 DEF Apart
  <2>3. user'[Caller[q]].stamp > user[Caller[q]].stamp
    BY <1>3, <2>1 DEF Links, WritesUser
  <2>4. /\ user'[Caller[q]].stamp \in Nat /\ user[Caller[q]].stamp \in Nat
        /\ tx[q].seen.stamp \in Nat
    BY <1>4, <2>1 DEF UserRows
  <2>5. pc[q] \in {"find", "create", "link"} => user'[Caller[q]].stamp > tx[q].seen.stamp
    BY <1>3, <2>3, <2>4 DEF Links, HasSeen
  <2>6. pc[q] \in {"find", "create", "link"} => ~(user'[Caller[q]] = tx[q].seen)
    BY <2>4, <2>5
  <2> QED BY <1>2, <2>2, <2>4, <2>5, <2>6 DEF Links, HasSeen, Replaces, WritesUser, AsSeen
<1> QED BY <1>5, <1>6

LEMMA OthersTake ==
    ASSUME Checkout, NEW r \in Requests, NEW p, NEW x, Ready(r), Applies(r, p, x),
           NEW q \in Requests \ {r}
    PROVE  Takes(q)'
<1>1. Frame(r) /\ now' = now /\ \A t \in Tickets : row'[t] = Seen(r, t)
  BY AppliedFacts
<1>2. tx'[q] = tx[q] /\ pc'[q] = pc[q]
  BY <1>1 DEF Frame
<1>3. Takes(q) /\ Apart(q, r)
  BY DEF Checkout, Working, Own, NoConflict
<1>4. SUFFICES ASSUME NEW t \in DOMAIN tx[q].rows PROVE WritesRow(q, t)'
  BY <1>2 DEF Takes
<1>5. t \in Tickets /\ t \notin DOMAIN tx[r].rows
  BY <1>3, WritesFacts DEF Apart, Checkout, Typed, Transaction
<1>6. row'[t] = row[t]
  BY <1>1, <1>5 DEF Seen
<1> QED BY <1>2, <1>3, <1>6 DEF Takes, WritesRow, RowOf

LEMMA OthersAreWhole ==
    ASSUME Checkout, NEW r \in Requests, NEW p, NEW x, Ready(r), Applies(r, p, x),
           NEW q \in Requests \ {r}
    PROVE  WholeFor(q)'
<1>1. Frame(r) /\ now' = now /\ \A t \in Tickets : row'[t] = Seen(r, t)
  BY AppliedFacts
<1>2. tx'[q] = tx[q]
  BY <1>1 DEF Frame
<1>3. SUFFICES ASSUME tx[q].order # Null, InUse(tx[q].order)
               PROVE  /\ Cardinality(HeldBy(q)') = tx[q].order.quantity
                      /\ \A t \in HeldBy(q)' : Seen(q, t)'.until = tx[q].order.expires
  BY <1>1, <1>2 DEF WholeFor, InUse
<1>4. /\ Cardinality(HeldBy(q)) = tx[q].order.quantity
      /\ \A t \in HeldBy(q) : Seen(q, t).until = tx[q].order.expires
  BY <1>3 DEF Checkout, Working, Own, WholeFor
<1>5. tx[q].cart \in Requests /\ tx[q].cart # tx[r].cart
  BY <1>3, WritersHaveCarts DEF Checkout, Typed, Transaction, NoConflict, Apart, Ready
<1>6. \A t \in Tickets :
         /\ Seen(q, t)'.item = tx[q].cart <=> Seen(q, t).item = tx[q].cart
         /\ Seen(q, t).item = tx[q].cart => Seen(q, t)' = Seen(q, t)
  <2> TAKE t \in Tickets
  <2>1. CASE t \in DOMAIN tx[q].rows
    BY <1>2, <2>1 DEF Seen
  <2>2. CASE t \notin DOMAIN tx[q].rows /\ t \notin DOMAIN tx[r].rows
    BY <1>1, <1>2, <2>2 DEF Seen
  <2>3. CASE t \notin DOMAIN tx[q].rows /\ t \in DOMAIN tx[r].rows
    <3>1. Seen(q, t)' = tx[r].rows[t] /\ Seen(q, t) = row[t]
      BY <1>1, <1>2, <2>3 DEF Seen
    <3>2. tx[r].rows[t].item # tx[q].cart
          /\ (row[t].item = tx[q].cart => Before(row[t].until, now))
      BY <1>5, <2>3, Untouched
    <3>3. row[t].item # tx[q].cart
      <4> SUFFICES ASSUME row[t].item = tx[q].cart PROVE FALSE
        OBVIOUS
      <4>1. t \in HeldBy(q)
        BY <3>1 DEF HeldBy
      <4>2. row[t].until = tx[q].order.expires
        BY <1>4, <3>1, <4>1
      <4> QED BY <1>3, <3>2, <4>2 DEF InUse
    <3> QED BY <3>1, <3>2, <3>3
  <2> QED BY <2>1, <2>2, <2>3
<1>7. HeldBy(q)' = HeldBy(q)
  BY <1>2, <1>6 DEF HeldBy
<1> QED BY <1>4, <1>6, <1>7 DEF HeldBy

LEMMA OthersKeep ==
    ASSUME Checkout, NEW r \in Requests, NEW p, NEW x, Ready(r), Applies(r, p, x),
           NEW q \in Requests \ {r}
    PROVE  Own(q)'
<1>1. pc'[q] = pc[q] /\ tx'[q] = tx[q] /\ charge'[q] = charge[q] /\ pay'[q] = pay[q] /\ Own(q)
  BY AppliedFacts DEF Frame, Checkout, Working
<1>2. Shape(q)'
  BY <1>1 DEF Own, Shape, AtStart, AtLink, AtLock, AtBody, AtAuth, AtMark, AtCapture, AtComplete,
              AtUnlink, AtTokens, AtCommit, AtEnd, Nothing, Made, Linked, Unlinked, Charged, InOrder,
              Promised, MoneyIn, Second, Unpaid, PaidUp, Finished, Covered, InFull
<1>3. tx'[q].order # Null => Empty(tx'[q].order)
  BY <1>1 DEF Own
<1> QED BY <1>1, <1>2, <1>3, OthersStages, OthersLinks, OthersTake, OthersAreWhole DEF Own, Empty

\* The carts of the database stay whole.
LEMMA CommitKeepsWhole ==
    ASSUME Checkout, NEW r \in Requests, NEW p, NEW x, Ready(r), Applies(r, p, x),
           NEW o \in Requests
    PROVE  Fresh(o)' /\ Whole(o)'
<1>1. /\ now' = now /\ tx[r].cart \in Requests /\ order'[tx[r].cart] = tx[r].order
      /\ \A c \in Requests : c # tx[r].cart => order'[c] = order[c]
      /\ \A t \in Tickets : row'[t] = Seen(r, t)
  BY AppliedFacts
<1>2. Fresh(o) /\ Whole(o) /\ WholeFor(r) /\ tx[r].order # Null /\ tx[r].order.status # "none"
      /\ Empty(tx[r].order)
  BY DEF Checkout, Database, Working, Own, Ready
<1>3. CASE o = tx[r].cart
  <2>1. Fresh(o)'
    BY <1>1, <1>2, <1>3 DEF Fresh, Empty
  <2>2. Held(o)' = HeldBy(r)
    BY <1>1, <1>3 DEF Held, HeldBy
  <2>3. Whole(o)'
    BY <1>1, <1>2, <1>3, <2>2 DEF Whole, WholeFor, InUse, HeldBy
  <2> QED BY <2>1, <2>3
<1>4. CASE o # tx[r].cart
  <2>1. Fresh(o)'
    BY <1>1, <1>2, <1>4 DEF Fresh, Empty
  <2>2. SUFFICES ASSUME InUse(order[o])
                 PROVE  /\ Cardinality(Held(o)') = order[o].quantity
                        /\ \A t \in Held(o)' : row'[t].until = order[o].expires
    BY <1>1, <1>4, <2>1 DEF Whole, InUse
  <2>3. /\ Cardinality(Held(o)) = order[o].quantity
        /\ \A t \in Held(o) : row[t].until = order[o].expires
    BY <1>2, <2>2 DEF Whole
  <2>4. \A t \in Tickets :
           /\ row'[t].item = o <=> row[t].item = o
           /\ row[t].item = o => row'[t] = row[t]
    <3> TAKE t \in Tickets
    <3>1. CASE t \notin DOMAIN tx[r].rows
      BY <1>1, <3>1 DEF Seen
    <3>2. CASE t \in DOMAIN tx[r].rows
      <4>1. tx[r].rows[t].item # o /\ (row[t].item = o => Before(row[t].until, now))
        BY <1>4, <3>2, Untouched
      <4>2. row'[t] = tx[r].rows[t]
        BY <1>1, <3>2 DEF Seen
      <4>3. row[t].item # o
        BY <2>2, <2>3, <4>1 DEF Held, InUse
      <4> QED BY <4>1, <4>2, <4>3
    <3> QED BY <3>1, <3>2
  <2>5. Held(o)' = Held(o)
    BY <2>4 DEF Held
  <2> QED BY <2>3, <2>4, <2>5 DEF Held
<1> QED BY <1>3, <1>4

\* A cart its user's row no longer names is out of use.
LEMMA CommitSupersedes ==
    ASSUME Checkout, NEW r \in Requests, NEW p, NEW x, Ready(r), Applies(r, p, x),
           NEW o \in Requests
    PROVE  Superseded(o)'
<1>1. /\ now' = now /\ tx[r].cart \in Requests /\ order'[tx[r].cart] = tx[r].order
      /\ \A c \in Requests : c # tx[r].cart => order'[c] = order[c]
      /\ tx[r].user # Null => user'[Caller[r]] = tx[r].user
      /\ \A u \in Users : tx[r].user = Null \/ u # Caller[r] => user'[u] = user[u]
      /\ revived \subseteq revived' /\ (Revives(r) => tx[r].cart \in revived')
  BY AppliedFacts
<1>2. SUFFICES ASSUME o \notin revived', order'[o].status = "Draft", user'[Caller[o]].cart # o
               PROVE  Before(order'[o].expires, now)
  BY <1>1 DEF Superseded
<1>3. Superseded(o) /\ WritesDraft(r) /\ WritesUser(r) /\ OwnCart(r) /\ o \notin revived /\ o # Null
      /\ Caller[o] \in Users
  BY <1>1, <1>2, NullAssumption DEF Checkout, Database, Working, Own, Stages, Links, Users
<1>4. CASE o = tx[r].cart
  <2>1. Caller[o] = Caller[r] /\ tx[r].order.status = "Draft" /\ ~Settled(r)
    BY <1>1, <1>2, <1>3, <1>4 DEF OwnCart, Ready
  <2>2. ~Linked(r)
    BY <1>1, <1>2, <1>4, <2>1 DEF Linked
  <2>3. tx[r].user = Null
    BY <2>1, <2>2 DEF Ready
  <2>4. order[o].status = "Draft"
    BY <1>3, <1>4, <2>1, <2>2 DEF WritesDraft, Ready
  <2>5. Before(order[o].expires, now)
    BY <1>1, <1>2, <1>3, <2>3, <2>4 DEF Superseded
  <2>6. tx[r].order.expires # Null
    BY <1>1, <1>2, <1>4, <2>5 DEF Revives, Ready
  <2>7. tx[r].order.expires = order[o].expires
    BY <1>3, <1>4, <2>1, <2>5, <2>6 DEF WritesDraft, Ready, Before
  <2> QED BY <1>1, <1>4, <2>5, <2>7
<1>5. CASE o # tx[r].cart
  <2>1. order'[o] = order[o] /\ order[o].status = "Draft"
    BY <1>1, <1>2, <1>5
  <2>2. CASE user[Caller[o]].cart # o
    BY <1>3, <2>1, <2>2 DEF Superseded
  <2>3. CASE user[Caller[o]].cart = o
    <3>1. tx[r].user # Null /\ Caller[o] = Caller[r]
      BY <1>1, <1>2, <1>3, <2>3
    <3>2. Linked(r) \/ Unlinked(r)
      BY <3>1 DEF Ready
    <3>3. ~Unlinked(r)
      BY <1>3, <1>5, <2>3, <3>1 DEF WritesUser
    <3>4. Gone(o)
      BY <1>3, <2>3, <3>1, <3>2, <3>3 DEF WritesUser
    <3> QED BY <1>3, <2>1, <3>4 DEF Gone
  <2> QED BY <2>2, <2>3
<1> QED BY <1>4, <1>5

\* A payment that may make its order a paid one.
Backed(r) ==
    /\ tx[r].pay \in {"Authorized", "Completed"}
    /\ tx[r].cart \in FreeOrders \/ (tx[r].pay = "Completed" /\ InFull(r) /\ Charged(r, "captured"))

\* What is left to show for a step that commits.
LEMMA CommitStays ==
    ASSUME Checkout, NEW r \in Requests, NEW p \in Steps \cup Ended, NEW x \in Transaction,
           Ready(r), Applies(r, p, x), pc[r] # "ok",
           x.now <= now, x.cart = tx[r].cart, x.kind = tx[r].kind,
           x.order = Null, x.user = Null, x.rows = NoRows, x.pay = Null,
           tx[r].order.status = "Paid" => Backed(r),
           tx[r].pay = "Completed" => p = "ok",
           Shape(r)', WritesPaid(r)', p \notin {"idle", "find", "create", "link", "lock"},
           Settled(r)' => \A q \in Requests \ {r} : Settled(q) => tx[q].cart # tx[r].cart
    PROVE  Checkout'
<1>1. /\ Frame(r) /\ pc'[r] = p /\ tx'[r] = x /\ charge'[r] = charge[r] /\ now' = now
      /\ tx[r].cart \in Requests
      /\ order'[tx[r].cart] = tx[r].order
      /\ \A o \in Requests : o # tx[r].cart => order'[o] = order[o]
      /\ tx[r].user # Null => user'[Caller[r]] = tx[r].user
      /\ \A u \in Users : tx[r].user = Null \/ u # Caller[r] => user'[u] = user[u]
      /\ \A t \in Tickets : row'[t] = Seen(r, t)
      /\ \A q \in Requests \ {r} : pay'[q] = pay[q]
      /\ pay'[r] = IF tx[r].pay = Null THEN pay[r] ELSE tx[r].pay
  BY AppliedFacts
<1>2. Typed /\ Own(r) /\ Database /\ tx[r].order.status # "none" /\ tx[r].cart # Null
  BY DEF Checkout, Working, Ready
<1>3. Typed'
  BY <1>2, TypedApplies
<1>4. Working'
  <2>1. Own(r)'
    <3>1. Stages(r)'
      BY <1>1, <1>2 DEF Own, Stages, OwnCart, NotYet, FoundDraft, WritesDraft, Unborn
    <3>2. Links(r)'
      BY <1>1 DEF Links, HasSeen, Replaces, WritesUser
    <3>3. Takes(r)' /\ WholeFor(r)' /\ tx'[r].order = Null
      BY <1>1, NoRowsFacts DEF Takes, WholeFor
    <3> QED BY <3>1, <3>2, <3>3 DEF Own
  <2>2. \A q \in Requests \ {r} : Own(q)'
    BY OthersKeep
  <2> QED BY <2>1, <2>2 DEF Working
<1>5. NoConflict'
  <2>1. \A q, s \in Requests \ {r} : q # s => Apart(q, s)'
    BY <1>1, OthersApart DEF Checkout, NoConflict
  <2>2. \A q \in Requests \ {r} : Apart(r, q)'
    <3> TAKE q \in Requests \ {r}
    <3>1. (Settled(q)' => Settled(q)) /\ tx'[q] = tx[q]
      BY <1>1 DEF Frame, Settled
    <3> QED BY <1>1, <3>1, NoRowsFacts DEF Apart
  <2>3. \A q \in Requests \ {r} : Apart(q, r)'
    BY <2>2, ApartIsSymmetricNext
  <2> QED BY <2>1, <2>2, <2>3 DEF NoConflict
<1>6. \A o \in Requests : Fresh(o)' /\ Whole(o)' /\ Superseded(o)'
  BY CommitKeepsWhole, CommitSupersedes
<1>7. \A o \in Requests : PaysLast(o)'
  BY <1>1, <1>2 DEF Database, PaysLast, Frame
<1>8. \A o \in Requests : PaidFor(o)'
  <2> SUFFICES ASSUME NEW o \in Requests, order'[o].status = "Paid"
               PROVE  \E q \in Requests : Payer(q, o)'
    BY DEF PaidFor
  <2>1. CASE o = tx[r].cart
    <3>1. Backed(r) /\ "Completed" # Null /\ "Authorized" # Null
      BY <1>1, <2>1, NullAssumption DEF Payments
    <3>2. Payer(r, o)'
      BY <1>1, <2>1, <3>1 DEF Backed, Payer, InMoney, InFull, Charged
    <3> QED BY <3>2
  <2>2. CASE o # tx[r].cart
    <3>1. PICK q \in Requests : Payer(q, o)
      BY <1>1, <1>2, <2>2 DEF Database, PaidFor
    <3>2. q # r
      BY <2>2, <3>1 DEF Payer
    <3>3. Payer(q, o)'
      BY <1>1, <3>1, <3>2 DEF Payer, InMoney, InFull, Frame
    <3> QED BY <3>3
  <2> QED BY <2>1, <2>2
<1>9. \A u \in Users : UserCart(u)'
  <2> TAKE u \in Users
  <2>1. user[u] \in UserRows /\ UserCart(u) /\ OwnCart(r)
    BY <1>2 DEF Typed, Database, Own, Stages
  <2>2. CASE user'[u] = user[u]
    <3>1. user[u].cart \in Requests \cup {Null}
      BY <2>1 DEF UserRows
    <3> QED BY <1>1, <1>2, <2>1, <2>2, <3>1 DEF UserCart
  <2>3. CASE user'[u] # user[u]
    <3>1. tx[r].user # Null /\ u = Caller[r] /\ user'[u] = tx[r].user
      BY <1>1, <2>3
    <3>2. Linked(r) \/ Unlinked(r)
      BY <3>1 DEF Ready
    <3> QED BY <1>1, <1>2, <3>1, <3>2 DEF UserCart, Linked, Unlinked
  <2> QED BY <2>2, <2>3
<1>10. \A t \in Tickets : Bound(t)'
  <2> TAKE t \in Tickets
  <2>1. CASE t \in DOMAIN tx[r].rows
    <3>1. WritesRow(r, t) /\ row'[t] = tx[r].rows[t] /\ Caller[tx[r].cart] = Caller[r]
      BY <1>1, <1>2, <2>1 DEF Own, Takes, Seen, Stages, OwnCart
    <3> QED BY <1>2, <3>1 DEF Bound, WritesRow
  <2>2. CASE t \notin DOMAIN tx[r].rows
    BY <1>1, <1>2, <2>2 DEF Bound, Database, Seen
  <2> QED BY <2>1, <2>2
<1>11. Database'
  BY <1>6, <1>7, <1>8, <1>9, <1>10 DEF Database
<1> QED BY <1>3, <1>4, <1>5, <1>11 DEF Checkout

\* A cart that is given up with nothing published leaves everything as it was.
LEMMA UnpublishedStays ==
    ASSUME Checkout, NEW r \in Requests, Unpublished(r)
    PROVE  Checkout'
<1>1. pc[r] = "lock" /\ Typed /\ tx[r].kind = "update"
  BY DEF Unpublished, Checkout
<1>2. PICK x : x = Emptied(tx[r])
  OBVIOUS
<1>3. Applies(r, "refused", x)
  BY <1>1, <1>2, UnpublishedMoves
<1>4. /\ tx[r].cart # Null /\ tx[r].rows = NoRows /\ tx[r].pay = Null /\ charge[r] = "none"
      /\ \/ tx[r].order = Null /\ tx[r].user = Null
         \/ Made(r) /\ Linked(r)
  BY <1>1 DEF Checkout, Working, Own, Shape, AtLock
<1>5. CASE tx[r].order = Null /\ tx[r].user = Null
  <2>1. \A t \in Tickets : Seen(r, t) = row[t]
    BY <1>4, NoRowsFacts DEF Seen
  <2>2. row' = [t \in Tickets |-> row[t]]
    BY <1>3, <2>1 DEF Applies, Apply
  <2>3. row' = row
    BY <1>1, <2>2 DEF Typed
  <2>4. Same
    BY <1>3, <1>4, <1>5, <2>3 DEF Applies, Apply, Same, Revives
  <2>5. Stops(r, "refused", charge[r])
    BY <1>2, <1>3, <2>4 DEF Applies, Stops, Stays
  <2> QED BY <1>1, <1>4, <2>5, RefusedStays
<1>6. CASE tx[r].order # Null
  <2>1. Ready(r)
    BY <1>1, <1>6, ReadyFacts
  <2>2. /\ x \in Transaction /\ x.kind = tx[r].kind /\ x.now = tx[r].now /\ x.cart = tx[r].cart
        /\ x.order = Null /\ x.user = Null /\ x.rows = NoRows /\ x.pay = Null
    BY <1>1, <1>2, EmptiedFacts DEF Typed
  <2>3. pc'[r] = "refused" /\ tx'[r] = x /\ charge'[r] = charge[r]
    BY <1>3, <2>1, AppliedFacts
  <2>4. Shape(r)'
    BY <1>4, <2>2, <2>3 DEF Shape, AtStart, AtLink, AtLock, AtBody, AtAuth, AtMark,
          AtCapture, AtComplete, AtUnlink, AtTokens, AtCommit, AtEnd, Nothing
  <2>5. ~Settled(r)' /\ WritesPaid(r)'
    BY <1>1, <2>2, <2>3 DEF Settled, WritesPaid
  <2>6. tx[r].order.status = "Draft" /\ tx[r].pay # "Completed"
    BY <1>4, <1>6, NullAssumption DEF Made, NewCart, Payments
  <2>7. x.now <= now /\ "refused" \in Steps \cup Ended
    BY <1>1, <2>2 DEF Typed, Ended
  <2> QED BY <1>1, <1>3, <2>1, <2>2, <2>3, <2>4, <2>5, <2>6, <2>7, CommitStays
<1> QED BY <1>4, <1>5, <1>6, NullAssumption, NewCartFacts DEF Made

LEMMA CommitAuthorizationStays ==
    ASSUME Checkout, NEW r \in Requests, CommitAuthorization(r)
    PROVE  Checkout'
<1>1. pc[r] = "commitAuth" /\ Typed
  BY DEF CommitAuthorization, Checkout
<1>2. PICK x : x = Authorized(r)
  OBVIOUS
<1>3. x \in Transaction /\ Applies(r, "capture", x)
  BY <1>1, <1>2, CommitAuthorizationMoves
<1>4. /\ tx[r].kind = "card" /\ charge[r] = "authorized" /\ tx[r].pay = "Authorized"
      /\ tx[r].order.status \in {"PartiallyPaid", "Paid"} /\ tx[r].cart # Null /\ tx[r].order # Null
      /\ tx[r].order.status = "Paid" => Backed(r)
  <2>1. /\ tx[r].kind = "card" /\ charge[r] = "authorized" /\ tx[r].pay = "Authorized"
        /\ PaidUp(r) \/ Unpaid(r)
    BY <1>1 DEF Checkout, Working, Own, Shape, AtCapture
  <2>2. ~Second(r)
    BY <2>1 DEF Second
  <2>3. CASE PaidUp(r)
    BY <2>1, <2>3 DEF PaidUp, InOrder, Covered, Backed
  <2>4. CASE Unpaid(r)
    BY <2>1, <2>2, <2>4 DEF Unpaid, InOrder
  <2> QED BY <2>1, <2>3, <2>4
<1>5. Ready(r) /\ ~Settled(r)
  BY <1>1, <1>4, ReadyFacts DEF Settled
<1>6. /\ x.kind = tx[r].kind /\ x.now = now /\ x.cart = tx[r].cart
      /\ x.order = Null /\ x.user = Null /\ x.rows = NoRows /\ x.pay = Null
  BY <1>1, <1>2, EmptiedFacts DEF Typed, Authorized, Transaction
<1>7. /\ pc'[r] = "capture" /\ tx'[r] = x /\ charge'[r] = charge[r]
      /\ order'[tx[r].cart] = tx[r].order
  BY <1>3, <1>5, AppliedFacts
<1>8. Shape(r)'
  BY <1>4, <1>6, <1>7 DEF Shape, AtStart, AtLink, AtLock, AtBody, AtAuth, AtMark,
        AtCapture, AtComplete, AtUnlink, AtTokens, AtCommit, AtEnd, Nothing, Ended
<1>9. WritesPaid(r)'
  BY <1>4, <1>6, <1>7 DEF WritesPaid
<1>10. \A q \in Requests \ {r} : Settled(q) => tx[q].cart # tx[r].cart
  <2> TAKE q \in Requests \ {r}
  <2>1. WritesPaid(q)
    BY DEF Checkout, Working, Own, Stages
  <2> QED BY <1>5, <2>1, OrderGrows DEF WritesPaid
<1>11. x.now <= now /\ "capture" \in Steps \cup Ended
  BY <1>1, <1>6 DEF Typed, Steps
<1> QED BY <1>1, <1>3, <1>4, <1>5, <1>6, <1>7, <1>8, <1>9, <1>10, <1>11, CommitStays

\* The second transaction of a card that has not paid for the whole order writes its
\* payment and nothing else.
LEMMA PaymentStays ==
    ASSUME Checkout, NEW r \in Requests, pc[r] = "commit", tx[r].order = Null, Commit(r)
    PROVE  Checkout'
<1>1. Typed
  BY DEF Checkout
<1>2. PICK x : x = Emptied(tx[r])
  OBVIOUS
<1>3. Applies(r, "ok", x)
  BY <1>1, <1>2, CommitMoves
<1>4. /\ tx[r].kind = "card" /\ tx[r].cart # Null /\ tx[r].user = Null /\ tx[r].rows = NoRows
      /\ tx[r].pay = "Completed" /\ charge[r] = "captured" /\ ~InFull(r)
  <2>1. AtCommit(r)
    BY DEF Checkout, Working, Own, Shape
  <2>2. tx[r].kind # "update" /\ Finished(r)
    BY <2>1 DEF AtCommit, InOrder
  <2>3. MoneyIn(r) /\ Unpaid(r) /\ ~Covered(r)
    BY <2>2 DEF Finished, PaidUp, InOrder
  <2>4. Second(r)
    BY <2>3 DEF Unpaid, InOrder
  <2> QED BY <2>3, <2>4 DEF MoneyIn, Unpaid, Second, Covered, Charged
<1>5. /\ x \in Transaction /\ x.kind = tx[r].kind /\ x.now = tx[r].now /\ x.cart = tx[r].cart
      /\ x.order = Null /\ x.user = Null /\ x.rows = NoRows /\ x.pay = Null
  BY <1>1, <1>2, EmptiedFacts DEF Typed
<1>6. Frame(r) /\ pc'[r] = "ok" /\ tx'[r] = x /\ charge'[r] = charge[r]
  BY <1>1, <1>3, MovedFacts DEF Applies
<1>7. UNCHANGED <<now, order, user, row, revived>>
  <2>1. \A t \in Tickets : Seen(r, t) = row[t]
    BY <1>4, SeesCommitted
  <2>2. row' = [t \in Tickets |-> row[t]]
    BY <1>3, <2>1 DEF Applies, Apply
  <2>3. row' = row
    BY <1>1, <2>2 DEF Typed
  <2> QED BY <1>3, <1>4, <2>3 DEF Applies, Apply, Revives
<1>8. (\A q \in Requests \ {r} : pay'[q] = pay[q]) /\ pay'[r] = "Completed"
  <2>1. "Completed" # Null
    BY NullAssumption DEF Payments
  <2>2. pay' = [pay EXCEPT ![r] = "Completed"]
    BY <1>3, <1>4, <2>1 DEF Applies, Apply
  <2> QED BY <1>1, <2>2 DEF Typed
<1>9. Typed'
  <2>1. x.now <= now /\ "ok" \in Steps \cup Ended
    BY <1>1, <1>5 DEF Typed, Ended
  <2> QED BY <1>1, <1>3, <1>5, <2>1, TypedApplies
<1>10. Settled(r) /\ Settled(r)' /\ Stages(r)
  BY <1>4, <1>5, <1>6 DEF Settled, Checkout, Working, Own
<1>11. Own(r)'
  <2>1. Shape(r)'
    BY <1>4, <1>5, <1>6 DEF Shape, AtStart, AtLink, AtLock, AtBody, AtAuth, AtMark,
          AtCapture, AtComplete, AtUnlink, AtTokens, AtCommit, AtEnd, Nothing, Ended, Charged
  <2>2. Stages(r)'
    <3>1. OwnCart(r)' /\ NotYet(r)' /\ FoundDraft(r)' /\ WritesDraft(r)'
      BY <1>5, <1>6, <1>7, <1>10 DEF Stages, OwnCart, NotYet, Unborn, FoundDraft, WritesDraft
    <3>2. WritesPaid(r)'
      BY <1>4, <1>5, <1>6, <1>7, <1>8, <1>10 DEF Stages, WritesPaid, InFull
    <3> QED BY <3>1, <3>2 DEF Stages
  <2>3. Links(r)'
    BY <1>5, <1>6 DEF Links, HasSeen, Replaces, WritesUser
  <2>4. Takes(r)' /\ WholeFor(r)' /\ tx'[r].order = Null
    BY <1>5, <1>6, NoRowsFacts DEF Takes, WholeFor
  <2> QED BY <2>1, <2>2, <2>3, <2>4 DEF Own
<1>12. Working'
  <2>1. \A q \in Requests \ {r} : Own(q)'
    BY <1>6, <1>7, <1>8, OthersStay DEF Checkout, Working
  <2> QED BY <1>11, <2>1 DEF Working
<1>13. NoConflict'
  <2>1. \A q, s \in Requests \ {r} : q # s => Apart(q, s)'
    BY <1>6, OthersApart DEF Checkout, NoConflict
  <2>2. \A q \in Requests \ {r} : Apart(r, q)'
    BY <1>5, <1>6, <1>10, ApartKept, NoRowsFacts DEF Checkout, NoConflict
  <2>3. \A q \in Requests \ {r} : Apart(q, r)'
    BY <2>2, ApartIsSymmetricNext
  <2> QED BY <2>1, <2>2, <2>3 DEF NoConflict
<1>14. Database'
  <2>1. \A o \in Requests : PaysLast(o)'
    BY <1>6, <1>8 DEF Checkout, Database, PaysLast, Frame
  <2>2. \A o \in Requests : PaidFor(o)'
    <3> SUFFICES ASSUME NEW o \in Requests, order[o].status = "Paid"
                 PROVE  \E q \in Requests : Payer(q, o)'
      BY <1>7 DEF PaidFor
    <3>1. PICK q \in Requests : Payer(q, o)
      BY DEF Checkout, Database, PaidFor
    <3>2. CASE q # r
      BY <1>6, <1>8, <3>1, <3>2 DEF Payer, InMoney, InFull, Frame
    <3>3. CASE q = r
      BY <1>4, <1>5, <1>6, <1>8, <3>1, <3>3 DEF Payer, InMoney
    <3> QED BY <3>2, <3>3
  <2>3. \A o \in Requests : Fresh(o)' /\ Whole(o)' /\ Superseded(o)'
    BY <1>7 DEF Checkout, Database, Fresh, Whole, Superseded, Empty, InUse, Held
  <2>4. (\A u \in Users : UserCart(u)') /\ (\A t \in Tickets : Bound(t)')
    BY <1>7 DEF Checkout, Database, UserCart, Bound
  <2> QED BY <2>1, <2>2, <2>3, <2>4 DEF Database
<1> QED BY <1>9, <1>12, <1>13, <1>14 DEF Checkout

LEMMA CommitActionStays ==
    ASSUME Checkout, NEW r \in Requests, Commit(r)
    PROVE  Checkout'
<1>1. pc[r] = "commit" /\ Typed
  BY DEF Commit, Checkout
<1>0. CASE tx[r].order = Null
  BY <1>0, <1>1, PaymentStays
<1>a. SUFFICES ASSUME tx[r].order # Null PROVE Checkout'
  BY <1>0
<1>2. PICK x : x = Emptied(tx[r])
  OBVIOUS
<1>3. Applies(r, "ok", x)
  BY <1>1, <1>2, CommitMoves
<1>4. /\ Charged(r, "captured") /\ tx[r].cart # Null
      /\ tx[r].kind = "update" => tx[r].order.status = "Draft"
      /\ tx[r].kind # "update" =>
            /\ tx[r].pay = "Completed" /\ tx[r].order.status \in {"PartiallyPaid", "Paid"}
            /\ InFull(r) <=> tx[r].order.status = "Paid"
  <2>1. AtCommit(r)
    BY DEF Checkout, Working, Own, Shape
  <2>2. CASE tx[r].kind = "update"
    BY <1>1, <2>1, <2>2 DEF AtCommit, InOrder, Charged
  <2>3. CASE tx[r].kind # "update"
    <3>1. MoneyIn(r) /\ (PaidUp(r) \/ (Unpaid(r) /\ ~Covered(r)))
      BY <1>1, <2>1, <2>3 DEF AtCommit, Finished
    <3>2. Covered(r) <=> InFull(r)
      BY <3>1 DEF MoneyIn, Covered
    <3>3. CASE PaidUp(r)
      BY <2>3, <3>1, <3>2, <3>3 DEF MoneyIn, PaidUp, InOrder
    <3>4. CASE Unpaid(r) /\ ~Covered(r)
      BY <1>a, <2>3, <3>1, <3>2, <3>4 DEF MoneyIn, Unpaid, InOrder
    <3> QED BY <3>1, <3>3, <3>4
  <2> QED BY <2>2, <2>3
<1>5. Ready(r)
  BY <1>1, <1>a, ReadyFacts
<1>6. /\ x \in Transaction /\ x.kind = tx[r].kind /\ x.now = tx[r].now /\ x.cart = tx[r].cart
      /\ x.order = Null /\ x.user = Null /\ x.rows = NoRows /\ x.pay = Null
  BY <1>1, <1>2, EmptiedFacts DEF Typed
<1>7. /\ pc'[r] = "ok" /\ tx'[r] = x /\ charge'[r] = charge[r]
      /\ order'[tx[r].cart] = tx[r].order
      /\ pay'[r] = IF tx[r].pay = Null THEN pay[r] ELSE tx[r].pay
  BY <1>3, <1>5, AppliedFacts
<1>8. Shape(r)'
  BY <1>4, <1>6, <1>7 DEF Shape, AtStart, AtLink, AtLock, AtBody, AtAuth, AtMark,
        AtCapture, AtComplete, AtUnlink, AtTokens, AtCommit, AtEnd, Nothing, Ended, Charged
<1>9. WritesPaid(r)'
  <2>1. "Completed" # Null
    BY NullAssumption DEF Payments
  <2> QED BY <1>4, <1>6, <1>7, <2>1 DEF WritesPaid, Settled, InFull
<1>10. Settled(r)' => \A q \in Requests \ {r} : Settled(q) => tx[q].cart # tx[r].cart
  <2> SUFFICES ASSUME NEW q \in Requests \ {r}, Settled(q)
               PROVE  tx[q].cart # tx[r].cart
    OBVIOUS
  <2>1. Apart(q, r) /\ WritesPaid(q)
    BY DEF Checkout, NoConflict, Working, Own, Stages
  <2>2. CASE Settled(r)
    BY <2>1, <2>2 DEF Apart
  <2>3. CASE ~Settled(r)
    BY <1>5, <2>1, <2>3, OrderGrows DEF WritesPaid
  <2> QED BY <2>2, <2>3
<1>11. x.now <= now /\ "ok" \in Steps \cup Ended
  BY <1>1, <1>6 DEF Typed, Ended
<1>12. tx[r].order.status = "Paid" => Backed(r)
  BY <1>4 DEF Backed
<1> QED BY <1>1, <1>3, <1>4, <1>5, <1>6, <1>7, <1>8, <1>9, <1>10, <1>11, <1>12, CommitStays

-----------------------------------------------------------------------------
(* The clock.                                                              *)

\* An expiry that is over stays over.
LEMMA TimePasses ==
    ASSUME now \in Nat, now' = now + 1
    PROVE  \A e \in Times \cup {Null} : Before(e, now) => Before(e, now')
BY DEF Before, Times

LEMMA TickStays ==
    ASSUME Checkout, Tick
    PROVE  Checkout'
<1>1. now < MaxTime /\ now' = now + 1 /\ UNCHANGED <<order, user, row, pay, charge, pc, tx, revived>>
  BY DEF Tick
<1>2. now \in 0..MaxTime /\ MaxTime \in Nat /\ \A q \in Requests : tx[q].now \in 0..MaxTime /\ tx[q].now <= now
  BY TimeAssumption DEF Checkout, Typed, Transaction
<1>3. now \in Nat /\ now' \in 0..MaxTime /\ \A q \in Requests : tx[q].now <= now'
  BY <1>1, <1>2
<1>4. Typed'
  BY <1>1, <1>3 DEF Checkout, Typed
<1>5. \A o \in Requests : Before(order[o].expires, now) => Before(order[o].expires, now')
  <2>1. \A o \in Requests : order[o].expires \in Times \cup {Null}
    BY DEF Checkout, Typed, Orders
  <2> QED BY <1>1, <1>3, <2>1, TimePasses
<1>6. \A r \in Requests :
         tx[r].order # Null =>
            (Before(tx[r].order.expires, now) => Before(tx[r].order.expires, now'))
  <2>1. \A r \in Requests : tx[r].order # Null => tx[r].order.expires \in Times \cup {Null}
    BY DEF Checkout, Typed, Transaction, Orders
  <2> QED BY <1>1, <1>3, <2>1, TimePasses
<1>7. \A c \in Requests \cup {Null} : Gone(c) => Gone(c)'
  BY <1>1, <1>5 DEF Gone
<1>8. Working'
  <2> SUFFICES ASSUME NEW r \in Requests PROVE Own(r)'
    BY DEF Working
  <2>1. Own(r)
    BY DEF Checkout, Working
  <2>2. Shape(r)'
    BY <1>1, <2>1 DEF Own, Shape, AtStart, AtLink, AtLock, AtBody, AtAuth, AtMark, AtCapture,
          AtComplete, AtUnlink, AtTokens, AtCommit, AtEnd, Nothing, Made, Linked, Unlinked, Charged, InOrder,
              Promised, MoneyIn, Second, Unpaid, PaidUp, Finished, Covered, InFull
  <2>3. Stages(r)'
    BY <1>1, <2>1 DEF Own, Stages, OwnCart, NotYet, FoundDraft, WritesDraft, WritesPaid, Unborn,
          Settled, Linked, InFull
  <2>4. Links(r)'
    <3>1. HasSeen(r)'
      BY <1>1, <2>1 DEF Own, Links, HasSeen, AsSeen
    <3>2. Replaces(r)'
      <4>1. PICK c \in Requests \cup {Null} : c = tx[r].seen.cart
        BY DEF Checkout, Typed, Transaction, UserRows
      <4>2. Gone(c) => Gone(c)'
        BY <1>7
      <4> QED BY <1>1, <2>1, <4>1, <4>2 DEF Own, Links, Replaces, AsSeen, Gone
    <3>3. WritesUser(r)'
      <4>1. PICK c \in Requests \cup {Null} : c = user[Caller[r]].cart
        BY DEF Checkout, Typed, UserRows, Users
      <4>2. Gone(c) => Gone(c)'
        BY <1>7
      <4>3. tx[r].user # Null =>
               /\ tx[r].user.stamp > user[Caller[r]].stamp
               /\ Linked(r) => Gone(c)
               /\ Unlinked(r) => user[Caller[r]].cart = tx[r].cart
        BY <2>1, <4>1 DEF Own, Links, WritesUser
      <4>4. (Linked(r) <=> Linked(r)') /\ (Unlinked(r) <=> Unlinked(r)')
        BY <1>1 DEF Linked, Unlinked
      <4>5. Gone(c)' => Gone(user[Caller[r]].cart)'
        BY <1>1, <4>1 DEF Gone
      <4> QED BY <1>1, <4>2, <4>3, <4>4, <4>5 DEF WritesUser
    <3> QED BY <3>1, <3>2, <3>3 DEF Links
  <2>5. Takes(r)'
    BY <1>1, <2>1 DEF Own, Takes, WritesRow, RowOf
  <2>6. WholeFor(r)'
    BY <1>1, <1>6, <2>1 DEF Own, WholeFor, HeldBy, Seen, InUse
  <2> QED BY <1>1, <2>1, <2>2, <2>3, <2>4, <2>5, <2>6 DEF Own, Empty
<1>9. NoConflict'
  BY <1>1 DEF Checkout, NoConflict, Apart, Settled
<1>10. Database'
  <2>1. \A o \in Requests : Fresh(o)' /\ PaidFor(o)' /\ PaysLast(o)'
    BY <1>1 DEF Checkout, Database, Fresh, Empty, PaidFor, Payer, InMoney, InFull, PaysLast
  <2>2. \A o \in Requests : Whole(o)' /\ Superseded(o)'
    BY <1>1, <1>5 DEF Checkout, Database, Whole, Superseded, InUse, Held
  <2>3. (\A u \in Users : UserCart(u)') /\ (\A t \in Tickets : Bound(t)')
    BY <1>1 DEF Checkout, Database, UserCart, Bound
  <2> QED BY <2>1, <2>2, <2>3 DEF Database
<1> QED BY <1>4, <1>8, <1>9, <1>10 DEF Checkout

-----------------------------------------------------------------------------
(* The invariant holds.                                                    *)

LEMMA NullIsNothing ==
    /\ Null \notin Requests /\ Null \notin Orders /\ Null \notin UserRows /\ Null \notin Payments
BY NullAssumption

LEMMA InitCheckout ==
    ASSUME Init
    PROVE  Checkout
<1>1. /\ 0 \in 0..MaxTime
      /\ [status |-> "none", version |-> 0, expires |-> Null, quantity |-> 0] \in Orders
      /\ [cart |-> Null, stamp |-> 0] \in UserRows
      /\ Issued(Org) \in Rows
      /\ NoRows \in Writes
  <2>1. 0 \in 0..MaxTime /\ 0 \in 0..MaxQuantity
    BY TimeAssumption, FiniteAssumption
  <2>2. [status |-> "none", version |-> 0, expires |-> Null, quantity |-> 0] \in Orders
    BY <2>1 DEF Orders
  <2>3. Issued(Org) \in Rows
    BY DEF Issued, Rows, Statuses
  <2>4. NoRows \in Writes
    <3>1. NoRows \in [{} -> Rows]
      BY DEF NoRows
    <3> QED BY <3>1, WritesMade
  <2> QED BY <2>1, <2>2, <2>3, <2>4 DEF UserRows
<1>2. NoTransaction \in Transaction /\ NoTransaction.now = 0
  BY <1>1, KindAssumption DEF NoTransaction, Transaction
<1>3. \A r \in Requests : tx[r] = NoTransaction /\ pc[r] = "idle" /\ charge[r] = "none"
                          /\ pay[r] = "none" /\ order[r].status = "none" /\ order[r].version = 0
                          /\ order[r].expires = Null /\ order[r].quantity = 0
  BY DEF Init
<1>4. Typed
  BY <1>1, <1>2 DEF Init, Typed, Payments
<1>5. /\ NoTransaction.order = Null /\ NoTransaction.user = Null /\ NoTransaction.rows = NoRows
      /\ NoTransaction.pay = Null /\ NoTransaction.cart = Null
  BY DEF NoTransaction
<1>6. Working
  <2> SUFFICES ASSUME NEW r \in Requests PROVE Own(r)
    BY DEF Working
  <2>1. Shape(r)
    BY <1>3, <1>5 DEF Shape, AtStart, AtLink, AtLock, AtBody, AtAuth, AtMark, AtCapture,
          AtComplete, AtUnlink, AtTokens, AtCommit, AtEnd, Nothing, Ended
  <2>2. Stages(r)
    BY <1>3, <1>5 DEF Stages, OwnCart, NotYet, FoundDraft, WritesDraft, WritesPaid, Settled
  <2>3. Links(r)
    BY <1>3, <1>5 DEF Links, HasSeen, Replaces, WritesUser
  <2>4. Takes(r) /\ WholeFor(r) /\ tx[r].order = Null
    BY <1>3, <1>5, NoRowsFacts DEF Takes, WholeFor
  <2> QED BY <2>1, <2>2, <2>3, <2>4 DEF Own
<1>7. NoConflict
  BY <1>3, <1>5, NoRowsFacts DEF NoConflict, Apart, Settled
<1>8. Database
  <2>1. \A t \in Tickets : row[t].item = Null /\ row[t].status # "Purchased"
    BY DEF Init, Issued
  <2>2. \A o \in Requests : Held(o) = {}
    BY <2>1, NullIsNothing DEF Held
  <2>3. \A o \in Requests : Whole(o)
    BY <1>3, <2>2, FS_EmptySet DEF Whole
  <2>4. \A o \in Requests : Fresh(o) /\ Superseded(o) /\ PaidFor(o) /\ PaysLast(o)
    BY <1>3 DEF Fresh, Empty, Superseded, PaidFor, PaysLast
  <2>5. \A u \in Users : UserCart(u)
    BY DEF Init, UserCart
  <2> QED BY <2>1, <2>3, <2>4, <2>5 DEF Database, Bound
<1> QED BY <1>4, <1>6, <1>7, <1>8 DEF Checkout

LEMMA UnchangedStays ==
    ASSUME Checkout, UNCHANGED vars
    PROVE  Checkout'
<1>1. Same /\ UNCHANGED <<charge, pc, tx>>
  BY DEF vars, Same
<1>2. Typed'
  BY <1>1 DEF Checkout, Typed, Same
<1>3. Working'
  <2> SUFFICES ASSUME NEW q \in Requests PROVE Own(q)'
    BY DEF Working
  <2>1. Own(q)
    BY DEF Checkout, Working
  <2>2. Shape(q)'
    BY <1>1, <2>1 DEF Own, Same, Shape, AtStart, AtLink, AtLock, AtBody, AtAuth, AtMark, AtCapture,
          AtComplete, AtUnlink, AtTokens, AtCommit, AtEnd, Nothing, Made, Linked, Unlinked, Charged, InOrder,
              Promised, MoneyIn, Second, Unpaid, PaidUp, Finished, Covered, InFull
  <2>3. Stages(q)'
    BY <1>1, <2>1 DEF Own, Stages, Same, OwnCart, NotYet, FoundDraft, WritesDraft, WritesPaid,
          Unborn, Settled, Linked, InFull
  <2>4. Links(q)'
    BY <1>1, <2>1 DEF Own, Links, Same, HasSeen, Replaces, WritesUser, AsSeen, Gone, Linked, Unlinked
  <2>5. Takes(q)'
    BY <1>1, <2>1 DEF Own, Takes, Same, WritesRow, RowOf
  <2>6. WholeFor(q)'
    BY <1>1, <2>1 DEF Own, WholeFor, Same, HeldBy, Seen, InUse
  <2> QED BY <1>1, <2>1, <2>2, <2>3, <2>4, <2>5, <2>6 DEF Own, Empty
<1>4. NoConflict'
  BY <1>1 DEF Checkout, NoConflict, Apart, Settled
<1>5. Database'
  <2>1. \A o \in Requests : Fresh(o)' /\ PaidFor(o)' /\ PaysLast(o)'
    BY <1>1 DEF Checkout, Database, Fresh, Empty, PaidFor, Payer, InMoney, InFull, PaysLast, Same
  <2>2. \A o \in Requests : Whole(o)' /\ Superseded(o)'
    BY <1>1 DEF Checkout, Database, Whole, Superseded, InUse, Held, Same
  <2>3. (\A u \in Users : UserCart(u)') /\ (\A t \in Tickets : Bound(t)')
    BY <1>1 DEF Checkout, Database, UserCart, Bound, Same
  <2> QED BY <2>1, <2>2, <2>3 DEF Database
<1> QED BY <1>2, <1>3, <1>4, <1>5 DEF Checkout

LEMMA NextKeepsCheckout ==
    ASSUME Checkout, Next
    PROVE  Checkout'
<1>1. CASE Tick
  BY <1>1, TickStays
<1>2. CASE Rest
  BY <1>2, UnchangedStays DEF Rest
<1>3. ASSUME NEW r \in Requests, NEW kind \in Kinds, Begin(r, kind)
      PROVE  Checkout'
  BY <1>3, BeginStays
<1>4. ASSUME NEW r \in Requests, Crash(r)
      PROVE  Checkout'
  BY <1>4, CrashMoves, CrashStays DEF Crash, Checkout
<1>5. ASSUME NEW r \in Requests, Step(r)
      PROVE  Checkout'
  <2>1. CASE FindCart(r) BY <2>1, FindCartStays
  <2>2. CASE CreateCart(r) BY <2>2, CreateCartStays
  <2>3. CASE LinkCart(r) BY <2>3, LinkCartStays
  <2>4. CASE Lock(r) BY <2>4, LockStays
  <2>5. CASE Unpublished(r) BY <2>5, UnpublishedStays
  <2>6. ASSUME NEW q \in 0..MaxQuantity, Body(r, q) PROVE Checkout'
    BY <2>6, BodyActionStays
  <2>7. CASE Authorize(r) BY <2>7, AuthorizeStays
  <2>8. CASE MarkOrder(r) BY <2>8, MarkOrderStays
  <2>9. CASE KeepTickets(r) BY <2>9, KeepTicketsStays
  <2>10. CASE CommitAuthorization(r) BY <2>10, CommitAuthorizationStays
  <2>11. CASE Capture(r) BY <2>11, CaptureStays
  <2>12. CASE Complete(r) BY <2>12, CompleteStays
  <2>13. CASE UnlinkCart(r) BY <2>13, UnlinkCartStays
  <2>14. CASE TransferTokens(r) BY <2>14, TransferTokensStays
  <2>15. CASE Commit(r) BY <2>15, CommitActionStays
  <2> QED BY <1>5, <2>1, <2>2, <2>3, <2>4, <2>5, <2>6, <2>7, <2>8, <2>9, <2>10, <2>11, <2>12,
             <2>13, <2>14, <2>15 DEF Step
<1> QED BY <1>1, <1>2, <1>3, <1>4, <1>5 DEF Next

\* Every request keeps what it has written in step with where it is, two requests
\* never write the same row, and what is committed agrees with both: the inductive
\* invariant of the carts and checkouts.
THEOREM CheckoutHolds == Spec => []Checkout
<1>1. Init => Checkout
  BY InitCheckout
<1>2. Checkout /\ [Next]_vars => Checkout'
  BY NextKeepsCheckout, UnchangedStays
<1> QED BY <1>1, <1>2, PTL DEF Spec

-----------------------------------------------------------------------------
(* What it says about carts and money.                                     *)

\* A request that holds money has the order's lock or has settled the order.
LEMMA HoldersOfMoney ==
    ASSUME Checkout, NEW r \in Requests, charge[r] \in {"authorized", "captured"},
           ~(pc[r] = "fault" /\ charge[r] = "authorized")
    PROVE  Settled(r) \/ (tx[r].order # Null /\ ~Settled(r))
<1>1. Shape(r)
  BY DEF Checkout, Working, Own
<1>2. pc[r] \in {"idle", "find", "create", "link", "lock", "body", "auth", "mark", "keep",
                 "commitAuth", "capture", "complete", "unlink", "tokens", "commit",
                 "ok", "refused", "fault"}
  BY DEF Checkout, Typed, Steps, Ended
<1>3. CASE pc[r] \in {"idle", "find", "create", "link", "lock", "body", "auth"}
  BY <1>1, <1>3 DEF Shape, AtStart, AtLink, AtLock, AtBody, AtAuth
<1>4. CASE pc[r] \in {"mark", "keep"}
  BY <1>1, <1>4 DEF Shape, AtMark, InOrder
<1>5. CASE pc[r] = "capture"
  BY <1>1, <1>5 DEF Shape, AtCapture, Settled
<1>6. CASE pc[r] = "commitAuth"
  <2>1. tx[r].pay = "Authorized" /\ (PaidUp(r) \/ Unpaid(r))
    BY <1>1, <1>6 DEF Shape, AtCapture
  <2> QED BY <2>1 DEF PaidUp, Unpaid, Second, InOrder
<1>7. CASE pc[r] \in {"complete", "unlink"}
  <2>1. (Promised(r) \/ MoneyIn(r)) /\ (PaidUp(r) \/ Unpaid(r))
    BY <1>1, <1>7 DEF Shape, AtComplete, AtUnlink
  <2>2. CASE Promised(r)
    BY <2>1, <2>2 DEF Promised, PaidUp, Unpaid, Second, InOrder
  <2>3. CASE MoneyIn(r)
    BY <1>7, <2>3 DEF MoneyIn, Charged, Settled
  <2> QED BY <2>1, <2>2, <2>3
<1>8. CASE pc[r] \in {"tokens", "commit"}
  <2>1. tx[r].kind = "card"
    BY <1>1, <1>8 DEF Shape, AtTokens, AtCommit, Finished, MoneyIn, Charged
  <2> QED BY <1>8, <2>1 DEF Settled
<1>9. CASE pc[r] \in {"ok", "refused", "fault"}
  BY <1>1, <1>9 DEF Shape, AtEnd, Charged, Settled, Ended
<1> QED BY <1>2, <1>3, <1>4, <1>5, <1>6, <1>7, <1>8, <1>9

LEMMA MoneyIsHeldOnce ==
    ASSUME Checkout
    PROVE  ChargedOnce
<1> SUFFICES ASSUME NEW q \in Requests, NEW r \in Requests, q # r, tx[q].cart = tx[r].cart,
                    charge[q] \in {"authorized", "captured"},
                    charge[r] \in {"authorized", "captured"},
                    ~(pc[q] = "fault" /\ charge[q] = "authorized"),
                    ~(pc[r] = "fault" /\ charge[r] = "authorized")
             PROVE  FALSE
  BY DEF ChargedOnce
<1>1. Apart(q, r)
  BY DEF Checkout, NoConflict
<1>2. /\ Settled(q) \/ (tx[q].order # Null /\ ~Settled(q))
      /\ Settled(r) \/ (tx[r].order # Null /\ ~Settled(r))
  BY HoldersOfMoney
<1>3. WritesDraft(q) /\ WritesDraft(r) /\ WritesPaid(q) /\ WritesPaid(r)
  BY DEF Checkout, Working, Own, Stages
<1> QED BY <1>1, <1>2, <1>3 DEF Apart, WritesDraft, WritesPaid

LEMMA MoneyAgrees ==
    ASSUME Checkout
    PROVE  MoneyAndOrderAgree
<1>1. MoneyFollowsTheOrder
  <2> SUFFICES ASSUME NEW r \in Requests
               PROVE  /\ pc[r] = "refused" => charge[r] \in {"none", "refunded"}
                      /\ pc[r] = "ok" /\ tx[r].kind = "card" => charge[r] = "captured"
                      /\ pc[r] = "ok" /\ tx[r].kind # "update" =>
                            /\ pay[r] = "Completed"
                            /\ order[tx[r].cart].status \in {"PartiallyPaid", "Paid"}
                            /\ InFull(r) => order[tx[r].cart].status = "Paid"
    BY DEF MoneyFollowsTheOrder
  <2>1. AtEnd(r) /\ WritesPaid(r)
    BY DEF Checkout, Working, Own, Shape, Stages
  <2> QED BY <2>1 DEF AtEnd, Ended, Charged, WritesPaid, Settled
<1>2. PaidIsCharged
  <2> SUFFICES ASSUME NEW o \in Requests, order[o].status = "Paid"
               PROVE  \E r \in Requests :
                         /\ tx[r].cart = o /\ pay[r] # "none"
                         /\ \/ o \in FreeOrders
                            \/ /\ pay[r] = "Completed" /\ InFull(r)
                               /\ tx[r].kind = "card" => charge[r] = "captured"
    BY DEF PaidIsCharged
  <2>1. PICK r \in Requests : Payer(r, o)
    BY DEF Checkout, Database, PaidFor
  <2> QED BY <2>1 DEF Payer, InMoney
<1> QED BY <1>1, <1>2 DEF MoneyAndOrderAgree

LEMMA TypesAgree ==
    ASSUME Typed
    PROVE  TypeOK
<1>1. \A r \in Requests :
         /\ [tx[r] EXCEPT !.rows = NoRows] \in Transactions
         /\ DOMAIN tx[r].rows \subseteq Tickets
         /\ \A t \in DOMAIN tx[r].rows : tx[r].rows[t] \in Rows
  <2> TAKE r \in Requests
  <2>1. tx[r] \in Transaction /\ tx[r].rows \in Writes
    BY DEF Typed, Transaction
  <2>2. [tx[r] EXCEPT !.rows = NoRows] \in Transactions
    BY <2>1 DEF Transaction, Transactions
  <2> QED BY <2>1, <2>2, WritesFacts
<1>2. DOMAIN tx = Requests
  BY DEF Typed
<1> QED BY <1>1, <1>2 DEF Typed, TypeOK

LEMMA CartsHoldTheirs ==
    ASSUME Checkout
    PROVE  CartsAreWhole
<1>1. LiveCartHoldsItsTickets
  <2> SUFFICES ASSUME NEW o \in Requests, IsCart(o, now)
               PROVE  /\ Cardinality(Held(o)) = order[o].quantity
                      /\ \A t \in Held(o) : row[t].until = order[o].expires
    BY DEF LiveCartHoldsItsTickets, Held
  <2>1. Whole(o) /\ InUse(order[o])
    BY DEF Checkout, Database, IsCart, InUse
  <2> QED BY <2>1 DEF Whole
<1> QED BY <1>1, TypesAgree DEF CartsAreWhole, Checkout

LEMMA OneInUse ==
    ASSUME Checkout
    PROVE  OneCartInUse
<1> SUFFICES ASSUME NEW o \in Requests \ revived, NEW p \in Requests \ revived,
                    Caller[o] = Caller[p], IsCart(o, now), IsCart(p, now)
             PROVE  o = p
  BY DEF OneCartInUse
<1>1. user[Caller[o]].cart = o
  BY DEF Checkout, Database, Superseded, IsCart
<1>2. user[Caller[p]].cart = p
  BY DEF Checkout, Database, Superseded, IsCart
<1> QED BY <1>1, <1>2

\* What a step does to a purchased ticket.
LEMMA StepKeepsPurchases ==
    ASSUME Checkout, [Next]_vars, NEW t \in Tickets, row[t].status = "Purchased"
    PROVE  row'[t].item = row[t].item /\ row'[t].wallet = row[t].wallet
<1>1. row' = row \/ \E r \in Requests : Apply(r)
  <2>1. CASE UNCHANGED vars \/ Tick \/ Rest
    BY <2>1 DEF vars, Tick, Rest
  <2>2. ASSUME NEW r \in Requests, NEW kind \in Kinds, Begin(r, kind)
        PROVE  row' = row
    BY <2>2 DEF Begin
  <2>3. ASSUME NEW r \in Requests, Crash(r)
        PROVE  row' = row
    BY <2>3 DEF Crash, RollBack
  <2>4. ASSUME NEW r \in Requests, Step(r)
        PROVE  row' = row \/ Apply(r)
    <3>1. CASE FindCart(r) \/ CreateCart(r) \/ LinkCart(r) \/ Lock(r)
      BY <3>1 DEF FindCart, CreateCart, LinkCart, Lock, Refuse, RollBack
    <3>2. ASSUME NEW q \in 0..MaxQuantity, Body(r, q)
          PROVE  row' = row
      BY <3>2 DEF Body, Grow, Shrink, Refuse, RollBack
    <3>3. CASE Authorize(r) \/ Capture(r) \/ TransferTokens(r) \/ KeepTickets(r) \/ Complete(r)
      BY <3>3 DEF Authorize, Capture, TransferTokens, KeepTickets, Complete, Refuse, RollBack
    <3>4. CASE MarkOrder(r) \/ UnlinkCart(r)
      BY <3>4 DEF MarkOrder, UnlinkCart, RefundAndRefuse, Refuse, RollBack
    <3>5. CASE Unpublished(r) \/ CommitAuthorization(r) \/ Commit(r)
      BY <3>5 DEF Unpublished, CommitAuthorization, Commit
    <3> QED BY <2>4, <3>1, <3>2, <3>3, <3>4, <3>5 DEF Step
  <2> QED BY <2>1, <2>2, <2>3, <2>4 DEF Next
<1>2. CASE row' = row
  BY <1>2
<1>3. ASSUME NEW r \in Requests, Apply(r)
      PROVE  row'[t].item = row[t].item /\ row'[t].wallet = row[t].wallet
  <2>1. row'[t] = Seen(r, t)
    BY <1>3 DEF Apply
  <2>2. t \in DOMAIN tx[r].rows => WritesRow(r, t)
    BY DEF Checkout, Working, Own, Takes
  <2> QED BY <2>1, <2>2 DEF Seen, WritesRow
<1> QED BY <1>1, <1>2, <1>3

-----------------------------------------------------------------------------
(* The theorems.                                                           *)

\* However many requests of a user race through lock_version and the provider's
\* two calls, money is held for a cart once; only a request that died leaves an
\* authorization beside another one, and that is never captured.
THEOREM ChargesAreSingle == Spec => []ChargedOnce
BY CheckoutHolds, MoneyIsHeldOnce, PTL

\* Whichever step of a checkout fails, money, payments and orders agree: a refused
\* request holds nothing, a successful one has its payment, and an order that has a
\* total is paid by a completed and captured payment of the whole of it; a payment of
\* less leaves the order partially paid (complete_if_fully_paid).
THEOREM MoneyFollowsOrders == Spec => []MoneyAndOrderAgree
BY CheckoutHolds, MoneyAgrees, PTL

\* The committed carts have exactly the tickets they count, each until the cart's
\* expiry, however reservations and releases interleave under SKIP LOCKED.
THEOREM CartsStayWhole == Spec => []CartsAreWhole
BY CheckoutHolds, CartsHoldTheirs, PTL

\* However many requests find or create a cart at once, a user has one in use, but
\* for the carts an overlong transaction has emptied.
THEOREM CartsAreSingle == Spec => []OneCartInUse
BY CheckoutHolds, OneInUse, PTL

\* No request takes a ticket another one's transaction has bought.
THEOREM PurchasesAreKept == Spec => PurchasesLast
<1>1. Checkout /\ [Next]_vars =>
        [\A t \in Tickets :
            row[t].status = "Purchased" =>
                row'[t].item = row[t].item /\ row'[t].wallet = row[t].wallet]_vars
  BY StepKeepsPurchases
<1> QED BY <1>1, CheckoutHolds, PTL DEF Spec, PurchasesLast
=============================================================================
