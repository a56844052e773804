----------------------- MODULE TicketInstances_proofs -----------------------
(***************************************************************************)
(* Proofs about TicketInstances, for every number of tickets, orders,      *)
(* users, holds and requests, and every bound of the clock.                *)
(***************************************************************************)
EXTENDS TicketInstances, FiniteSetTheorems, TLAPS

\* What the statements write to a row leaves it a row.
LEMMA RowOperations ==
    ASSUME NEW r \in Rows
    PROVE  /\ \A i \in Items, u \in Times \cup {Null} : ReservedFor(r, i, u) \in Rows
           /\ Released(r) \in Rows
           /\ \A h \in Holds \cup {Null} : MovedToHold(r, h) \in Rows
           /\ \A u \in Times \cup {Null} : KeptUntil(r, u) \in Rows
           /\ \A i \in Items, w \in Wallets : PurchasedBy(r, i, w) \in Rows
           /\ \A w \in Wallets : InWallet(r, w) \in Rows
           /\ \A s \in Statuses : Marked(r, s) \in Rows
           /\ \A q \in Keys \cup Users : ReadBy(r, q) \in Rows
           /\ \A q : ForgottenBy(r, q) \in Rows
           /\ \A k \in Keys, d \in Times : Offered(r, k, d) \in Rows
           /\ \A w \in Wallets : Received(r, w) \in Rows
<1>1. \A i \in Items, u \in Times \cup {Null} : ReservedFor(r, i, u) \in Rows
  BY DEF ReservedFor, Rows, Statuses
<1>2. Released(r) \in Rows
  BY DEF Released, Rows, Statuses
<1>3. \A h \in Holds \cup {Null} : MovedToHold(r, h) \in Rows
  BY DEF MovedToHold, Rows
<1>4. \A u \in Times \cup {Null} : KeptUntil(r, u) \in Rows
  BY DEF KeptUntil, Rows
<1>5. \A i \in Items, w \in Wallets : PurchasedBy(r, i, w) \in Rows
  BY DEF PurchasedBy, Rows, Statuses
<1>6. \A w \in Wallets : InWallet(r, w) \in Rows
  BY DEF InWallet, Rows
<1>7. \A s \in Statuses : Marked(r, s) \in Rows
  BY DEF Marked, Rows
<1>8. \A q \in Keys \cup Users : ReadBy(r, q) \in Rows
  BY DEF ReadBy, Rows
<1>9. \A q : ForgottenBy(r, q) \in Rows
  BY DEF ForgottenBy, Rows
<1>10. \A k \in Keys, d \in Times : Offered(r, k, d) \in Rows
  BY DEF Offered, Rows
<1>11. \A w \in Wallets : Received(r, w) \in Rows
  BY DEF Received, Rows
<1>12. QED
  BY <1>1, <1>2, <1>3, <1>4, <1>5, <1>6, <1>7, <1>8, <1>9, <1>10, <1>11

\* Which columns they write, and which they leave.
SameSale(r, s) == s.status = r.status /\ s.item = r.item /\ s.key = r.key

LEMMA RowColumns ==
    ASSUME NEW r \in Rows
    PROVE  /\ \A i, u : ReservedFor(r, i, u).status = "Reserved"
           /\ Released(r).status = "Available"
           /\ \A h : SameSale(r, MovedToHold(r, h))
           /\ \A u : SameSale(r, KeptUntil(r, u)) /\ KeptUntil(r, u).hold = r.hold
           /\ \A i, w : LET p == PurchasedBy(r, i, w)
                       IN  /\ p.status = "Purchased" /\ p.key = i
                           /\ p.item = r.item /\ p.hold = r.hold
           /\ \A w : SameSale(r, InWallet(r, w)) /\ InWallet(r, w).hold = r.hold
           /\ \A s : LET m == Marked(r, s)
                    IN  /\ m.status = s /\ m.key = r.key
                        /\ m.item = r.item /\ m.hold = r.hold
           /\ \A q : SameSale(r, ReadBy(r, q)) /\ ReadBy(r, q).hold = r.hold
           /\ \A q : SameSale(r, ForgottenBy(r, q)) /\ ForgottenBy(r, q).hold = r.hold
           /\ \A k, d : SameSale(r, Offered(r, k, d)) /\ Offered(r, k, d).hold = r.hold
           /\ \A w : SameSale(r, Received(r, w)) /\ Received(r, w).hold = r.hold
BY DEF Rows, SameSale, ReservedFor, Released, MovedToHold, KeptUntil, PurchasedBy,
       InWallet, Marked, ReadBy, ForgottenBy, Offered, Received

\* Times the actions compute stay in Times.
LEMMA Deadlines ==
    ASSUME now \in 0..MaxTime
    PROVE  /\ now + CartTTL \in Times
           /\ now + PayTTL \in Times
           /\ now + KeyTTL \in Times
BY TimeAssumption DEF Times

LEMMA SomeTickets ==
    ASSUME NEW T \in Some
    PROVE  T \subseteq Tickets /\ Cardinality(T) \in Nat /\ Cardinality(T) > 0
<1>1. T \subseteq Tickets /\ T # {}
  BY DEF Some
<1>2. IsFiniteSet(T)
  BY <1>1, TicketAssumption, FS_Subset
<1>3. Cardinality(T) \in Nat
  BY <1>2, FS_CardinalityType
<1>4. Cardinality(T) # 0
  BY <1>1, <1>2, FS_EmptySet
<1>5. QED
  BY <1>1, <1>3, <1>4

-----------------------------------------------------------------------------
(* Types.                                                                  *)

LEMMA InitTypes == Init => TypeOK
<1> SUFFICES ASSUME Init
             PROVE  TypeOK
  OBVIOUS
<1> USE DEF Init
<1>1. now \in 0..MaxTime
  BY TimeAssumption
<1>2. Issued(Org) \in Rows
  BY DEF Issued, Rows, Statuses, Wallets
<1>3. row \in [Tickets -> Rows]
  BY <1>2
<1>4. line \in [Items -> Lines]
  BY DEF Lines
<1>5. scan \in [Scanners -> Tickets \cup {Null}]
  OBVIOUS
<1>6. auth \in [Keys -> Auths]
  BY DEF Auths
<1>7. recv \in [Users -> [key : Keys \cup {Null}, tickets : SUBSET Tickets]]
  BY DEF NoTransfer
<1>8. refund \in [Items -> Refunding]
  BY DEF NoRefund, Refunding
<1>9. QED
  BY <1>1, <1>3, <1>4, <1>5, <1>6, <1>7, <1>8 DEF TypeOK

LEMMA CartTypes ==
    ASSUME TypeOK, CartStep
    PROVE  TypeOK'
<1> USE DEF TypeOK
<1>0. PICK i \in Items :
        \/ \E h \in Holds \cup {Null}, T \in Some : Reserve(i, h, T)
        \/ \E T \in Some : Release(i, T)
        \/ MarkOrder(i)
        \/ MarkTickets(i)
        \/ Complete(i)
  BY DEF CartStep
<1>1. line[i] \in Lines /\ \A t \in Tickets : row[t] \in Rows
  OBVIOUS
<1>2. Expiry(i) \in Times
  BY <1>1, Deadlines DEF Expiry, Lines
<1>3. ASSUME NEW h \in Holds \cup {Null}, NEW T \in Some, Reserve(i, h, T)
      PROVE  TypeOK'
  <2>1. row' \in [Tickets -> Rows]
    BY <1>2, <1>3, RowOperations DEF Reserve
  <2>2. line' \in [Items -> Lines]
    BY <1>1, <1>2, <1>3, SomeTickets DEF Reserve, Lines
  <2>3. QED
    BY <1>3, <2>1, <2>2 DEF Reserve
<1>4. ASSUME NEW T \in Some, Release(i, T)
      PROVE  TypeOK'
  <2>1. row' \in [Tickets -> Rows]
    BY <1>4, RowOperations DEF Release
  <2>2. line[i].quantity - Cardinality(T) \in Nat
    BY <1>1, <1>4, SomeTickets DEF Release, Lines
  <2>3. line' \in [Items -> Lines]
    BY <1>1, <1>4, <2>2 DEF Release, Lines
  <2>4. QED
    BY <1>4, <2>1, <2>3 DEF Release
<1>5. CASE MarkOrder(i)
  <2>1. line' \in [Items -> Lines]
    BY <1>1, <1>5, Deadlines DEF MarkOrder, Lines
  <2>2. QED
    BY <1>5, <2>1 DEF MarkOrder
<1>6. CASE MarkTickets(i)
  <2>1. line[i].expires \in Times \cup {Null}
    BY <1>1 DEF Lines
  <2>2. row' \in [Tickets -> Rows]
    BY <1>6, <2>1, RowOperations DEF MarkTickets
  <2>3. line' \in [Items -> Lines]
    BY <1>1, <1>6 DEF MarkTickets, Lines
  <2>4. QED
    BY <1>6, <2>2, <2>3 DEF MarkTickets
<1>7. CASE Complete(i)
  <2>1. Buyer[i] \in Wallets
    BY OwnerAssumption DEF Wallets
  <2>2. row' \in [Tickets -> Rows]
    BY <1>7, <2>1, RowOperations DEF Complete
  <2>3. line' \in [Items -> Lines]
    BY <1>1, <1>7 DEF Complete, Lines
  <2>4. QED
    BY <1>7, <2>2, <2>3 DEF Complete
<1>8. QED
  BY <1>0, <1>3, <1>4, <1>5, <1>6, <1>7

LEMMA HoldTypes ==
    ASSUME TypeOK, HoldStep
    PROVE  TypeOK'
<1> USE DEF TypeOK
<1>0. PICK T \in Some :
        \/ \E to \in Holds, from \in Holds \cup {Null} : AddToHold(to, from, T)
        \/ \E h \in Holds : ReleaseFromHold(h, T)
        \/ Nullify(T)
  BY DEF HoldStep
<1>1. ASSUME NEW to \in Holds, NEW from \in Holds \cup {Null}, AddToHold(to, from, T)
      PROVE  TypeOK'
  <2>1. row' \in [Tickets -> Rows]
    BY <1>1, RowOperations DEF AddToHold
  <2>2. QED
    BY <1>1, <2>1 DEF AddToHold
<1>2. ASSUME NEW h \in Holds, ReleaseFromHold(h, T)
      PROVE  TypeOK'
  <2>1. row' \in [Tickets -> Rows]
    BY <1>2, RowOperations DEF ReleaseFromHold
  <2>2. QED
    BY <1>2, <2>1 DEF ReleaseFromHold
<1>3. CASE Nullify(T)
  <2>1. row' \in [Tickets -> Rows]
    BY <1>3, RowOperations DEF Nullify, Statuses
  <2>2. QED
    BY <1>3, <2>1 DEF Nullify
<1>4. QED
  BY <1>0, <1>1, <1>2, <1>3

LEMMA DoorTypes ==
    ASSUME TypeOK, DoorStep
    PROVE  TypeOK'
<1> USE DEF TypeOK
<1>0. PICK s \in Scanners :
        \/ \E t \in Tickets, key \in Items : RedeemRead(s, t, key)
        \/ RedeemWrite(s)
  BY DEF DoorStep
<1>1. ASSUME NEW t \in Tickets, NEW key \in Items, RedeemRead(s, t, key)
      PROVE  TypeOK'
  BY <1>1 DEF RedeemRead
<1>2. CASE RedeemWrite(s)
  <2>1. scan[s] \in Tickets
    BY <1>2 DEF RedeemWrite
  <2>2. Marked(row[scan[s]], "Redeemed") \in Rows
    BY <2>1, RowOperations DEF Statuses
  <2>3. QED
    BY <1>2, <2>1, <2>2 DEF RedeemWrite
<1>3. QED
  BY <1>0, <1>1, <1>2

LEMMA TransferTypes ==
    ASSUME TypeOK, TransferStep
    PROVE  TypeOK'
<1> USE DEF TypeOK
<1>1. ASSUME NEW k \in Keys, NEW u \in Users, NEW T \in Some, AuthorizeRead(k, u, T)
      PROVE  TypeOK'
  <2>1. row' \in [Tickets -> Rows]
    BY <1>1, RowOperations DEF AuthorizeRead
  <2>2. auth' \in [Keys -> Auths]
    BY <1>1, SomeTickets DEF AuthorizeRead, Auths
  <2>3. QED
    BY <1>1, <2>1, <2>2 DEF AuthorizeRead
<1>2. ASSUME NEW k \in Keys, AuthorizeWrite(k)
      PROVE  TypeOK'
  <2>1. row' \in [Tickets -> Rows]
    <3>1. now + KeyTTL \in Times
      BY Deadlines
    <3>2. \A t \in Tickets : Offered(row[t], k, now + KeyTTL) \in Rows
      BY <3>1, RowOperations
    <3>3. QED
      BY <1>2, <3>2 DEF AuthorizeWrite
  <2>2. auth' \in [Keys -> Auths]
    <3>1. \A a \in Auths : [a EXCEPT !.stage = "issued"] \in Auths
      BY DEF Auths
    <3>2. QED
      BY <1>2, <3>1 DEF AuthorizeWrite
  <2>3. QED
    BY <1>2, <2>1, <2>2 DEF AuthorizeWrite
<1>3. ASSUME NEW k \in Keys, AuthorizeAbort(k)
      PROVE  TypeOK'
  <2>1. row' \in [Tickets -> Rows]
    BY <1>3, RowOperations DEF AuthorizeAbort
  <2>2. auth' \in [Keys -> Auths]
    BY <1>3 DEF AuthorizeAbort, Auths
  <2>3. QED
    BY <1>3, <2>1, <2>2 DEF AuthorizeAbort
<1>4. ASSUME NEW u \in Users, NEW k \in Keys, ReceiveRead(u, k)
      PROVE  TypeOK'
  <2>1. row' \in [Tickets -> Rows]
    BY <1>4, RowOperations DEF ReceiveRead
  <2>2. QED
    BY <1>4, <2>1 DEF ReceiveRead, Carrying
<1>5. ASSUME NEW u \in Users, ReceiveWrite(u)
      PROVE  TypeOK'
  <2>1. row' \in [Tickets -> Rows]
    BY <1>5, RowOperations DEF ReceiveWrite, Wallets
  <2>2. QED
    BY <1>5, <2>1 DEF ReceiveWrite, NoTransfer
<1>6. ASSUME NEW u \in Users, ReceiveAbort(u)
      PROVE  TypeOK'
  <2>1. row' \in [Tickets -> Rows]
    BY <1>6, RowOperations DEF ReceiveAbort
  <2>2. QED
    BY <1>6, <2>1 DEF ReceiveAbort, NoTransfer
<1>7. QED
  BY <1>1, <1>2, <1>3, <1>4, <1>5, <1>6 DEF TransferStep

LEMMA RefundTypes ==
    ASSUME TypeOK, RefundStep
    PROVE  TypeOK'
<1> USE DEF TypeOK
<1>0. PICK i \in Items :
        \/ \E t \in Tickets : RefundRead(i, t)
        \/ RefundWrite(i)
        \/ RefundAbort(i)
  BY DEF RefundStep
<1>1. ASSUME NEW t \in Tickets, RefundRead(i, t)
      PROVE  TypeOK'
  <2>1. row[t].item \in Items \cup {Null}
    BY DEF Rows
  <2>2. [ticket |-> t, item |-> row[t].item, redeemed |-> row[t].status = "Redeemed"]
          \in Refunding
    BY <2>1 DEF Refunding
  <2>3. refund' \in [Items -> Refunding]
    BY <1>1, <2>2 DEF RefundRead
  <2>4. QED
    BY <1>1, <2>3 DEF RefundRead
<1>2. CASE RefundWrite(i)
  <2> DEFINE t == refund[i].ticket
  <2>1. t \in Tickets
    BY <1>2 DEF RefundWrite, Refunding
  <2>2. Released(row[t]) \in Rows /\ row[t] \in Rows
    BY <2>1, RowOperations
  <2>3. /\ InWallet(row[t], Org) \in Rows
        /\ InWallet(Released(row[t]), Org) \in Rows
    BY <2>2, RowOperations DEF Wallets
  <2>4. row' \in [Tickets -> Rows]
    BY <1>2, <2>3 DEF RefundWrite
  <2>5. \A l \in Lines : [l EXCEPT !.refunds = @ + 1] \in Lines
    <3>1. ASSUME NEW l \in Lines, NEW n \in Nat
          PROVE  [l EXCEPT !.refunds = n] \in Lines
      BY DEF Lines
    <3>2. \A l \in Lines : l.refunds + 1 \in Nat
      BY DEF Lines
    <3>3. QED
      BY <3>1, <3>2
  <2>6. line' \in [Items -> Lines]
    BY <1>2, <2>5 DEF RefundWrite
  <2>7. refund' \in [Items -> Refunding]
    BY <1>2 DEF RefundWrite, NoRefund, Refunding
  <2>8. QED
    BY <1>2, <2>1, <2>4, <2>6, <2>7 DEF RefundWrite
<1>3. CASE RefundAbort(i)
  <2>1. refund' \in [Items -> Refunding]
    BY <1>3 DEF RefundAbort, NoRefund, Refunding
  <2>2. QED
    BY <1>3, <2>1 DEF RefundAbort
<1>4. QED
  BY <1>0, <1>1, <1>2, <1>3

LEMMA NextTypes == TypeOK /\ [Next]_vars => TypeOK'
<1> SUFFICES ASSUME TypeOK, [Next]_vars
             PROVE  TypeOK'
  OBVIOUS
<1>1. CASE Tick
  BY <1>1, TimeAssumption DEF TypeOK, Tick
<1>2. CASE UNCHANGED vars
  BY <1>2 DEF TypeOK, vars
<1>3. QED
  BY <1>1, <1>2, CartTypes, HoldTypes, DoorTypes, TransferTypes, RefundTypes DEF Next

\* Every reachable state is well typed: the rows, order lines, authorizations and
\* requests stay in the ranges TypeOK gives them.  What could fail is a quantity
\* below zero, a wallet that is nobody's, or a deadline without a bound.
THEOREM Typing == Spec => []TypeOK
BY InitTypes, NextTypes, PTL DEF Spec

-----------------------------------------------------------------------------
(* Purchased tickets.                                                      *)

\* The order item of a ticket that has one.
LEMMA TicketItem ==
    ASSUME TypeOK, NEW t \in Tickets, row[t].item # Null
    PROVE  row[t].item \in Items
BY DEF TypeOK, Rows

\* A step of the other components writes no order's status and makes no ticket
\* Purchased; nor does a cart step but MarkOrder, MarkTickets and Complete.
OnlyUnsells ==
    /\ \A i \in Items : line'[i].status = line[i].status
    /\ \A t \in Tickets :
          row'[t].status = "Purchased" =>
              SameSale(row[t], row'[t])

LEMMA UnsellingKeepsPaid ==
    ASSUME TypeOK, PurchasedIsPaidFor, OnlyUnsells
    PROVE  PurchasedIsPaidFor'
BY TicketItem DEF OnlyUnsells, SameSale, PurchasedIsPaidFor

LEMMA CartKeepsPaid ==
    ASSUME TypeOK, PurchasedIsPaidFor, CartStep
    PROVE  PurchasedIsPaidFor'
<1>0. PICK i \in Items :
        \/ \E h \in Holds \cup {Null}, T \in Some : Reserve(i, h, T)
        \/ \E T \in Some : Release(i, T)
        \/ MarkOrder(i)
        \/ MarkTickets(i)
        \/ Complete(i)
  BY DEF CartStep
<1>1. (\A t \in Tickets : row[t] \in Rows) /\ line \in [Items -> Lines]
  BY DEF TypeOK
<1>2. ASSUME NEW h \in Holds \cup {Null}, NEW T \in Some, Reserve(i, h, T)
      PROVE  OnlyUnsells
  <2>1. \A j \in Items : line'[j].status = line[j].status
    BY <1>1, <1>2 DEF Reserve, Lines
  <2>2. \A t \in Tickets : row'[t] = row[t] \/ row'[t].status = "Reserved"
    BY <1>1, <1>2, RowColumns DEF Reserve
  <2>3. QED
    BY <2>1, <2>2 DEF OnlyUnsells, SameSale
<1>3. ASSUME NEW T \in Some, Release(i, T)
      PROVE  OnlyUnsells
  <2>1. \A j \in Items : line'[j].status = line[j].status
    BY <1>1, <1>3 DEF Release, Lines
  <2>2. \A t \in Tickets : row'[t] = row[t] \/ row'[t].status = "Available"
    BY <1>1, <1>3, RowColumns DEF Release
  <2>3. QED
    BY <2>1, <2>2 DEF OnlyUnsells, SameSale
<1>4. ASSUME NEW t \in Tickets, row[t].status = "Purchased"
      PROVE  /\ row[t].item \in Items
             /\ line[row[t].item].status = "Paid"
             /\ row[t].key = row[t].item
  BY <1>4, TicketItem DEF PurchasedIsPaidFor
<1>5. CASE MarkOrder(i)
  <2>1. \A j \in Items \ {i} : line'[j] = line[j]
    BY <1>1, <1>5 DEF MarkOrder
  <2>2. row' = row /\ line[i].status # "Paid"
    BY <1>5 DEF MarkOrder
  <2>3. QED
    BY <1>4, <2>1, <2>2, NullAssumption DEF PurchasedIsPaidFor
<1>6. CASE MarkTickets(i)
  <2>1. (\A j \in Items \ {i} : line'[j] = line[j]) /\ line[i].status # "Paid"
    BY <1>1, <1>6 DEF MarkTickets
  <2>2. \A t \in Tickets : SameSale(row[t], row'[t])
    BY <1>1, <1>6, RowColumns DEF MarkTickets, SameSale
  <2>3. QED
    BY <1>4, <2>1, <2>2, NullAssumption DEF SameSale, PurchasedIsPaidFor
<1>7. CASE Complete(i)
  <2>1. (\A j \in Items \ {i} : line'[j] = line[j]) /\ line'[i].status = "Paid"
    BY <1>1, <1>7 DEF Complete, Lines
  <2>2. \A t \in Tickets :
          IF row[t].item = i THEN row'[t].item = i /\ row'[t].key = i
                             ELSE row'[t] = row[t]
    BY <1>1, <1>7, RowColumns DEF Complete
  <2>3. QED
    BY <1>4, <2>1, <2>2, NullAssumption DEF PurchasedIsPaidFor
<1>8. QED
  BY <1>0, <1>2, <1>3, <1>5, <1>6, <1>7, UnsellingKeepsPaid

\* What the steps of a transfer, of a hold and of a redemption do to a row: a
\* transfer changes owners only, and a hold takes no Purchased ticket.
LEMMA TransferRows ==
    ASSUME TypeOK, TransferStep
    PROVE  /\ line' = line
           /\ \A t \in Tickets :
                 SameSale(row[t], row'[t]) /\ row'[t].hold = row[t].hold
<1>1. \A t \in Tickets : row[t] \in Rows
  BY DEF TypeOK
<1>2. line' = line
  BY DEF TransferStep, AuthorizeRead, AuthorizeWrite, AuthorizeAbort,
         ReceiveRead, ReceiveWrite, ReceiveAbort
<1>3. ASSUME NEW t \in Tickets
      PROVE  SameSale(row[t], row'[t]) /\ row'[t].hold = row[t].hold
  <2>0. SameSale(row[t], row[t])
    BY DEF SameSale
  <2>1. CASE \E k \in Keys, u \in Users, T \in Some : AuthorizeRead(k, u, T)
    BY <1>1, <2>0, <2>1, RowColumns DEF AuthorizeRead
  <2>2. CASE \E k \in Keys : AuthorizeWrite(k)
    BY <1>1, <2>0, <2>2, RowColumns DEF AuthorizeWrite
  <2>3. CASE \E k \in Keys : AuthorizeAbort(k)
    BY <1>1, <2>0, <2>3, RowColumns DEF AuthorizeAbort
  <2>4. CASE \E u \in Users, k \in Keys : ReceiveRead(u, k)
    BY <1>1, <2>0, <2>4, RowColumns DEF ReceiveRead
  <2>5. CASE \E u \in Users : ReceiveWrite(u)
    BY <1>1, <2>0, <2>5, RowColumns DEF ReceiveWrite
  <2>6. CASE \E u \in Users : ReceiveAbort(u)
    BY <1>1, <2>0, <2>6, RowColumns DEF ReceiveAbort
  <2>7. QED
    BY <2>1, <2>2, <2>3, <2>4, <2>5, <2>6 DEF TransferStep
<1>4. QED
  BY <1>2, <1>3

LEMMA HoldRows ==
    ASSUME TypeOK, HoldStep
    PROVE  /\ line' = line
           /\ \A t \in Tickets :
                 /\ row'[t] = row[t]
                       \/ SameSale(row[t], row'[t]) \/ row'[t].status = "Nullified"
                 /\ row'[t].item = row[t].item
                 /\ row[t].status = "Purchased" => \/ row'[t] = row[t]
                                                  \/ row[t].item = Null
<1>1. \A t \in Tickets : row[t] \in Rows
  BY DEF TypeOK
<1>2. line' = line
  BY DEF HoldStep, AddToHold, ReleaseFromHold, Nullify
<1>3. ASSUME NEW t \in Tickets
      PROVE  /\ row'[t] = row[t]
                    \/ SameSale(row[t], row'[t]) \/ row'[t].status = "Nullified"
             /\ row'[t].item = row[t].item
             /\ row[t].status = "Purchased" => \/ row'[t] = row[t]
                                              \/ row[t].item = Null
  <2>1. CASE \E T \in Some : Nullify(T)
    BY <1>1, <2>1, RowColumns DEF Nullify, Nullifiable
  <2>2. CASE \E T \in Some, to \in Holds, from \in Holds \cup {Null} :
               AddToHold(to, from, T)
    BY <1>1, <2>2, RowColumns DEF AddToHold, Takeable, SameSale
  <2>3. CASE \E T \in Some, h \in Holds : ReleaseFromHold(h, T)
    BY <1>1, <2>3, RowColumns DEF ReleaseFromHold, Droppable, SameSale
  <2>4. QED
    BY <2>1, <2>2, <2>3 DEF HoldStep
<1>4. QED
  BY <1>2, <1>3

LEMMA DoorRows ==
    ASSUME TypeOK, DoorStep
    PROVE  /\ line' = line
           /\ \A t \in Tickets :
                 \/ row'[t] = row[t]
                 \/ /\ row'[t].status = "Redeemed"
                    /\ row'[t].item = row[t].item
                    /\ row'[t].hold = row[t].hold
<1>1. PICK s \in Scanners :
        (\E t \in Tickets, key \in Items : RedeemRead(s, t, key)) \/ RedeemWrite(s)
  BY DEF DoorStep
<1>2. CASE RedeemWrite(s)
  <2>1. scan[s] \in Tickets
    BY <1>2 DEF RedeemWrite, TypeOK
  <2>2. QED
    BY <1>2, <2>1, RowColumns DEF RedeemWrite, TypeOK
<1>3. QED
  BY <1>1, <1>2 DEF RedeemRead

\* A refund writes one row and one line; what it takes out of an order it has found
\* Purchased there.
LEMMA RefundRows ==
    ASSUME TypeOK, RefundStep
    PROVE  /\ \A i \in Items : line'[i].status = line[i].status
           /\ \A t \in Tickets :
                 \/ SameSale(row[t], row'[t]) /\ row'[t].hold = row[t].hold
                 \/ /\ row[t].status = "Purchased" /\ row'[t].status = "Available"
                    /\ GivenBack(t)
<1>0. (\A t \in Tickets : row[t] \in Rows) /\ line \in [Items -> Lines]
  BY DEF TypeOK
<1>1. PICK i \in Items :
        (\E t \in Tickets : RefundRead(i, t)) \/ RefundWrite(i) \/ RefundAbort(i)
  BY DEF RefundStep
<1>2. CASE (\E t \in Tickets : RefundRead(i, t)) \/ RefundAbort(i)
  BY <1>2 DEF RefundRead, RefundAbort, SameSale
<1>3. CASE RefundWrite(i)
  <2> DEFINE t == refund[i].ticket
  <2>1. t \in Tickets /\ row[t] \in Rows /\ Released(row[t]) \in Rows
    BY <1>3, RowOperations DEF RefundWrite, TypeOK, Refunding
  <2>2. /\ \A j \in Items : line'[j].status = line[j].status
        /\ line'[i].refunds = line[i].refunds + 1 /\ line[i].refunds \in Nat
    BY <1>0, <1>3 DEF RefundWrite, Lines
  <2>3. CASE refund[i].redeemed
    BY <1>3, <2>1, <2>2, <2>3, RowColumns DEF RefundWrite, TypeOK, SameSale
  <2>4. CASE ~refund[i].redeemed
    <3>1. row[t].item = refund[i].item /\ row[t].status = "Purchased"
      BY <1>3, <2>4 DEF RefundWrite, CanRelease, Releasable
    <3>2. row'[t].status = "Available"
      BY <1>3, <2>1, <2>4, RowColumns DEF RefundWrite, TypeOK, SameSale
    <3>3. \A u \in Tickets \ {t} : row'[u] = row[u]
      BY <1>3, <2>1 DEF RefundWrite, TypeOK
    <3>4. GivenBack(t)
      BY <2>2, <3>1 DEF GivenBack
    <3>5. QED
      BY <2>2, <3>1, <3>2, <3>3, <3>4 DEF SameSale
  <2>5. QED
    BY <2>3, <2>4
<1>4. QED
  BY <1>1, <1>2, <1>3

LEMMA OthersOnlyUnsell ==
    ASSUME TypeOK, HoldStep \/ DoorStep \/ TransferStep \/ RefundStep
    PROVE  OnlyUnsells
BY HoldRows, DoorRows, TransferRows, RefundRows DEF OnlyUnsells, SameSale

LEMMA NextPurchased == TypeOK /\ PurchasedIsPaidFor /\ [Next]_vars => PurchasedIsPaidFor'
<1> SUFFICES ASSUME TypeOK, PurchasedIsPaidFor, [Next]_vars
             PROVE  PurchasedIsPaidFor'
  OBVIOUS
<1>1. CASE HoldStep \/ DoorStep \/ TransferStep \/ RefundStep
  BY <1>1, OthersOnlyUnsell, UnsellingKeepsPaid
<1>2. CASE Tick \/ UNCHANGED vars
  BY <1>2 DEF Tick, vars, PurchasedIsPaidFor
<1>3. QED
  BY <1>1, <1>2, CartKeepsPaid DEF Next

\* A ticket is Purchased only in a paid order and under that order's key, for every
\* number of orders, holds, redemptions, transfers and refunds in flight:
\* complete_if_fully_paid is the one step that makes a ticket Purchased, and every
\* statement that takes a ticket out of an order resets its status.
THEOREM PurchasesArePaid == Spec => []PurchasedIsPaidFor
<1>1. Init => PurchasedIsPaidFor
  BY DEF Init, Issued, PurchasedIsPaidFor
<1>2. QED
  BY <1>1, NextPurchased, Typing, PTL DEF Spec

-----------------------------------------------------------------------------
(* What no step does to a ticket that is reserved or sold.                 *)

LEMMA CartRows ==
    ASSUME TypeOK, PurchasedIsPaidFor, CartStep
    PROVE  ReservationsKept /\ SalesKept
<1>0. PICK i \in Items :
        \/ \E h \in Holds \cup {Null}, T \in Some : Reserve(i, h, T)
        \/ \E T \in Some : Release(i, T)
        \/ MarkOrder(i)
        \/ MarkTickets(i)
        \/ Complete(i)
  BY DEF CartStep
<1>1. (\A t \in Tickets : row[t] \in Rows) /\ line \in [Items -> Lines]
  BY DEF TypeOK
<1>2. \A t \in Tickets : row[t].status = "Purchased" => row[t].item # Null
  BY DEF PurchasedIsPaidFor
<1>3. ASSUME NEW h \in Holds \cup {Null}, NEW T \in Some, Reserve(i, h, T)
      PROVE  ReservationsKept /\ SalesKept
  <2>1. \A t \in Tickets \ T : row'[t] = row[t]
    BY <1>3 DEF Reserve
  <2>2. \A t \in T :
          /\ row[t].status # "Purchased"
          /\ row[t].item = Null \/ Before(row[t].until, now)
    BY <1>2, <1>3, SomeTickets DEF Reserve, Takeable
  <2>3. QED
    BY <2>1, <2>2, NullAssumption DEF ReservationsKept, SalesKept
<1>4. ASSUME NEW T \in Some, Release(i, T)
      PROVE  ReservationsKept /\ SalesKept
  <2>1. \A t \in Tickets \ T : row'[t] = row[t]
    BY <1>4 DEF Release
  <2>2. \A t \in T : row[t].item = i /\ row[t].status = "Reserved"
    BY <1>4 DEF Release, Releasable
  <2>3. line'[i].quantity = line[i].quantity - Cardinality(T)
    BY <1>1, <1>4 DEF Release, Lines
  <2>4. line[i].quantity \in Nat
    BY <1>1 DEF Lines
  <2>5. line'[i] # line[i]
    BY <2>3, <2>4, SomeTickets
  <2>6. QED
    BY <2>1, <2>2, <2>5 DEF ReservationsKept, SalesKept
<1>5. CASE MarkOrder(i)
  BY <1>5 DEF MarkOrder, ReservationsKept, SalesKept
<1>6. CASE MarkTickets(i)
  <2>1. \A t \in Tickets :
          /\ row'[t].item = row[t].item
          /\ row'[t].status = row[t].status
          /\ row'[t].hold = row[t].hold
    BY <1>1, <1>6, RowColumns DEF MarkTickets, SameSale
  <2>2. QED
    BY <2>1 DEF ReservationsKept, SalesKept
<1>7. CASE Complete(i)
  <2>1. \A t \in Tickets :
          /\ row'[t].item = row[t].item
          /\ row'[t].status \in {row[t].status, "Purchased"}
          /\ row'[t].hold = row[t].hold
    BY <1>1, <1>7, RowColumns DEF Complete
  <2>2. QED
    BY <2>1 DEF ReservationsKept, SalesKept
<1>8. QED
  BY <1>0, <1>3, <1>4, <1>5, <1>6, <1>7

LEMMA RefundKeeps ==
    ASSUME TypeOK, RefundStep
    PROVE  ReservationsKept /\ SalesKept
<1>1. \A t \in Tickets :
        \/ SameSale(row[t], row'[t]) /\ row'[t].hold = row[t].hold
        \/ row[t].status = "Purchased" /\ GivenBack(t)
  BY RefundRows
<1>2. QED
  BY <1>1 DEF ReservationsKept, SalesKept, SameSale

LEMMA NextKeeps ==
    TypeOK /\ PurchasedIsPaidFor /\ [Next]_vars => [ReservationsKept]_vars /\ [SalesKept]_vars
<1> SUFFICES ASSUME TypeOK, PurchasedIsPaidFor, Next
             PROVE  ReservationsKept /\ SalesKept
  OBVIOUS
<1>1. CASE Tick
  BY <1>1 DEF Tick, ReservationsKept, SalesKept
<1>2. CASE HoldStep
  BY <1>2, HoldRows DEF ReservationsKept, SalesKept, PurchasedIsPaidFor
<1>3. CASE DoorStep
  BY <1>3, DoorRows DEF ReservationsKept, SalesKept
<1>4. CASE TransferStep
  BY <1>4, TransferRows DEF ReservationsKept, SalesKept, SameSale
<1>5. QED
  BY <1>1, <1>2, <1>3, <1>4, CartRows, RefundKeeps DEF Next

\* No step of another cart, a hold, a redemption or a transfer takes a ticket out of
\* an order before its reservation has lapsed; and a refund, of whatever order, only
\* one that is Purchased and that it has read and named in this sale.
THEOREM ReservationsAreExclusive == Spec => ReservationIsExclusive
BY NextKeeps, Typing, PurchasesArePaid, PTL DEF Spec, ReservationIsExclusive

\* A ticket that is Purchased leaves its order, its hold or the sold statuses only
\* by a refund that has read it in this very sale, however old its reservation is:
\* a refund that read an earlier sale of the ticket finds nothing to release.
THEOREM SalesAreKept == Spec => SoldStaysSold
BY NextKeeps, Typing, PurchasesArePaid, PTL DEF Spec, SoldStaysSold

-----------------------------------------------------------------------------
(***************************************************************************)
(* Proof that a live cart of TicketInstances holds what it counts.         *)
(***************************************************************************)

\* A live cart without an expiry is empty, so the expiry that set_expiry gives it is
\* that of all its tickets; and a ticket in an order is never Available, so a hold
\* cannot drop it.
CartInv ==
    /\ LiveCartHoldsItsTickets
    /\ \A i \in Items : Live(i) /\ line[i].expires = Null => line[i].quantity = 0
    /\ \A t \in Tickets : row[t].status = "Available" => row[t].item = Null

LEMMA CartColumns ==
    ASSUME NEW r \in Rows
    PROVE  /\ \A i, u : LET s == ReservedFor(r, i, u)
                        IN  /\ s.item = i /\ s.until = u
                            /\ s.hold = r.hold /\ s.status # "Available"
           /\ Released(r).item = Null
           /\ \A h : LET s == MovedToHold(r, h)
                     IN  s.item = r.item /\ s.status = r.status /\ s.until = r.until
           /\ \A m : Marked(r, m).until = r.until
           /\ \A w : InWallet(r, w).until = r.until
           /\ \A q : ReadBy(r, q).until = r.until /\ ForgottenBy(r, q).until = r.until
           /\ \A k, d : Offered(r, k, d).until = r.until
           /\ \A w : Received(r, w).until = r.until
BY DEF Rows, ReservedFor, Released, MovedToHold, Marked, InWallet, ReadBy,
       ForgottenBy, Offered, Received

\* The tickets of a live cart are not for the taking.
LEMMA LiveTickets ==
    ASSUME TypeOK, CartInv, NEW i \in Items, Live(i), NEW t \in Tickets, row[t].item = i
    PROVE  /\ \A h : ~Takeable(row[t], h, now) /\ ~Droppable(row[t], h, now)
           /\ ~Nullifiable(row[t])
<1>1. row[t].until = line[i].expires /\ ~Before(line[i].expires, now)
  BY DEF CartInv, LiveCartHoldsItsTickets, TicketsOf, Live
<1>2. row[t].item # Null /\ row[t].status # "Available"
  BY NullAssumption DEF CartInv
<1>3. QED
  BY <1>1, <1>2 DEF Takeable, Droppable, Nullifiable

\* A step that leaves the live carts and their tickets alone, and makes nothing
\* Available but what has no order.
SameCart(i) ==
    /\ line'[i].status = line[i].status /\ line'[i].expires = line[i].expires
    /\ line'[i].quantity = line[i].quantity /\ line'[i].hold = line[i].hold

Unconcerned ==
    /\ \A i \in Items : SameCart(i) /\ (Live(i)' => Live(i))
    /\ \A t \in Tickets :
          /\ \A i \in Items :
                Live(i) =>
                    /\ row'[t].item = i <=> row[t].item = i
                    /\ row[t].item = i =>
                          row'[t].until = row[t].until /\ row'[t].hold = row[t].hold
          /\ row'[t].status = "Available" => row'[t].item = Null

LEMMA UnconcernedKeeps ==
    ASSUME TypeOK, CartInv, Unconcerned
    PROVE  CartInv'
<1>1. ASSUME NEW i \in Items, Live(i)'
      PROVE  /\ Cardinality(TicketsOf(i))' = line'[i].quantity
             /\ \A t \in TicketsOf(i)' :
                   row'[t].until = line'[i].expires /\ row'[t].hold = line'[i].hold
             /\ line'[i].expires = Null => line'[i].quantity = 0
  <2>1. Live(i) /\ SameCart(i)
    BY <1>1 DEF Unconcerned
  <2>2. TicketsOf(i)' = TicketsOf(i)
    BY <2>1 DEF Unconcerned, TicketsOf
  <2>3. QED
    BY <2>1, <2>2 DEF CartInv, LiveCartHoldsItsTickets, Unconcerned, TicketsOf, SameCart
<1>2. QED
  BY <1>1 DEF CartInv, LiveCartHoldsItsTickets, Unconcerned

LEMMA ReserveKeeps ==
    ASSUME TypeOK, CartInv, NEW i \in Items, NEW h \in Holds \cup {Null}, NEW T \in Some,
           Reserve(i, h, T)
    PROVE  CartInv'
<1>1. (\A t \in Tickets : row[t] \in Rows) /\ line \in [Items -> Lines]
  BY DEF TypeOK
<1>2. T \subseteq Tickets /\ Live(i)
  BY SomeTickets DEF Reserve
<1>3. \A j \in Items, t \in T : Live(j) => row[t].item # j
  BY <1>2, LiveTickets DEF Reserve
<1>4. /\ line'[i].quantity = line[i].quantity + Cardinality(T)
      /\ line'[i].expires = Expiry(i) /\ line'[i].hold = h
      /\ line'[i].status = line[i].status
      /\ \A j \in Items \ {i} : line'[j] = line[j]
      /\ now' = now
  BY <1>1 DEF Reserve, Lines
<1>5. \A t \in Tickets :
        IF t \in T
        THEN /\ row'[t].item = i /\ row'[t].until = Expiry(i)
             /\ row'[t].hold = h /\ row'[t].status # "Available"
        ELSE row'[t] = row[t]
  BY <1>1, CartColumns DEF Reserve, Takeable
<1>6. Expiry(i) # Null
  BY NullAssumption, Deadlines, <1>1 DEF Expiry, TypeOK, Times
<1>7. TicketsOf(i)' = TicketsOf(i) \cup T
  BY <1>2, <1>5 DEF TicketsOf
<1>8. TicketsOf(i) \subseteq Tickets /\ TicketsOf(i) \cap T = {}
  BY <1>2, <1>3 DEF TicketsOf
<1>9. IsFiniteSet(TicketsOf(i)) /\ IsFiniteSet(T)
  BY <1>2, <1>8, TicketAssumption, FS_Subset
<1>10. Cardinality(TicketsOf(i) \cup T) = Cardinality(TicketsOf(i)) + Cardinality(T)
  <2>1. Cardinality(TicketsOf(i) \cap T) = 0
    BY <1>8, FS_EmptySet
  <2>2. Cardinality(TicketsOf(i)) \in Nat /\ Cardinality(T) \in Nat
    BY <1>9, FS_CardinalityType
  <2>3. Cardinality(TicketsOf(i) \cup T) =
           Cardinality(TicketsOf(i)) + Cardinality(T) - Cardinality(TicketsOf(i) \cap T)
    BY <1>9, FS_Union
  <2>4. QED
    BY <2>1, <2>2, <2>3
<1>11. /\ Cardinality(TicketsOf(i)) = line[i].quantity
       /\ \A t \in TicketsOf(i) : row[t].until = Expiry(i) /\ row[t].hold = h
  <2>1. /\ Cardinality(TicketsOf(i)) = line[i].quantity
        /\ \A t \in TicketsOf(i) :
              row[t].until = line[i].expires /\ row[t].hold = line[i].hold
    BY <1>2 DEF CartInv, LiveCartHoldsItsTickets
  <2>2. CASE line[i].quantity = 0
    <3>1. TicketsOf(i) = {}
      BY <1>9, <2>1, <2>2, FS_EmptySet
    <3>2. QED
      BY <2>1, <3>1
  <2>3. CASE line[i].quantity # 0
    BY <1>2, <2>1, <2>3 DEF CartInv, Expiry, Reserve
  <2>4. QED
    BY <2>2, <2>3
<1>12. ASSUME NEW j \in Items, Live(j)'
       PROVE  /\ Cardinality(TicketsOf(j))' = line'[j].quantity
              /\ \A t \in TicketsOf(j)' :
                    row'[t].until = line'[j].expires /\ row'[t].hold = line'[j].hold
              /\ line'[j].expires = Null => line'[j].quantity = 0
  <2>1. CASE j = i
    <3>1. Cardinality(TicketsOf(i))' = line'[i].quantity
      BY <1>4, <1>7, <1>10, <1>11
    <3>2. \A t \in TicketsOf(i)' :
             row'[t].until = line'[i].expires /\ row'[t].hold = line'[i].hold
      BY <1>2, <1>4, <1>5, <1>7, <1>8, <1>11
    <3>3. QED
      BY <1>4, <1>6, <2>1, <3>1, <3>2
  <2>2. CASE j # i
    <3>1. line'[j] = line[j] /\ Live(j)
      BY <1>4, <1>12, <2>2 DEF Live
    <3>2. TicketsOf(j)' = TicketsOf(j) /\ \A t \in TicketsOf(j) : row'[t] = row[t]
      BY <1>2, <1>3, <1>5, <2>2, <3>1 DEF TicketsOf
    <3>3. QED
      BY <3>1, <3>2 DEF CartInv, LiveCartHoldsItsTickets
  <2>3. QED
    BY <2>1, <2>2
<1>13. \A t \in Tickets : row'[t].status = "Available" => row'[t].item = Null
  BY <1>5 DEF CartInv
<1>14. QED
  BY <1>12, <1>13 DEF CartInv, LiveCartHoldsItsTickets

LEMMA ReleaseKeeps ==
    ASSUME TypeOK, CartInv, NEW i \in Items, NEW T \in Some, Release(i, T)
    PROVE  CartInv'
<1> DEFINE empty == line[i].quantity = Cardinality(T) /\ ~EventFee
<1>1. (\A t \in Tickets : row[t] \in Rows) /\ line \in [Items -> Lines]
  BY DEF TypeOK
<1>2. T \subseteq TicketsOf(i) /\ TicketsOf(i) \subseteq Tickets /\ Live(i)
  BY SomeTickets DEF Release, Releasable, TicketsOf
<1>3. /\ line'[i].quantity = line[i].quantity - Cardinality(T)
      /\ line'[i].expires = IF empty THEN Null ELSE line[i].expires
      /\ line'[i].hold = line[i].hold
      /\ \A j \in Items \ {i} : line'[j] = line[j]
      /\ now' = now
  BY <1>1 DEF Release, Lines
<1>4. \A t \in Tickets :
        IF t \in T THEN row'[t].item = Null ELSE row'[t] = row[t]
  BY <1>1, CartColumns DEF Release
<1>5. TicketsOf(i)' = TicketsOf(i) \ T
  BY <1>2, <1>4, NullAssumption DEF TicketsOf
<1>6. IsFiniteSet(TicketsOf(i)) /\ IsFiniteSet(T)
  BY <1>2, TicketAssumption, FS_Subset
<1>7. /\ Cardinality(TicketsOf(i)) = line[i].quantity
      /\ \A t \in TicketsOf(i) :
            row[t].until = line[i].expires /\ row[t].hold = line[i].hold
      /\ line[i].expires = Null => line[i].quantity = 0
  BY <1>2 DEF CartInv, LiveCartHoldsItsTickets
<1>8. Cardinality(TicketsOf(i) \ T) = Cardinality(TicketsOf(i)) - Cardinality(T)
  <2>1. TicketsOf(i) \cap T = T
    BY <1>2
  <2>2. QED
    BY <1>6, <2>1, FS_Difference
<1>9. Cardinality(T) \in Nat /\ Cardinality(T) > 0 /\ line[i].quantity \in Nat
  BY <1>1, SomeTickets DEF Lines
<1>10. /\ Cardinality(TicketsOf(i))' = line'[i].quantity
       /\ \A t \in TicketsOf(i)' :
             row'[t].until = line'[i].expires /\ row'[t].hold = line'[i].hold
       /\ line'[i].expires = Null => line'[i].quantity = 0
  <2>1. Cardinality(TicketsOf(i))' = line'[i].quantity
    BY <1>3, <1>5, <1>7, <1>8
  <2>2. CASE empty
    <3>1. line'[i].quantity = 0
      BY <1>3, <1>9, <2>2
    <3>2. IsFiniteSet(TicketsOf(i) \ T)
      BY <1>6, FS_Difference
    <3>3. TicketsOf(i)' = {}
      BY <1>5, <2>1, <3>1, <3>2, FS_EmptySet
    <3>4. QED
      BY <2>1, <3>1, <3>3
  <2>3. CASE ~empty
    <3>1. line'[i].expires = line[i].expires /\ line[i].expires # Null
      BY <1>2, <1>3, <1>7, <1>9, <2>3 DEF Release
    <3>2. QED
      BY <1>2, <1>3, <1>4, <1>5, <1>7, <2>1, <3>1
  <2>4. QED
    BY <2>2, <2>3
<1>11. ASSUME NEW j \in Items \ {i}, Live(j)'
       PROVE  /\ Cardinality(TicketsOf(j))' = line'[j].quantity
              /\ \A t \in TicketsOf(j)' :
                    row'[t].until = line'[j].expires /\ row'[t].hold = line'[j].hold
              /\ line'[j].expires = Null => line'[j].quantity = 0
  <2>1. line'[j] = line[j] /\ Live(j)
    BY <1>3, <1>11 DEF Live
  <2>2. TicketsOf(j)' = TicketsOf(j) /\ \A t \in TicketsOf(j) : row'[t] = row[t]
    BY <1>2, <1>4, NullAssumption DEF TicketsOf
  <2>3. QED
    BY <2>1, <2>2 DEF CartInv, LiveCartHoldsItsTickets
<1>12. \A t \in Tickets : row'[t].status = "Available" => row'[t].item = Null
  BY <1>4 DEF CartInv
<1>13. QED
  BY <1>10, <1>11, <1>12 DEF CartInv, LiveCartHoldsItsTickets

\* The two halves of a payment: the order is no cart any more.
LEMMA PaymentKeeps ==
    ASSUME TypeOK, CartInv, NEW i \in Items,
           MarkOrder(i) \/ MarkTickets(i) \/ Complete(i)
    PROVE  CartInv'
<1>1. (\A t \in Tickets : row[t] \in Rows) /\ line \in [Items -> Lines]
  BY DEF TypeOK
<1>2. /\ line'[i].status # "Draft" /\ now' = now
      /\ \A j \in Items \ {i} : line'[j] = line[j]
  BY <1>1 DEF MarkOrder, MarkTickets, Complete, Lines
<1>3. \A t \in Tickets :
        /\ row'[t].item = row[t].item
        /\ row'[t] = row[t] \/ row[t].item = i
        /\ row'[t].status \in {row[t].status, "Purchased"}
  <2>1. CASE MarkOrder(i)
    BY <2>1 DEF MarkOrder
  <2>2. CASE MarkTickets(i)
    BY <1>1, <2>2, RowColumns DEF MarkTickets, SameSale
  <2>3. CASE Complete(i)
    BY <1>1, <2>3, RowColumns DEF Complete
  <2>4. QED
    BY <2>1, <2>2, <2>3
<1>4. \A j \in Items : Live(j)' => j # i /\ Live(j) /\ line'[j] = line[j]
  BY <1>2 DEF Live
<1>5. \A t \in Tickets : row'[t].status = "Available" => row'[t].item = Null
  BY <1>3 DEF CartInv
<1>6. ASSUME NEW j \in Items, Live(j)'
      PROVE  /\ Cardinality(TicketsOf(j))' = line'[j].quantity
             /\ \A t \in TicketsOf(j)' :
                   row'[t].until = line'[j].expires /\ row'[t].hold = line'[j].hold
             /\ line'[j].expires = Null => line'[j].quantity = 0
  <2>1. j # i /\ Live(j) /\ line'[j] = line[j]
    BY <1>4, <1>6
  <2>2. TicketsOf(j)' = TicketsOf(j) /\ \A t \in TicketsOf(j) : row'[t] = row[t]
    BY <1>3, <2>1 DEF TicketsOf
  <2>3. QED
    BY <2>1, <2>2 DEF CartInv, LiveCartHoldsItsTickets
<1>7. QED
  BY <1>5, <1>6 DEF CartInv, LiveCartHoldsItsTickets

LEMMA HoldUnconcerned ==
    ASSUME TypeOK, CartInv, HoldStep
    PROVE  Unconcerned
<1>1. \A t \in Tickets : row[t] \in Rows
  BY DEF TypeOK
<1>2. line' = line /\ now' = now
  BY DEF HoldStep, AddToHold, ReleaseFromHold, Nullify
<1>3. ASSUME NEW t \in Tickets
      PROVE  /\ row'[t].item = row[t].item
             /\ row'[t] = row[t] \/ \A i \in Items : ~(Live(i) /\ row[t].item = i)
             /\ row'[t].status \in {row[t].status, "Nullified"}
  <2>1. CASE \E T \in Some : Nullify(T)
    <3>1. PICK T \in Some : Nullify(T)
      BY <2>1
    <3>2. row'[t] = IF t \in T THEN Marked(row[t], "Nullified") ELSE row[t]
      BY <3>1 DEF Nullify
    <3>3. t \in T => Nullifiable(row[t])
      BY <3>1 DEF Nullify
    <3>4. QED
      BY <1>1, <3>2, <3>3, RowColumns, LiveTickets
  <2>2. CASE \E T \in Some, to \in Holds, from \in Holds \cup {Null} :
               AddToHold(to, from, T)
    <3>1. PICK T \in Some, to \in Holds, from \in Holds \cup {Null} :
              AddToHold(to, from, T)
      BY <2>2
    <3>2. row'[t] = IF t \in T THEN MovedToHold(row[t], to) ELSE row[t]
      BY <3>1 DEF AddToHold
    <3>3. t \in T => Takeable(row[t], from, now)
      BY <3>1 DEF AddToHold
    <3>4. QED
      BY <1>1, <3>2, <3>3, CartColumns, LiveTickets
  <2>3. CASE \E T \in Some, h \in Holds : ReleaseFromHold(h, T)
    <3>1. PICK T \in Some, h \in Holds : ReleaseFromHold(h, T)
      BY <2>3
    <3>2. row'[t] = IF t \in T THEN MovedToHold(row[t], Null) ELSE row[t]
      BY <3>1 DEF ReleaseFromHold
    <3>3. t \in T => Droppable(row[t], h, now)
      BY <3>1 DEF ReleaseFromHold
    <3>4. QED
      BY <1>1, <3>2, <3>3, CartColumns, LiveTickets
  <2>4. QED
    BY <2>1, <2>2, <2>3 DEF HoldStep
<1>4. QED
  BY <1>2, <1>3 DEF Unconcerned, SameCart, Live, CartInv

LEMMA DoorUnconcerned ==
    ASSUME TypeOK, CartInv, DoorStep
    PROVE  Unconcerned
<1>1. \A t \in Tickets : row[t] \in Rows
  BY DEF TypeOK
<1>2. PICK s \in Scanners :
        (\E t \in Tickets, key \in Items : RedeemRead(s, t, key)) \/ RedeemWrite(s)
  BY DEF DoorStep
<1>3. line' = line /\ now' = now
  BY <1>2 DEF RedeemRead, RedeemWrite
<1>4. CASE RedeemWrite(s)
  <2>1. scan[s] \in Tickets
    BY <1>4 DEF RedeemWrite, TypeOK
  <2>2. \A t \in Tickets :
          /\ row'[t].item = row[t].item /\ row'[t].hold = row[t].hold
          /\ row'[t].until = row[t].until
          /\ row'[t].status \in {row[t].status, "Redeemed"}
    BY <1>1, <1>4, <2>1, RowColumns, CartColumns DEF RedeemWrite, TypeOK
  <2>3. QED
    BY <1>3, <2>2 DEF Unconcerned, SameCart, Live, CartInv
<1>5. CASE \E t \in Tickets, key \in Items : RedeemRead(s, t, key)
  BY <1>3, <1>5 DEF RedeemRead, Unconcerned, SameCart, Live, CartInv
<1>6. QED
  BY <1>2, <1>4, <1>5

LEMMA TransferUnconcerned ==
    ASSUME TypeOK, CartInv, TransferStep
    PROVE  Unconcerned
<1>1. \A t \in Tickets : row[t] \in Rows
  BY DEF TypeOK
<1>2. now' = now
  BY DEF TransferStep, AuthorizeRead, AuthorizeWrite, AuthorizeAbort,
         ReceiveRead, ReceiveWrite, ReceiveAbort
<1>3. ASSUME NEW t \in Tickets
      PROVE  row'[t].until = row[t].until
  <2>1. CASE \E k \in Keys, u \in Users, T \in Some : AuthorizeRead(k, u, T)
    BY <1>1, <2>1, CartColumns DEF AuthorizeRead
  <2>2. CASE \E k \in Keys : AuthorizeWrite(k)
    BY <1>1, <2>2, CartColumns DEF AuthorizeWrite
  <2>3. CASE \E k \in Keys : AuthorizeAbort(k)
    BY <1>1, <2>3, CartColumns DEF AuthorizeAbort
  <2>4. CASE \E u \in Users, k \in Keys : ReceiveRead(u, k)
    BY <1>1, <2>4, CartColumns DEF ReceiveRead
  <2>5. CASE \E u \in Users : ReceiveWrite(u)
    BY <1>1, <2>5, CartColumns DEF ReceiveWrite
  <2>6. CASE \E u \in Users : ReceiveAbort(u)
    BY <1>1, <2>6, CartColumns DEF ReceiveAbort
  <2>7. QED
    BY <2>1, <2>2, <2>3, <2>4, <2>5, <2>6 DEF TransferStep
<1>4. QED
  BY <1>2, <1>3, TransferRows DEF Unconcerned, SameCart, Live, CartInv, SameSale

\* A refund touches the tickets of no cart: what it releases is Purchased, so in
\* a paid order.
LEMMA RefundUnconcerned ==
    ASSUME TypeOK, PurchasedIsPaidFor, CartInv, RefundStep
    PROVE  Unconcerned
<1>1. (\A t \in Tickets : row[t] \in Rows) /\ line \in [Items -> Lines]
  BY DEF TypeOK
<1>2. PICK i \in Items :
        (\E t \in Tickets : RefundRead(i, t)) \/ RefundWrite(i) \/ RefundAbort(i)
  BY DEF RefundStep
<1>3. CASE (\E t \in Tickets : RefundRead(i, t)) \/ RefundAbort(i)
  BY <1>3 DEF RefundRead, RefundAbort, Unconcerned, SameCart, Live, CartInv
<1>4. CASE RefundWrite(i)
  <2> DEFINE t == refund[i].ticket
             s == Released(row[t])
  <2>1. t \in Tickets /\ row[t] \in Rows /\ s \in Rows
    BY <1>4, RowOperations DEF RefundWrite, TypeOK, Refunding
  <2>2. \A u \in Tickets \ {t} : row'[u] = row[u]
    BY <1>4, <2>1 DEF RefundWrite, TypeOK
  <2>3. now' = now /\ \A j \in Items : SameCart(j)
    BY <1>1, <1>4 DEF RefundWrite, SameCart, Lines
  <2>4. \A j \in Items : Live(j)' => Live(j)
    BY <2>3 DEF SameCart, Live
  <2>5. CASE refund[i].redeemed
    <3>1. row'[t] = InWallet(row[t], Org)
      BY <1>4, <2>1, <2>5 DEF RefundWrite, TypeOK
    <3>2. /\ row'[t].item = row[t].item /\ row'[t].status = row[t].status
          /\ row'[t].until = row[t].until /\ row'[t].hold = row[t].hold
      BY <2>1, <3>1, RowColumns, CartColumns DEF SameSale
    <3>3. QED
      BY <2>1, <2>2, <2>3, <2>4, <3>2 DEF Unconcerned, CartInv
  <2>6. CASE ~refund[i].redeemed
    <3>1. /\ row'[t] = InWallet(s, Org)
          /\ row[t].status = "Purchased"
      BY <1>4, <2>1, <2>6 DEF RefundWrite, CanRelease, Releasable, TypeOK
    <3>2. row[t].item \in Items /\ ~Live(row[t].item)
      BY <1>1, <2>1, <3>1 DEF PurchasedIsPaidFor, Live, Rows
    <3>3. row'[t].item = Null
      BY <2>1, <3>1, RowColumns, CartColumns DEF SameSale
    <3>4. QED
      BY <2>1, <2>2, <2>3, <2>4, <3>1, <3>2, <3>3, NullAssumption DEF Unconcerned, CartInv
  <2>7. QED
    BY <2>5, <2>6
<1>5. QED
  BY <1>2, <1>3, <1>4

LEMMA NextCarts == TypeOK /\ PurchasedIsPaidFor /\ CartInv /\ [Next]_vars => CartInv'
<1> SUFFICES ASSUME TypeOK, PurchasedIsPaidFor, CartInv, [Next]_vars
             PROVE  CartInv'
  OBVIOUS
<1>1. CASE CartStep
  BY <1>1, ReserveKeeps, ReleaseKeeps, PaymentKeeps DEF CartStep
<1>2. CASE HoldStep \/ DoorStep \/ TransferStep \/ RefundStep
  BY <1>2, HoldUnconcerned, DoorUnconcerned, TransferUnconcerned, RefundUnconcerned,
     UnconcernedKeeps
<1>3. CASE Tick
  <2>1. \A i \in Items : Live(i)' => Live(i)
    BY <1>3, TimeAssumption DEF Tick, Live, Before, TypeOK, Lines, Times
  <2>2. QED
    BY <1>3, <2>1, UnconcernedKeeps DEF Tick, Unconcerned, SameCart, CartInv
<1>4. CASE UNCHANGED vars
  <2>1. UNCHANGED <<now, row, line>>
    BY <1>4 DEF vars
  <2>2. QED
    BY <2>1, UnconcernedKeeps DEF Unconcerned, SameCart, CartInv, Live
<1>5. QED
  BY <1>1, <1>2, <1>3, <1>4 DEF Next

\* A cart that has not expired holds exactly the tickets its line counts, until its own
\* expiry and out of the hold it names, whatever other carts, holds, redemptions,
\* transfers and refunds do to the ticket type.
THEOREM CartsAreHonoured == Spec => []LiveCartHoldsItsTickets
<1>1. Init => CartInv
  <2> SUFFICES ASSUME Init
               PROVE  CartInv
    OBVIOUS
  <2>1. \A i \in Items : TicketsOf(i) = {}
    BY NullAssumption DEF Init, TicketsOf, Issued
  <2>2. \A i \in Items : line[i].quantity = 0
    BY DEF Init
  <2>3. \A t \in Tickets : row[t].item = Null
    BY DEF Init, Issued
  <2>4. QED
    BY <2>1, <2>2, <2>3, FS_EmptySet DEF CartInv, LiveCartHoldsItsTickets
<1>2. CartInv => LiveCartHoldsItsTickets
  BY DEF CartInv
<1>3. QED
  BY <1>1, <1>2, NextCarts, Typing, PurchasesArePaid, PTL DEF Spec

-----------------------------------------------------------------------------
(***************************************************************************)
(* Proofs about the transfers of TicketInstances: a transfer is whole, and *)
(* owners consent, whatever else happens to the rows meanwhile.            *)
(***************************************************************************)

\* What makes the optimistic writes safe.  A row carries only the key of an issued
\* authorization of that row; a request that receives has found every ticket of
\* its authorization; and as long as its mark is on a row, the row carries that
\* key and is still the sender's.
TransferInv ==
    /\ \A t \in Tickets, k \in Keys :
          row[t].transfer = k => auth[k].stage = "issued" /\ t \in auth[k].tickets
    /\ \A u \in Users :
          recv[u] # NoTransfer =>
              /\ recv[u].key \in Keys
              /\ auth[recv[u].key].stage = "issued"
              /\ recv[u].tickets = auth[recv[u].key].tickets
    /\ \A u \in Users : \A t \in recv[u].tickets :
          u \in row[t].readers =>
              /\ row[t].transfer = recv[u].key
              /\ row[t].wallet = auth[recv[u].key].sender

\* A write to a row that is no part of a transfer: it leaves key and wallet alone,
\* or ends every request that has read the row.
Steady(r, s) ==
    /\ s.transfer \in {r.transfer, Null}
    /\ \/ s.readers = {}
       \/ s.readers = r.readers /\ s.transfer = r.transfer /\ s.wallet = r.wallet

\* What the statements do to the key, the wallet and the readers.
LEMMA TransferColumns ==
    ASSUME NEW r \in Rows
    PROVE  /\ Steady(r, r)
           /\ \A i, u : LET s == ReservedFor(r, i, u)
                        IN  Steady(r, s) /\ s.transfer = r.transfer /\ s.wallet = r.wallet
           /\ LET s == Released(r) IN Steady(r, s) /\ s.wallet = r.wallet
           /\ \A h : LET s == MovedToHold(r, h)
                     IN  Steady(r, s) /\ s.transfer = r.transfer /\ s.wallet = r.wallet
           /\ \A u : LET s == KeptUntil(r, u)
                     IN  Steady(r, s) /\ s.transfer = r.transfer /\ s.wallet = r.wallet
           /\ \A i, w : LET s == PurchasedBy(r, i, w)
                        IN  Steady(r, s) /\ s.transfer = r.transfer
           /\ \A w : LET s == InWallet(r, w)
                     IN  Steady(r, s) /\ s.transfer = r.transfer /\ s.wallet = w
           /\ \A m : LET s == Marked(r, m)
                     IN  Steady(r, s) /\ s.transfer = r.transfer /\ s.wallet = r.wallet
           /\ \A q : LET s == ReadBy(r, q)
                     IN  /\ s.transfer = r.transfer /\ s.wallet = r.wallet
                         /\ s.readers = r.readers \cup {q}
           /\ \A q : LET s == ForgottenBy(r, q)
                     IN  /\ s.transfer = r.transfer /\ s.wallet = r.wallet
                         /\ s.readers = r.readers \ {q}
           /\ \A k, d : LET s == Offered(r, k, d)
                        IN  s.transfer = k /\ s.wallet = r.wallet /\ s.readers = {}
           /\ \A w : LET s == Received(r, w)
                     IN  s.transfer = Null /\ s.wallet = w /\ s.readers = {}
BY DEF Rows, Steady, ReservedFor, Released, MovedToHold, KeptUntil, PurchasedBy,
       InWallet, Marked, ReadBy, ForgottenBy, Offered, Received

LEMMA SteadyKeeps ==
    ASSUME TypeOK, TransferInv, UNCHANGED <<auth, recv>>,
           \A t \in Tickets : Steady(row[t], row'[t])
    PROVE  TransferInv'
<1>1. \A u \in Users : recv[u].tickets \subseteq Tickets
  BY DEF TypeOK
<1>2. ASSUME NEW t \in Tickets, NEW k \in Keys, row'[t].transfer = k
      PROVE  auth'[k].stage = "issued" /\ t \in auth'[k].tickets
  BY <1>2, NullAssumption DEF TransferInv, Steady
<1>3. ASSUME NEW u \in Users, NEW t \in recv'[u].tickets, u \in row'[t].readers
      PROVE  /\ row'[t].transfer = recv'[u].key
             /\ row'[t].wallet = auth'[recv'[u].key].sender
  BY <1>1, <1>3 DEF TransferInv, Steady
<1>4. QED
  BY <1>2, <1>3 DEF TransferInv

\* The steps of carts, holds, redemptions and refunds are steady; where one clears
\* a key it resets the status, and where one changes an owner it is a purchase or
\* a refund.
SteadyStep ==
    /\ UNCHANGED <<auth, recv>>
    /\ \A t \in Tickets :
          /\ Steady(row[t], row'[t])
          /\ row'[t].transfer = row[t].transfer \/ row'[t].status # row[t].status
          /\ \/ row'[t].wallet \in {row[t].wallet, Org}
             \/ row[t].status # "Purchased" /\ row'[t].status = "Purchased"

LEMMA CartIsSteady ==
    ASSUME TypeOK, PurchasedIsPaidFor, CartStep
    PROVE  SteadyStep
<1>0. PICK i \in Items :
        \/ \E h \in Holds \cup {Null}, T \in Some : Reserve(i, h, T)
        \/ \E T \in Some : Release(i, T)
        \/ MarkOrder(i)
        \/ MarkTickets(i)
        \/ Complete(i)
  BY DEF CartStep
<1>1. \A t \in Tickets : row[t] \in Rows
  BY DEF TypeOK
<1>2. UNCHANGED <<auth, recv>>
  BY <1>0 DEF Reserve, Release, MarkOrder, MarkTickets, Complete
<1>3. ASSUME NEW h \in Holds \cup {Null}, NEW T \in Some, Reserve(i, h, T)
      PROVE  SteadyStep
  BY <1>1, <1>2, <1>3, TransferColumns DEF Reserve, SteadyStep
<1>4. ASSUME NEW T \in Some, Release(i, T)
      PROVE  SteadyStep
  BY <1>1, <1>2, <1>4, TransferColumns, RowColumns DEF Release, Releasable, SteadyStep
<1>5. CASE MarkOrder(i)
  BY <1>1, <1>2, <1>5, TransferColumns DEF MarkOrder, SteadyStep
<1>6. CASE MarkTickets(i)
  BY <1>1, <1>2, <1>6, TransferColumns DEF MarkTickets, SteadyStep
<1>7. CASE Complete(i)
  <2>1. \A t \in Tickets : row[t].item = i => row[t].status # "Purchased"
    BY <1>7 DEF Complete, PurchasedIsPaidFor
  <2>2. QED
    BY <1>1, <1>2, <1>7, <2>1, TransferColumns, RowColumns DEF Complete, SteadyStep
<1>8. QED
  BY <1>0, <1>3, <1>4, <1>5, <1>6, <1>7

LEMMA HoldIsSteady ==
    ASSUME TypeOK, HoldStep
    PROVE  SteadyStep
<1>1. \A t \in Tickets : row[t] \in Rows
  BY DEF TypeOK
<1>2. UNCHANGED <<auth, recv>>
  BY DEF HoldStep, AddToHold, ReleaseFromHold, Nullify
<1>3. CASE \E T \in Some : Nullify(T)
  BY <1>1, <1>2, <1>3, TransferColumns DEF Nullify, SteadyStep
<1>4. CASE \E T \in Some, to \in Holds, from \in Holds \cup {Null} : AddToHold(to, from, T)
  BY <1>1, <1>2, <1>4, TransferColumns DEF AddToHold, SteadyStep
<1>5. CASE \E T \in Some, h \in Holds : ReleaseFromHold(h, T)
  BY <1>1, <1>2, <1>5, TransferColumns DEF ReleaseFromHold, SteadyStep
<1>6. QED
  BY <1>3, <1>4, <1>5 DEF HoldStep

LEMMA DoorIsSteady ==
    ASSUME TypeOK, DoorStep
    PROVE  SteadyStep
<1>1. \A t \in Tickets : row[t] \in Rows
  BY DEF TypeOK
<1>2. PICK s \in Scanners :
        (\E t \in Tickets, key \in Items : RedeemRead(s, t, key)) \/ RedeemWrite(s)
  BY DEF DoorStep
<1>3. CASE RedeemWrite(s)
  <2>1. scan[s] \in Tickets
    BY <1>3 DEF RedeemWrite, TypeOK
  <2>2. QED
    BY <1>1, <1>3, <2>1, TransferColumns DEF RedeemWrite, SteadyStep, TypeOK
<1>4. CASE \E t \in Tickets, key \in Items : RedeemRead(s, t, key)
  BY <1>1, <1>4, TransferColumns DEF RedeemRead, SteadyStep
<1>5. QED
  BY <1>2, <1>3, <1>4

LEMMA RefundIsSteady ==
    ASSUME TypeOK, RefundStep
    PROVE  SteadyStep
<1>1. \A t \in Tickets : row[t] \in Rows
  BY DEF TypeOK
<1>2. PICK i \in Items :
        (\E t \in Tickets : RefundRead(i, t)) \/ RefundWrite(i) \/ RefundAbort(i)
  BY DEF RefundStep
<1>3. CASE (\E t \in Tickets : RefundRead(i, t)) \/ RefundAbort(i)
  BY <1>1, <1>3, TransferColumns DEF RefundRead, RefundAbort, SteadyStep
<1>4. CASE RefundWrite(i)
  <2> DEFINE t == refund[i].ticket
             s == Released(row[t])
  <2>1. t \in Tickets /\ row[t] \in Rows /\ s \in Rows
    BY <1>4, RowOperations DEF RefundWrite, TypeOK, Refunding
  <2>2. \A u \in Tickets \ {t} : row'[u] = row[u]
    BY <1>4, <2>1 DEF RefundWrite, TypeOK
  <2>3. CASE refund[i].redeemed
    <3>1. row'[t] = InWallet(row[t], Org)
      BY <1>4, <2>1, <2>3 DEF RefundWrite, TypeOK
    <3>2. QED
      BY <1>1, <1>4, <2>1, <2>2, <3>1, TransferColumns DEF RefundWrite, SteadyStep
  <2>4. CASE ~refund[i].redeemed
    <3>1. row'[t] = InWallet(s, Org) /\ row[t].status = "Purchased"
      BY <1>4, <2>1, <2>4 DEF RefundWrite, CanRelease, Releasable, TypeOK
    <3>2. s.status = "Available" /\ s.transfer \in {row[t].transfer, Null}
      BY <2>1, RowColumns, TransferColumns DEF Steady
    <3>3. row'[t].status = "Available" /\ row'[t].transfer = s.transfer
      BY <2>1, <3>1, <3>2, RowColumns, TransferColumns DEF SameSale
    <3>4. row'[t].readers = {} /\ row'[t].wallet = Org
      BY <2>1, <3>1 DEF InWallet, Rows
    <3>5. Steady(row[t], row'[t])
      BY <3>2, <3>3, <3>4 DEF Steady
    <3>6. \A u \in Tickets \ {t} : Steady(row[u], row'[u])
      BY <1>1, <2>2, TransferColumns
    <3>7. UNCHANGED <<auth, recv>>
      BY <1>4 DEF RefundWrite
    <3>8. row'[t].status # row[t].status
      BY <3>1, <3>2, <3>3
    <3>9. QED
      BY <2>1, <2>2, <3>4, <3>5, <3>6, <3>7, <3>8 DEF SteadyStep
  <2>5. QED
    BY <2>3, <2>4
<1>5. QED
  BY <1>2, <1>3, <1>4

LEMMA SteadySteps ==
    ASSUME TypeOK, PurchasedIsPaidFor, Next, ~TransferStep
    PROVE  SteadyStep
<1>1. CASE Tick
  BY <1>1, TransferColumns DEF Tick, SteadyStep, TypeOK
<1>2. QED
  BY <1>1, CartIsSteady, HoldIsSteady, DoorIsSteady, RefundIsSteady DEF Next

-----------------------------------------------------------------------------
(* The steps of a transfer.                                                *)

LEMMA AuthorizeKeeps ==
    ASSUME TypeOK, TransferInv, NEW k \in Keys,
           \/ \E u \in Users, T \in Some : AuthorizeRead(k, u, T)
           \/ AuthorizeWrite(k)
           \/ AuthorizeAbort(k)
    PROVE  TransferInv'
<1>1. \A t \in Tickets : row[t] \in Rows
  BY DEF TypeOK
<1>2. k \notin Users
  BY KeyAssumption
<1>3. \A u \in Users : recv[u].tickets \subseteq Tickets
  BY DEF TypeOK
<1>4. recv' = recv /\ auth[k].stage # "issued"
  BY DEF AuthorizeRead, AuthorizeWrite, AuthorizeAbort
<1>5. \A j \in Keys \ {k} : auth'[j] = auth[j]
  BY DEF AuthorizeRead, AuthorizeWrite, AuthorizeAbort, TypeOK
<1>6. \A u \in Users : recv[u] # NoTransfer => recv[u].key \in Keys \ {k}
  BY <1>4 DEF TransferInv
<1>7. \A t \in Tickets, j \in Keys : row[t].transfer = j => j # k
  BY <1>4 DEF TransferInv
<1>8. CASE AuthorizeWrite(k)
  <2>1. auth'[k].stage = "issued" /\ auth'[k].tickets = auth[k].tickets
    BY <1>8 DEF AuthorizeWrite, TypeOK, Auths
  <2>2. \A t \in Tickets :
          IF t \in auth[k].tickets THEN row'[t].transfer = k /\ row'[t].readers = {}
                                   ELSE row'[t] = row[t]
    BY <1>1, <1>8, TransferColumns DEF AuthorizeWrite
  <2>3. ASSUME NEW t \in Tickets, NEW j \in Keys, row'[t].transfer = j
        PROVE  auth'[j].stage = "issued" /\ t \in auth'[j].tickets
    BY <1>5, <1>7, <2>1, <2>2, <2>3 DEF TransferInv
  <2>4. ASSUME NEW u \in Users, recv'[u] # NoTransfer
        PROVE  /\ recv'[u].key \in Keys
               /\ auth'[recv'[u].key].stage = "issued"
               /\ recv'[u].tickets = auth'[recv'[u].key].tickets
    BY <1>4, <1>5, <1>6, <2>4 DEF TransferInv
  <2>5. ASSUME NEW u \in Users, NEW t \in recv'[u].tickets, u \in row'[t].readers
        PROVE  /\ row'[t].transfer = recv'[u].key
               /\ row'[t].wallet = auth'[recv'[u].key].sender
    <3>1. t \in Tickets /\ row'[t] = row[t] /\ recv[u] # NoTransfer
      BY <1>3, <1>4, <2>2, <2>5 DEF NoTransfer
    <3>2. QED
      BY <1>4, <1>5, <1>6, <2>5, <3>1 DEF TransferInv
  <2>6. QED
    BY <2>3, <2>4, <2>5 DEF TransferInv
<1>9. CASE (\E u \in Users, T \in Some : AuthorizeRead(k, u, T)) \/ AuthorizeAbort(k)
  <2>1. \A t \in Tickets :
          /\ row'[t].transfer = row[t].transfer
          /\ row'[t].wallet = row[t].wallet
          /\ \A u \in Users : u \in row'[t].readers => u \in row[t].readers
    BY <1>1, <1>2, <1>9, TransferColumns DEF AuthorizeRead, AuthorizeAbort
  <2>2. ASSUME NEW t \in Tickets, NEW j \in Keys, row'[t].transfer = j
        PROVE  auth'[j].stage = "issued" /\ t \in auth'[j].tickets
    BY <1>5, <1>7, <2>1, <2>2 DEF TransferInv
  <2>3. ASSUME NEW u \in Users, recv'[u] # NoTransfer
        PROVE  /\ recv'[u].key \in Keys
               /\ auth'[recv'[u].key].stage = "issued"
               /\ recv'[u].tickets = auth'[recv'[u].key].tickets
    BY <1>4, <1>5, <1>6, <2>3 DEF TransferInv
  <2>4. ASSUME NEW u \in Users, NEW t \in recv'[u].tickets, u \in row'[t].readers
        PROVE  /\ row'[t].transfer = recv'[u].key
               /\ row'[t].wallet = auth'[recv'[u].key].sender
    <3>1. t \in Tickets /\ recv[u] # NoTransfer
      BY <1>3, <1>4, <2>4 DEF NoTransfer
    <3>2. QED
      BY <1>4, <1>5, <1>6, <2>1, <2>4, <3>1 DEF TransferInv
  <2>5. QED
    BY <2>2, <2>3, <2>4 DEF TransferInv
<1>10. QED
  BY <1>8, <1>9

LEMMA ReceiveReadKeeps ==
    ASSUME TypeOK, TransferInv, NEW u \in Users, NEW k \in Keys, ReceiveRead(u, k)
    PROVE  TransferInv'
<1> DEFINE found == {t \in Carrying(k) : row[t].lapse > now}
<1>1. \A t \in Tickets : row[t] \in Rows
  BY DEF TypeOK
<1>2. found \subseteq auth[k].tickets /\ found \subseteq Tickets
  BY DEF TransferInv, Carrying
<1>3. auth[k].tickets \subseteq Tickets
  BY DEF TypeOK, Auths
<1>4. Cardinality(found) = Cardinality(auth[k].tickets)
  BY DEF ReceiveRead
<1>5. found = auth[k].tickets
  BY <1>2, <1>3, <1>4, TicketAssumption, FS_Subset
<1>6. /\ recv'[u] = [key |-> k, tickets |-> found]
      /\ \A v \in Users \ {u} : recv'[v] = recv[v]
      /\ auth' = auth /\ auth[k].stage = "issued"
      /\ \A t \in found : row[t].transfer = k /\ row[t].wallet = auth[k].sender
  BY DEF ReceiveRead, Carrying, TypeOK
<1>7. \A t \in Tickets :
        /\ row'[t].transfer = row[t].transfer
        /\ row'[t].wallet = row[t].wallet
        /\ \A v \in Users \ {u} : v \in row'[t].readers => v \in row[t].readers
  BY <1>1, TransferColumns DEF ReceiveRead
<1>8. ASSUME NEW t \in Tickets, NEW j \in Keys, row'[t].transfer = j
      PROVE  auth'[j].stage = "issued" /\ t \in auth'[j].tickets
  BY <1>6, <1>7, <1>8 DEF TransferInv
<1>9. ASSUME NEW v \in Users, recv'[v] # NoTransfer
      PROVE  /\ recv'[v].key \in Keys
             /\ auth'[recv'[v].key].stage = "issued"
             /\ recv'[v].tickets = auth'[recv'[v].key].tickets
  <2>1. CASE v = u
    <3>1. recv'[v].key = k /\ recv'[v].tickets = found
      BY <1>6, <2>1
    <3>2. QED
      BY <1>5, <1>6, <3>1
  <2>2. CASE v # u
    BY <1>6, <1>9, <2>2 DEF TransferInv
  <2>3. QED
    BY <2>1, <2>2
<1>10. ASSUME NEW v \in Users, NEW t \in recv'[v].tickets, v \in row'[t].readers
       PROVE  /\ row'[t].transfer = recv'[v].key
              /\ row'[t].wallet = auth'[recv'[v].key].sender
  <2>1. CASE v = u
    BY <1>2, <1>6, <1>7, <2>1
  <2>2. CASE v # u
    <3>1. t \in Tickets /\ t \in recv[v].tickets
      BY <1>6, <2>2 DEF TypeOK
    <3>2. QED
      BY <1>6, <1>7, <1>10, <2>2, <3>1 DEF TransferInv
  <2>3. QED
    BY <2>1, <2>2
<1>11. QED
  BY <1>8, <1>9, <1>10 DEF TransferInv

LEMMA ReceiveEndKeeps ==
    ASSUME TypeOK, TransferInv, NEW u \in Users, ReceiveWrite(u) \/ ReceiveAbort(u)
    PROVE  TransferInv'
<1>1. \A t \in Tickets : row[t] \in Rows
  BY DEF TypeOK
<1>2. /\ recv'[u] = NoTransfer
      /\ \A v \in Users \ {u} : recv'[v] = recv[v]
      /\ auth' = auth
  BY DEF ReceiveWrite, ReceiveAbort, TypeOK
<1>3. \A t \in Tickets :
        /\ row'[t].transfer \in {row[t].transfer, Null}
        /\ \/ row'[t].readers = {}
           \/ /\ row'[t].transfer = row[t].transfer
              /\ row'[t].wallet = row[t].wallet
              /\ row'[t].readers \subseteq row[t].readers
  BY <1>1, TransferColumns DEF ReceiveWrite, ReceiveAbort
<1>4. ASSUME NEW t \in Tickets, NEW j \in Keys, row'[t].transfer = j
      PROVE  auth'[j].stage = "issued" /\ t \in auth'[j].tickets
  BY <1>2, <1>3, <1>4, NullAssumption DEF TransferInv
<1>5. ASSUME NEW v \in Users, recv'[v] # NoTransfer
      PROVE  /\ recv'[v].key \in Keys
             /\ auth'[recv'[v].key].stage = "issued"
             /\ recv'[v].tickets = auth'[recv'[v].key].tickets
  BY <1>2, <1>5 DEF TransferInv
<1>6. ASSUME NEW v \in Users, NEW t \in recv'[v].tickets, v \in row'[t].readers
      PROVE  /\ row'[t].transfer = recv'[v].key
             /\ row'[t].wallet = auth'[recv'[v].key].sender
  <2>1. v # u
    BY <1>2, <1>6 DEF NoTransfer
  <2>2. t \in Tickets /\ t \in recv[v].tickets
    BY <1>2, <2>1 DEF TypeOK
  <2>3. QED
    BY <1>2, <1>3, <1>6, <2>1, <2>2 DEF TransferInv
<1>7. QED
  BY <1>4, <1>5, <1>6 DEF TransferInv

LEMMA NextTransfer == TypeOK /\ PurchasedIsPaidFor /\ TransferInv /\ [Next]_vars => TransferInv'
<1> SUFFICES ASSUME TypeOK, PurchasedIsPaidFor, TransferInv, [Next]_vars
             PROVE  TransferInv'
  OBVIOUS
<1>1. CASE TransferStep
  BY <1>1, AuthorizeKeeps, ReceiveReadKeeps, ReceiveEndKeeps DEF TransferStep
<1>2. CASE Next /\ ~TransferStep
  BY <1>2, SteadySteps, SteadyKeeps DEF SteadyStep
<1>3. CASE UNCHANGED vars
  <2>1. UNCHANGED <<row, auth, recv>>
    BY <1>3 DEF vars
  <2>2. QED
    BY <2>1 DEF TransferInv
<1>4. QED
  BY <1>1, <1>2, <1>3

LEMMA TransferInvariant == Spec => []TransferInv
<1>1. Init => TransferInv
  BY NullAssumption DEF Init, TransferInv, Issued, NoTransfer
<1>2. QED
  BY <1>1, NextTransfer, Typing, PurchasesArePaid, PTL DEF Spec

\* Receiving is the one transfer step that clears a key or changes an owner.
LEMMA ReceiveIsWhole ==
    ASSUME TypeOK, TransferInv, TransferStep
    PROVE  TransfersWhole /\ ConsentGiven
<1>1. \A t \in Tickets : row[t] \in Rows
  BY DEF TypeOK
<1>2. CASE \E u \in Users : ReceiveWrite(u)
  <2>1. PICK u \in Users : ReceiveWrite(u)
    BY <1>2
  <2> DEFINE j == recv[u].key
  <2>2. /\ recv[u].tickets = auth[j].tickets
        /\ j \in Keys
        /\ recv[u].tickets \subseteq Tickets
    BY <2>1 DEF ReceiveWrite, TransferInv, TypeOK
  <2>3. \A t \in recv[u].tickets : row[t].transfer = j /\ row[t].wallet = auth[j].sender
    BY <2>1 DEF ReceiveWrite, Unchanged, TransferInv
  <2>4. \A t \in Tickets \ recv[u].tickets : row'[t] = row[t]
    BY <2>1 DEF ReceiveWrite
  <2>5. \A t \in recv[u].tickets :
          row'[t].transfer = Null /\ row'[t].status = row[t].status
    BY <1>1, <2>1, <2>2, TransferColumns, RowColumns DEF ReceiveWrite, SameSale
  <2>6. \A t \in Tickets, k \in Keys : ReceivedBy(t, k) => k = j
    BY <2>3, <2>4, NullAssumption DEF ReceivedBy
  <2>7. TransfersWhole
    <3> SUFFICES ASSUME NEW k \in Keys, NEW t0 \in Tickets, ReceivedBy(t0, k),
                        NEW t \in auth[k].tickets
                 PROVE  ReceivedBy(t, k) /\ row[t].wallet = auth[k].sender
      BY DEF TransfersWhole
    <3>1. k = j
      BY <2>6
    <3>2. QED
      BY <2>2, <2>3, <2>5, <3>1 DEF ReceivedBy
  <2>8. ConsentGiven
    BY <2>2, <2>3, <2>4 DEF ConsentGiven
  <2>9. QED
    BY <2>7, <2>8
<1>3. CASE ~\E u \in Users : ReceiveWrite(u)
  <2>1. ASSUME NEW t \in Tickets
        PROVE  /\ row'[t].wallet = row[t].wallet
               /\ row'[t].transfer \in Keys \cup {row[t].transfer}
    <3>1. CASE \E k \in Keys, u \in Users, T \in Some : AuthorizeRead(k, u, T)
      BY <1>1, <3>1, TransferColumns DEF AuthorizeRead
    <3>2. CASE \E k \in Keys : AuthorizeWrite(k)
      BY <1>1, <3>2, TransferColumns DEF AuthorizeWrite
    <3>3. CASE \E k \in Keys : AuthorizeAbort(k)
      BY <1>1, <3>3, TransferColumns DEF AuthorizeAbort
    <3>4. CASE \E u \in Users, k \in Keys : ReceiveRead(u, k)
      BY <1>1, <3>4, TransferColumns DEF ReceiveRead
    <3>5. CASE \E u \in Users : ReceiveAbort(u)
      BY <1>1, <3>5, TransferColumns DEF ReceiveAbort
    <3>6. QED
      BY <1>3, <3>1, <3>2, <3>3, <3>4, <3>5 DEF TransferStep
  <2>2. \A t \in Tickets, k \in Keys : ~ReceivedBy(t, k)
    BY <2>1, NullAssumption DEF ReceivedBy
  <2>3. QED
    BY <2>1, <2>2 DEF TransfersWhole, ConsentGiven
<1>4. QED
  BY <1>2, <1>3

LEMMA NextWhole ==
    TypeOK /\ PurchasedIsPaidFor /\ TransferInv /\ [Next]_vars
        => [TransfersWhole]_vars /\ [ConsentGiven]_vars
<1> SUFFICES ASSUME TypeOK, PurchasedIsPaidFor, TransferInv, Next
             PROVE  TransfersWhole /\ ConsentGiven
  OBVIOUS
<1>1. CASE TransferStep
  BY <1>1, ReceiveIsWhole
<1>2. CASE ~TransferStep
  <2>1. \A t \in Tickets, k \in Keys : ~ReceivedBy(t, k)
    BY <1>2, SteadySteps, NullAssumption DEF SteadyStep, ReceivedBy
  <2>2. QED
    BY <1>2, <2>1, SteadySteps, WalletAssumption
       DEF SteadyStep, TransfersWhole, ConsentGiven
<1>3. QED
  BY <1>1, <1>2

\* A transfer moves all the tickets of its authorization in one step, each out of the
\* sender's wallet, or it moves none: however many receivers race for a key,
\* and whatever re-authorizations, refunds and purchases come between.
THEOREM TransfersAreWhole == Spec => TransferIsWhole
BY NextWhole, Typing, PurchasesArePaid, TransferInvariant, PTL DEF Spec, TransferIsWhole

\* A user loses a ticket to another user only by a purchase of a ticket that was not
\* sold, or by an authorization that this very user gave for it.
THEOREM OwnersMustConsent == Spec => OwnersConsent
BY NextWhole, Typing, PurchasesArePaid, TransferInvariant, PTL DEF Spec, OwnersConsent

-----------------------------------------------------------------------------
(***************************************************************************)
(* The tickets of TicketInstances implement Sale, for every number of      *)
(* tickets, orders, holds and requests.                                    *)
(***************************************************************************)

View == <<PaidItems, SoldTo, UsedTickets, RefundsOf>>

\* What the sale sees of a row and of an order stays the same.
RowUnseen(t) ==
    \/ row'[t].status = row[t].status /\ row'[t].item = row[t].item
    \/ {row'[t].status, row[t].status} \cap {"Purchased", "Redeemed"} = {}

OrderUnseen(i) ==
    /\ line'[i].status = "Paid" <=> line[i].status = "Paid"
    /\ line'[i].refunds = line[i].refunds

LEMMA OrdersUnseen ==
    ASSUME \A i \in Items : OrderUnseen(i)
    PROVE  PaidItems' = PaidItems /\ RefundsOf' = RefundsOf
BY DEF OrderUnseen, PaidItems, RefundsOf

LEMMA RowsUnseen ==
    ASSUME \A t \in Tickets : RowUnseen(t)
    PROVE  SoldTo' = SoldTo /\ UsedTickets' = UsedTickets
<1>1. \A t \in Tickets :
        /\ row'[t].status = "Redeemed" <=> row[t].status = "Redeemed"
        /\ row'[t].status = "Purchased" <=> row[t].status = "Purchased"
        /\ row[t].status = "Purchased" => row'[t].item = row[t].item
  BY DEF RowUnseen
<1>2. UsedTickets' = UsedTickets
  BY <1>1 DEF UsedTickets
<1>3. SoldTo' = SoldTo
  BY <1>1 DEF SoldTo
<1>4. QED
  BY <1>2, <1>3

LEMMA SaleInit == Init => Promise!Init
<1> SUFFICES ASSUME Init
             PROVE  Promise!Init
  OBVIOUS
<1>1. PaidItems = {}
  BY DEF Init, PaidItems
<1>2. SoldTo = [t \in Tickets |-> Null]
  BY DEF Init, SoldTo, Issued
<1>3. UsedTickets = {}
  BY DEF Init, UsedTickets, Issued
<1>4. RefundsOf = [i \in Items |-> 0]
  BY DEF Init, RefundsOf
<1>5. QED
  BY <1>1, <1>2, <1>3, <1>4 DEF Promise!Init

LEMMA CartSells ==
    ASSUME TypeOK, PurchasedIsPaidFor, CartStep
    PROVE  Promise!Next \/ UNCHANGED View
<1>0. PICK i \in Items :
        \/ \E h \in Holds \cup {Null}, T \in Some : Reserve(i, h, T)
        \/ \E T \in Some : Release(i, T)
        \/ MarkOrder(i)
        \/ MarkTickets(i)
        \/ Complete(i)
  BY DEF CartStep
<1>1. (\A t \in Tickets : row[t] \in Rows) /\ line \in [Items -> Lines]
  BY DEF TypeOK
<1>2. \A t \in Tickets : row[t].status = "Purchased" =>
        row[t].item # Null /\ line[row[t].item].status = "Paid"
  BY DEF PurchasedIsPaidFor
<1>3. ASSUME NEW h \in Holds \cup {Null}, NEW T \in Some, Reserve(i, h, T)
      PROVE  Promise!Next
  <2> DEFINE U == UsedTickets \cap T
  <2>0. T \subseteq Tickets
    BY SomeTickets
  <2>1. PaidItems' = PaidItems /\ RefundsOf' = RefundsOf
    <3>1. \A j \in Items : OrderUnseen(j)
      BY <1>1, <1>3 DEF Reserve, Lines, OrderUnseen
    <3>2. QED
      BY <3>1, OrdersUnseen
  <2>2. \A t \in Tickets \ T : row'[t] = row[t]
    BY <1>3 DEF Reserve
  <2>3. \A t \in T : row'[t].status = "Reserved" /\ row[t].status # "Purchased"
    <3>1. \A t \in T : row'[t].status = "Reserved"
      BY <1>1, <1>3, <2>0, RowColumns DEF Reserve
    <3>2. \A t \in T : row[t].status # "Purchased"
      BY <1>2, <1>3, <2>0 DEF Reserve, Takeable
    <3>3. QED
      BY <3>1, <3>2
  <2>4. SoldTo' = SoldTo
    BY <2>2, <2>3 DEF SoldTo
  <2>5. UsedTickets' = UsedTickets \ U
    BY <2>2, <2>3 DEF UsedTickets
  <2>6. Promise!Reissue(U)
    BY <2>1, <2>4, <2>5 DEF Promise!Reissue
  <2>7. U \in SUBSET Tickets
    BY <2>0
  <2>8. QED
    BY <2>6, <2>7 DEF Promise!Next
<1>4. ASSUME NEW T \in Some, Release(i, T)
      PROVE  UNCHANGED View
  <2>1. \A j \in Items : OrderUnseen(j)
    BY <1>1, <1>4 DEF Release, Lines, OrderUnseen
  <2>2. \A t \in Tickets : RowUnseen(t)
    <3>1. \A t \in Tickets \ T : row'[t] = row[t]
      BY <1>4 DEF Release
    <3>2. \A t \in Tickets : t \in T =>
            row'[t].status = "Available" /\ row[t].status = "Reserved"
      BY <1>1, <1>4, RowColumns DEF Release, Releasable
    <3>3. QED
      BY <3>1, <3>2 DEF RowUnseen
  <2>3. QED
    BY <2>1, <2>2, OrdersUnseen, RowsUnseen DEF View
<1>5. CASE MarkOrder(i) \/ MarkTickets(i)
  <2>1. \A j \in Items : OrderUnseen(j)
    BY <1>1, <1>5 DEF MarkOrder, MarkTickets, Lines, OrderUnseen
  <2>2. \A t \in Tickets : row'[t] = row[t] \/ SameSale(row[t], row'[t])
    BY <1>1, <1>5, RowColumns DEF MarkOrder, MarkTickets
  <2>3. \A t \in Tickets : RowUnseen(t)
    BY <2>2 DEF RowUnseen, SameSale
  <2>4. QED
    BY <2>1, <2>3, OrdersUnseen, RowsUnseen DEF View
<1>6. CASE Complete(i)
  <2> DEFINE T == TicketsOf(i)
  <2>1. PaidItems' = PaidItems \cup {i}
    <3>1. \A j \in Items \ {i} : line'[j] = line[j]
      BY <1>1, <1>6 DEF Complete
    <3>2. line'[i].status = "Paid"
      BY <1>1, <1>6 DEF Complete, Lines
    <3>3. QED
      BY <3>1, <3>2 DEF PaidItems
  <2>2. RefundsOf' = RefundsOf
    <3>1. \A j \in Items : line'[j].refunds = line[j].refunds
      BY <1>1, <1>6 DEF Complete, Lines
    <3>2. QED
      BY <3>1 DEF RefundsOf
  <2>3. i \notin PaidItems
    BY <1>6 DEF Complete, PaidItems
  <2>4. \A t \in Tickets :
          IF t \in T THEN row'[t].status = "Purchased" /\ row'[t].item = i
                     ELSE row'[t] = row[t]
    BY <1>1, <1>6, RowColumns DEF Complete, TicketsOf
  <2>5. \A t \in T : SoldTo[t] = Null
    <3>1. \A t \in T : t \in Tickets /\ row[t].item = i
      BY DEF TicketsOf
    <3>2. \A t \in T : row[t].status # "Purchased"
      BY <1>2, <1>6, <3>1 DEF Complete
    <3>3. QED
      BY <3>1, <3>2 DEF SoldTo
  <2>6. SoldTo' = [t \in Tickets |-> IF t \in T THEN i ELSE SoldTo[t]]
    BY <2>4 DEF SoldTo
  <2>7. UsedTickets' = UsedTickets \ T
    BY <2>4 DEF UsedTickets
  <2>8. Promise!Sell(i, T)
    BY <2>1, <2>2, <2>3, <2>5, <2>6, <2>7 DEF Promise!Sell
  <2>9. T \in SUBSET Tickets
    BY DEF TicketsOf
  <2>10. QED
    BY <2>8, <2>9 DEF Promise!Next
<1>7. QED
  BY <1>0, <1>3, <1>4, <1>5, <1>6

LEMMA HoldUnseen ==
    ASSUME TypeOK, PurchasedIsPaidFor, HoldStep
    PROVE  UNCHANGED View
<1>1. \A t \in Tickets : row[t] \in Rows
  BY DEF TypeOK
<1>2. line' = line
  BY HoldRows
<1>3. ASSUME NEW t \in Tickets
      PROVE  RowUnseen(t)
  <2>1. CASE \E T \in Some : Nullify(T)
    <3>1. \/ row'[t] = row[t]
          \/ row'[t].status = "Nullified" /\ row[t].status = "Available"
      BY <1>1, <2>1, RowColumns DEF Nullify, Nullifiable
    <3>2. QED
      BY <3>1 DEF RowUnseen
  <2>2. CASE \E T \in Some, to \in Holds, from \in Holds \cup {Null} :
               AddToHold(to, from, T)
    BY <1>1, <2>2, RowColumns DEF AddToHold, SameSale, RowUnseen
  <2>3. CASE \E T \in Some, h \in Holds : ReleaseFromHold(h, T)
    BY <1>1, <2>3, RowColumns DEF ReleaseFromHold, SameSale, RowUnseen
  <2>4. QED
    BY <2>1, <2>2, <2>3 DEF HoldStep
<1>4. \A i \in Items : OrderUnseen(i)
  BY <1>2 DEF OrderUnseen
<1>5. QED
  BY <1>3, <1>4, OrdersUnseen, RowsUnseen DEF View

LEMMA DoorUses ==
    ASSUME TypeOK, DoorStep
    PROVE  Promise!Next \/ UNCHANGED View
<1>1. PICK s \in Scanners :
        (\E t \in Tickets, key \in Items : RedeemRead(s, t, key)) \/ RedeemWrite(s)
  BY DEF DoorStep
<1>2. line' = line
  BY DoorRows
<1>3. PaidItems' = PaidItems /\ RefundsOf' = RefundsOf
  BY <1>2, OrdersUnseen DEF OrderUnseen
<1>4. CASE \E t \in Tickets, key \in Items : RedeemRead(s, t, key)
  BY <1>3, <1>4, RowsUnseen DEF RedeemRead, RowUnseen, View
<1>5. CASE RedeemWrite(s)
  <2> DEFINE t == scan[s]
  <2>1. t \in Tickets /\ row[t] \in Rows
    BY <1>5 DEF RedeemWrite, TypeOK
  <2>2. row'[t].status = "Redeemed" /\ \A u \in Tickets \ {t} : row'[u] = row[u]
    BY <1>5, <2>1, RowColumns DEF RedeemWrite, TypeOK
  <2>3. UsedTickets' = UsedTickets \cup {t}
    BY <2>1, <2>2 DEF UsedTickets
  <2>4. SoldTo' = Promise!Unsold({t})
    BY <2>1, <2>2 DEF SoldTo, Promise!Unsold
  <2>5. Promise!Use(t)
    BY <1>3, <2>3, <2>4 DEF Promise!Use
  <2>6. QED
    BY <2>1, <2>5 DEF Promise!Next
<1>6. QED
  BY <1>1, <1>4, <1>5

LEMMA RefundGivesBack ==
    ASSUME TypeOK, RefundStep
    PROVE  Promise!Next \/ UNCHANGED View
<1>0. (\A t \in Tickets : row[t] \in Rows) /\ line \in [Items -> Lines]
  BY DEF TypeOK
<1>1. PICK i \in Items :
        (\E t \in Tickets : RefundRead(i, t)) \/ RefundWrite(i) \/ RefundAbort(i)
  BY DEF RefundStep
<1>2. CASE (\E t \in Tickets : RefundRead(i, t)) \/ RefundAbort(i)
  <2>1. UNCHANGED <<row, line>>
    BY <1>2 DEF RefundRead, RefundAbort
  <2>2. QED
    BY <2>1, RowsUnseen, OrdersUnseen DEF RowUnseen, OrderUnseen, View
<1>3. CASE RefundWrite(i)
  <2> DEFINE t == refund[i].ticket
  <2>1. t \in Tickets /\ row[t] \in Rows /\ Released(row[t]) \in Rows
    BY <1>3, RowOperations DEF RefundWrite, TypeOK, Refunding
  <2>2. PaidItems' = PaidItems
    <3>1. \A j \in Items : line'[j].status = line[j].status
      BY <1>0, <1>3 DEF RefundWrite, Lines
    <3>2. QED
      BY <3>1 DEF PaidItems
  <2>3. RefundsOf' = [RefundsOf EXCEPT ![i] = @ + 1]
    <3>1. \A j \in Items \ {i} : line'[j] = line[j]
      BY <1>0, <1>3 DEF RefundWrite
    <3>2. line'[i].refunds = line[i].refunds + 1
      BY <1>0, <1>3 DEF RefundWrite, Lines
    <3>3. QED
      BY <3>1, <3>2 DEF RefundsOf
  <2>4. \A u \in Tickets \ {t} : row'[u] = row[u]
    BY <1>3, <2>1 DEF RefundWrite, TypeOK
  <2>5. CASE refund[i].redeemed
    <3>1. \A u \in Tickets : RowUnseen(u)
      BY <1>3, <2>1, <2>4, <2>5, RowColumns DEF RefundWrite, TypeOK, SameSale, RowUnseen
    <3>2. SoldTo' = SoldTo /\ UsedTickets' = UsedTickets
      BY <3>1, RowsUnseen
    <3>3. Promise!Refund(i, t)
      BY <2>2, <2>3, <3>2 DEF Promise!Refund
    <3>4. QED
      BY <2>1, <3>3 DEF Promise!Next
  <2>6. CASE ~refund[i].redeemed
    <3>1. row[t].status = "Purchased"
      BY <1>3, <2>6 DEF RefundWrite, CanRelease, Releasable
    <3>2. row'[t].status = "Available"
      BY <1>3, <2>1, <2>6, RowColumns DEF RefundWrite, TypeOK, SameSale
    <3>3. SoldTo' = Promise!Unsold({t})
      BY <2>1, <2>4, <3>2 DEF SoldTo, Promise!Unsold
    <3>4. UsedTickets' = UsedTickets
      BY <2>1, <2>4, <3>1, <3>2 DEF UsedTickets
    <3>5. Promise!Refund(i, t)
      BY <2>2, <2>3, <3>3, <3>4 DEF Promise!Refund
    <3>6. QED
      BY <2>1, <3>5 DEF Promise!Next
  <2>7. QED
    BY <2>5, <2>6
<1>4. QED
  BY <1>1, <1>2, <1>3

LEMMA TransferUnseen ==
    ASSUME TypeOK, TransferStep
    PROVE  UNCHANGED View
<1>1. \A t \in Tickets : RowUnseen(t)
  BY TransferRows DEF RowUnseen, SameSale
<1>2. \A i \in Items : OrderUnseen(i)
  BY TransferRows DEF OrderUnseen
<1>3. QED
  BY <1>1, <1>2, OrdersUnseen, RowsUnseen DEF View

LEMMA SaleNext ==
    TypeOK /\ PurchasedIsPaidFor /\ [Next]_vars => [Promise!Next]_(Promise!vars)
<1> SUFFICES ASSUME TypeOK, PurchasedIsPaidFor, [Next]_vars
             PROVE  Promise!Next \/ UNCHANGED View
  BY DEF Promise!vars, View
<1>1. CASE Tick \/ UNCHANGED vars
  <2>1. UNCHANGED <<row, line>>
    BY <1>1 DEF Tick, vars
  <2>2. QED
    BY <2>1, RowsUnseen, OrdersUnseen DEF RowUnseen, OrderUnseen, View
<1>2. QED
  BY <1>1, CartSells, HoldUnseen, DoorUses, TransferUnseen, RefundGivesBack DEF Next

\* Tickets, carts, holds, scans, transfers and refunds together implement the
\* sale: mark_as_purchased takes unsold tickets only, and no statement but the
\* redemption and a refund that names it takes a Purchased ticket out of its order.
THEOREM TicketsAreSold == Spec => ImplementsSale
BY SaleInit, SaleNext, Typing, PurchasesArePaid, PTL
   DEF Spec, ImplementsSale, Promise!Spec

=============================================================================
