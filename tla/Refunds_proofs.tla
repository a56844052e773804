---------------------------- MODULE Refunds_proofs ----------------------------
(***************************************************************************)
(* Proofs about Refunds, for any number of orders, lines, tickets and      *)
(* overlapping requests, and every quantity and price.                     *)
(***************************************************************************)
EXTENDS Refunds, FiniteSetTheorems, TLAPS

-----------------------------------------------------------------------------
(***************************************************************************)
(* Sums over a finite set.  SumFunctionOnSet is a recursive function on    *)
(* the subsets, each of which loses the element that CHOOSE takes.  What   *)
(* holds of every subset is shown by the smallest subset of which it would *)
(* not: the strict inclusion of finite sets is well-founded.               *)
(***************************************************************************)
\* The element a sum over s begins with.
Pick(s) == CHOOSE x \in s : TRUE

\* g holds the sums of f over all subsets of S.
SumsOver(g, f, S) ==
    g = [s \in SUBSET S |-> IF s = {} THEN 0 ELSE f[Pick(s)] + g[s \ {Pick(s)}]]

SumsOf(f, S) == CHOOSE g : SumsOver(g, f, S)

\* The sum is the recursive function's value.
LEMMA SumIs ==
    ASSUME NEW f, NEW S
    PROVE  SumFunctionOnSet(f, S) = SumsOf(f, S)[S]
BY DEF SumFunctionOnSet, FoldFunctionOnSet, MapThenFoldSet, SumsOf, SumsOver, Pick

\* A set of subsets of a finite set has one that contains no other.
LEMMA Smallest ==
    ASSUME NEW S, IsFiniteSet(S), NEW B, B \subseteq SUBSET S, B # {}
    PROVE  \E T \in B : \A U \in B : U \subseteq T => U = T
<1>1. IsWellFoundedOn(StrictSubsetOrdering(S), FiniteSubsetsOf(S))
  BY FS_StrictSubsetOrderingWellFounded
<1>2. FiniteSubsetsOf(S) = SUBSET S
  BY FS_FiniteSubsetsOfFinite
<1>3. PICK T \in B : \A U \in B : ~ (<<U, T>> \in StrictSubsetOrdering(S))
  BY <1>1, <1>2, WFMin
<1>4. \A U \in B : U \subseteq T => U = T
  BY <1>3 DEF StrictSubsetOrdering
<1>5. QED
  BY <1>4

\* Such a function has at most one value for each subset.
LEMMA SumsAgree ==
    ASSUME NEW f, NEW S, IsFiniteSet(S), NEW T, T \subseteq S,
           NEW g, SumsOver(g, f, S), NEW h, SumsOver(h, f, T)
    PROVE  \A s \in SUBSET T : g[s] = h[s]
<1> SUFFICES ASSUME \E s \in SUBSET T : g[s] # h[s]
             PROVE  FALSE
  OBVIOUS
<1> DEFINE B == {s \in SUBSET T : g[s] # h[s]}
<1>1. PICK s \in B : \A U \in B : U \subseteq s => U = s
  <2>1. IsFiniteSet(T)
    BY FS_Subset
  <2>2. B \subseteq SUBSET T /\ B # {}
    OBVIOUS
  <2> HIDE DEF B
  <2>3. QED
    BY <2>1, <2>2, Smallest
<1>2. CASE s = {}
  BY <1>1, <1>2 DEF SumsOver
<1>3. CASE s # {}
  <2>1. Pick(s) \in s
    BY <1>3 DEF Pick
  <2>2. g[s \ {Pick(s)}] = h[s \ {Pick(s)}]
    BY <1>1, <2>1
  <2>3. /\ g[s] = f[Pick(s)] + g[s \ {Pick(s)}]
        /\ h[s] = f[Pick(s)] + h[s \ {Pick(s)}]
    BY <1>1, <1>3 DEF SumsOver
  <2>4. QED
    BY <1>1, <2>2, <2>3
<1>4. QED
  BY <1>2, <1>3

\* And there is one: from those of the proper subsets.
LEMMA SumsExist ==
    ASSUME NEW f, NEW S, IsFiniteSet(S)
    PROVE  \A T \in SUBSET S : SumsOver(SumsOf(f, T), f, T)
<1> SUFFICES ASSUME \E T \in SUBSET S : \A g : ~SumsOver(g, f, T)
             PROVE  FALSE
  BY DEF SumsOf
<1> DEFINE B == {T \in SUBSET S : \A g : ~SumsOver(g, f, T)}
<1>1. PICK T \in B : \A U \in B : U \subseteq T => U = T
  <2>1. B \subseteq SUBSET S /\ B # {}
    OBVIOUS
  <2> HIDE DEF B
  <2>2. QED
    BY <2>1, Smallest
<1>2. ASSUME NEW U \in SUBSET T, U # T
      PROVE  SumsOver(SumsOf(f, U), f, U)
  BY <1>1, <1>2 DEF SumsOf
<1> DEFINE h(s) == SumsOf(f, s)[s]
           g == [s \in SUBSET T |-> IF s = {} THEN 0 ELSE f[Pick(s)] + h(s \ {Pick(s)})]
<1>3. ASSUME NEW U \in SUBSET T, U # T
      PROVE  g[U] = h(U)
  <2>1. CASE U = {}
    BY <1>2, <2>1, <1>3 DEF SumsOver
  <2>2. CASE U # {}
    <3> DEFINE V == U \ {Pick(U)}
    <3>1. Pick(U) \in U /\ V \in SUBSET U /\ V # U
      BY <2>2 DEF Pick
    <3>2. SumsOver(SumsOf(f, U), f, U) /\ SumsOver(SumsOf(f, V), f, V)
      BY <1>2, <1>3, <3>1
    <3>3. IsFiniteSet(U)
      BY FS_Subset, <1>1
    <3>4. SumsOf(f, U)[V] = SumsOf(f, V)[V]
      BY <3>1, <3>2, <3>3, SumsAgree
    <3>5. SumsOf(f, U)[U] = f[Pick(U)] + SumsOf(f, U)[V]
      BY <2>2, <3>2 DEF SumsOver
    <3>6. g[U] = f[Pick(U)] + h(V)
      BY <2>2
    <3>7. QED
      BY <3>4, <3>5, <3>6
  <2>3. QED
    BY <2>1, <2>2
<1>4. ASSUME NEW s \in SUBSET T, s # {}
      PROVE  h(s \ {Pick(s)}) = g[s \ {Pick(s)}]
  <2>1. s \ {Pick(s)} \in SUBSET T /\ s \ {Pick(s)} # T
    BY <1>4 DEF Pick
  <2>2. QED
    BY <1>3, <2>1
<1> HIDE DEF h
<1>5. g = [s \in SUBSET T |-> IF s = {} THEN 0 ELSE f[Pick(s)] + g[s \ {Pick(s)}]]
  BY <1>4
<1>6. SumsOver(g, f, T)
  BY <1>5 DEF SumsOver
<1>7. QED
  BY <1>1, <1>6

\* The sum over no element is 0.
LEMMA SumOfNone ==
    ASSUME NEW f
    PROVE  SumFunctionOnSet(f, {}) = 0
<1>1. SumsOver(SumsOf(f, {}), f, {})
  BY SumsExist, FS_EmptySet
<1>2. QED
  BY <1>1, SumIs DEF SumsOver

\* The sum over a nonempty set is its first element and the sum of the rest.
LEMMA SumPicks ==
    ASSUME NEW f, NEW S, IsFiniteSet(S), S # {}
    PROVE  /\ Pick(S) \in S
           /\ SumFunctionOnSet(f, S) = f[Pick(S)] + SumFunctionOnSet(f, S \ {Pick(S)})
<1> DEFINE T == S \ {Pick(S)}
<1>1. Pick(S) \in S /\ T \in SUBSET S
  BY DEF Pick
<1>2. SumsOver(SumsOf(f, S), f, S) /\ SumsOver(SumsOf(f, T), f, T)
  BY <1>1, SumsExist
<1>3. SumsOf(f, S)[T] = SumsOf(f, T)[T]
  BY <1>1, <1>2, SumsAgree
<1>4. SumsOf(f, S)[S] = f[Pick(S)] + SumsOf(f, S)[T]
  BY <1>2 DEF SumsOver
<1>5. QED
  BY <1>1, <1>3, <1>4, SumIs

\* A sum of integers is an integer.
LEMMA SumIsInt ==
    ASSUME NEW f, NEW S, IsFiniteSet(S), \A x \in S : f[x] \in Int
    PROVE  SumFunctionOnSet(f, S) \in Int
<1> DEFINE B == {T \in SUBSET S : SumFunctionOnSet(f, T) \notin Int}
<1> SUFFICES ASSUME B # {}
             PROVE  FALSE
  OBVIOUS
<1>1. PICK T \in B : \A U \in B : U \subseteq T => U = T
  <2>1. B \subseteq SUBSET S /\ B # {}
    OBVIOUS
  <2> HIDE DEF B
  <2>2. QED
    BY <2>1, Smallest
<1>2. IsFiniteSet(T)
  BY FS_Subset
<1>3. T # {}
  <2>1. SumFunctionOnSet(f, {}) \in Int
    BY SumOfNone
  <2>2. QED
    BY <1>1, <2>1
<1>4. /\ Pick(T) \in T
      /\ SumFunctionOnSet(f, T) = f[Pick(T)] + SumFunctionOnSet(f, T \ {Pick(T)})
  BY <1>2, <1>3, SumPicks
<1>5. SumFunctionOnSet(f, T \ {Pick(T)}) \in Int
  BY <1>1, <1>4
<1>6. QED
  BY <1>1, <1>4, <1>5

\* A sum of naturals is a natural.
LEMMA SumIsNat ==
    ASSUME NEW f, NEW S, IsFiniteSet(S), \A x \in S : f[x] \in Nat
    PROVE  SumFunctionOnSet(f, S) \in Nat
<1> DEFINE B == {T \in SUBSET S : SumFunctionOnSet(f, T) \notin Nat}
<1> SUFFICES ASSUME B # {}
             PROVE  FALSE
  OBVIOUS
<1>1. PICK T \in B : \A U \in B : U \subseteq T => U = T
  <2>1. B \subseteq SUBSET S /\ B # {}
    OBVIOUS
  <2> HIDE DEF B
  <2>2. QED
    BY <2>1, Smallest
<1>2. IsFiniteSet(T)
  BY FS_Subset
<1>3. T # {}
  <2>1. SumFunctionOnSet(f, {}) \in Nat
    BY SumOfNone
  <2>2. QED
    BY <1>1, <2>1
<1>4. /\ Pick(T) \in T
      /\ SumFunctionOnSet(f, T) = f[Pick(T)] + SumFunctionOnSet(f, T \ {Pick(T)})
  BY <1>2, <1>3, SumPicks
<1>5. SumFunctionOnSet(f, T \ {Pick(T)}) \in Nat
  BY <1>1, <1>4
<1>6. QED
  BY <1>1, <1>4, <1>5

\* Any element may come first.
LEMMA SumWithout ==
    ASSUME NEW f, NEW S, IsFiniteSet(S), \A x \in S : f[x] \in Int, NEW i \in S
    PROVE  SumFunctionOnSet(f, S) = f[i] + SumFunctionOnSet(f, S \ {i})
<1> DEFINE Sum(T) == SumFunctionOnSet(f, T)
           B == {T \in SUBSET S : \E x \in T : Sum(T) # f[x] + Sum(T \ {x})}
<1> SUFFICES ASSUME B # {}
             PROVE  FALSE
  OBVIOUS
<1>1. PICK T \in B : \A U \in B : U \subseteq T => U = T
  <2>1. B \subseteq SUBSET S /\ B # {}
    OBVIOUS
  <2> HIDE DEF B
  <2>2. QED
    BY <2>1, Smallest
<1>2. PICK x \in T : Sum(T) # f[x] + Sum(T \ {x})
  BY <1>1
<1>3. IsFiniteSet(T) /\ T # {} /\ IsFiniteSet(T \ {x})
  BY FS_Subset
<1> DEFINE c == Pick(T)
<1>4. c \in T /\ Sum(T) = f[c] + Sum(T \ {c})
  BY <1>3, SumPicks
<1> HIDE DEF Sum, c
<1>5. c # x
  BY <1>2, <1>4
<1>6. Sum(T \ {c}) = f[x] + Sum((T \ {c}) \ {x})
  BY <1>1, <1>4, <1>5
<1>7. Sum(T \ {x}) = f[c] + Sum((T \ {x}) \ {c})
  BY <1>1, <1>4, <1>5
<1>8. Sum((T \ {c}) \ {x}) = Sum((T \ {x}) \ {c})
  <2>1. (T \ {c}) \ {x} = (T \ {x}) \ {c}
    OBVIOUS
  <2>2. QED
    BY <2>1
<1>9. /\ f[c] \in Int /\ f[x] \in Int
      /\ Sum((T \ {x}) \ {c}) \in Int
  <2>1. IsFiniteSet((T \ {x}) \ {c})
    BY <1>3, FS_Subset
  <2>2. QED
    BY <2>1, <1>1, <1>4, SumIsInt DEF Sum
<1>10. QED
  BY <1>2, <1>4, <1>6, <1>7, <1>8, <1>9

\* Functions that agree have the same sum.
LEMMA SumSame ==
    ASSUME NEW f, NEW g, NEW S, IsFiniteSet(S), \A x \in S : f[x] = g[x]
    PROVE  SumFunctionOnSet(f, S) = SumFunctionOnSet(g, S)
<1> DEFINE B == {T \in SUBSET S : SumFunctionOnSet(f, T) # SumFunctionOnSet(g, T)}
<1> SUFFICES ASSUME B # {}
             PROVE  FALSE
  OBVIOUS
<1>1. PICK T \in B : \A U \in B : U \subseteq T => U = T
  <2>1. B \subseteq SUBSET S /\ B # {}
    OBVIOUS
  <2> HIDE DEF B
  <2>2. QED
    BY <2>1, Smallest
<1>2. IsFiniteSet(T)
  BY FS_Subset
<1>3. T # {}
  <2>1. SumFunctionOnSet(f, {}) = SumFunctionOnSet(g, {})
    BY SumOfNone
  <2>2. QED
    BY <1>1, <2>1
<1>4. /\ Pick(T) \in T
      /\ SumFunctionOnSet(f, T) = f[Pick(T)] + SumFunctionOnSet(f, T \ {Pick(T)})
      /\ SumFunctionOnSet(g, T) = g[Pick(T)] + SumFunctionOnSet(g, T \ {Pick(T)})
  BY <1>2, <1>3, SumPicks
<1>5. SumFunctionOnSet(f, T \ {Pick(T)}) = SumFunctionOnSet(g, T \ {Pick(T)})
  BY <1>1, <1>4
<1>6. QED
  BY <1>1, <1>4, <1>5

\* Of functions of which one is nowhere larger its sum is not larger.
LEMMA SumMonotone ==
    ASSUME NEW f, NEW g, NEW S, IsFiniteSet(S),
           \A x \in S : f[x] \in Int /\ g[x] \in Int /\ f[x] <= g[x]
    PROVE  SumFunctionOnSet(f, S) <= SumFunctionOnSet(g, S)
<1> DEFINE B == {T \in SUBSET S : ~(SumFunctionOnSet(f, T) <= SumFunctionOnSet(g, T))}
<1> SUFFICES ASSUME B # {}
             PROVE  FALSE
  OBVIOUS
<1>1. PICK T \in B : \A U \in B : U \subseteq T => U = T
  <2>1. B \subseteq SUBSET S /\ B # {}
    OBVIOUS
  <2> HIDE DEF B
  <2>2. QED
    BY <2>1, Smallest
<1>2. IsFiniteSet(T)
  BY FS_Subset
<1>3. T # {}
  <2>1. SumFunctionOnSet(f, {}) <= SumFunctionOnSet(g, {})
    BY SumOfNone
  <2>2. QED
    BY <1>1, <2>1
<1>4. /\ Pick(T) \in T
      /\ SumFunctionOnSet(f, T) = f[Pick(T)] + SumFunctionOnSet(f, T \ {Pick(T)})
      /\ SumFunctionOnSet(g, T) = g[Pick(T)] + SumFunctionOnSet(g, T \ {Pick(T)})
  BY <1>2, <1>3, SumPicks
<1>5. /\ SumFunctionOnSet(f, T \ {Pick(T)}) \in Int
      /\ SumFunctionOnSet(g, T \ {Pick(T)}) \in Int
  <2>1. IsFiniteSet(T \ {Pick(T)})
    BY <1>2, FS_Subset
  <2>2. QED
    BY <2>1, SumIsInt
<1>6. SumFunctionOnSet(f, T \ {Pick(T)}) <= SumFunctionOnSet(g, T \ {Pick(T)})
  BY <1>1, <1>4
<1>7. f[Pick(T)] \in Int /\ g[Pick(T)] \in Int /\ f[Pick(T)] <= g[Pick(T)]
  BY <1>4
<1>8. SumFunctionOnSet(f, T) <= SumFunctionOnSet(g, T)
  BY <1>4, <1>5, <1>6, <1>7
<1>9. QED
  BY <1>1, <1>8

\* A sum changes by what one element changes.
LEMMA SumChanged ==
    ASSUME NEW f, NEW g, NEW S, IsFiniteSet(S), NEW i \in S,
           \A x \in S : f[x] \in Int /\ g[x] \in Int,
           \A x \in S \ {i} : f[x] = g[x]
    PROVE  SumFunctionOnSet(g, S) = SumFunctionOnSet(f, S) + (g[i] - f[i])
<1> DEFINE T == S \ {i}
<1>1. IsFiniteSet(T)
  BY FS_Subset
<1>2. /\ SumFunctionOnSet(f, S) = f[i] + SumFunctionOnSet(f, T)
      /\ SumFunctionOnSet(g, S) = g[i] + SumFunctionOnSet(g, T)
  BY SumWithout
<1>3. SumFunctionOnSet(f, T) = SumFunctionOnSet(g, T)
  BY <1>1, SumSame
<1>4. SumFunctionOnSet(f, T) \in Int
  BY <1>1, SumIsInt
<1>5. QED
  BY <1>2, <1>3, <1>4

\* The sum of two functions' sums is the sum of their sums.
LEMMA SumOfBoth ==
    ASSUME NEW f, NEW g, NEW h, NEW S, IsFiniteSet(S),
           \A x \in S : f[x] \in Int /\ g[x] \in Int /\ h[x] = f[x] + g[x]
    PROVE  SumFunctionOnSet(h, S) = SumFunctionOnSet(f, S) + SumFunctionOnSet(g, S)
<1> DEFINE Adds(T) == SumFunctionOnSet(h, T) = SumFunctionOnSet(f, T) + SumFunctionOnSet(g, T)
           B == {T \in SUBSET S : ~Adds(T)}
<1> SUFFICES ASSUME B # {}
             PROVE  FALSE
  OBVIOUS
<1>1. PICK T \in B : \A U \in B : U \subseteq T => U = T
  <2>1. B \subseteq SUBSET S /\ B # {}
    OBVIOUS
  <2> HIDE DEF B
  <2>2. QED
    BY <2>1, Smallest
<1>2. IsFiniteSet(T)
  BY FS_Subset
<1>3. T # {}
  <2>1. Adds({})
    BY SumOfNone
  <2>2. QED
    BY <1>1, <2>1
<1> DEFINE R == T \ {Pick(T)}
<1>4. /\ Pick(T) \in T
      /\ SumFunctionOnSet(f, T) = f[Pick(T)] + SumFunctionOnSet(f, R)
      /\ SumFunctionOnSet(g, T) = g[Pick(T)] + SumFunctionOnSet(g, R)
      /\ SumFunctionOnSet(h, T) = h[Pick(T)] + SumFunctionOnSet(h, R)
  BY <1>2, <1>3, SumPicks
<1>5. SumFunctionOnSet(f, R) \in Int /\ SumFunctionOnSet(g, R) \in Int
  <2>1. IsFiniteSet(R)
    BY <1>2, FS_Subset
  <2>2. QED
    BY <2>1, SumIsInt
<1>6. Adds(R)
  BY <1>1, <1>4
<1>7. /\ f[Pick(T)] \in Int /\ g[Pick(T)] \in Int
      /\ h[Pick(T)] = f[Pick(T)] + g[Pick(T)]
  BY <1>4
<1>8. Adds(T)
  BY <1>4, <1>5, <1>6, <1>7
<1>9. QED
  BY <1>1, <1>8

\* The sum of nothing but zeros is 0.
LEMMA SumOfZeros ==
    ASSUME NEW f, NEW S, IsFiniteSet(S), \A x \in S : f[x] = 0
    PROVE  SumFunctionOnSet(f, S) = 0
<1>1. \A x \in S : f[x] \in Int /\ f[x] = f[x] + f[x]
  OBVIOUS
<1>2. SumFunctionOnSet(f, S) = SumFunctionOnSet(f, S) + SumFunctionOnSet(f, S)
  BY <1>1, SumOfBoth
<1>3. SumFunctionOnSet(f, S) \in Int
  BY <1>1, SumIsInt
<1> DEFINE s == SumFunctionOnSet(f, S)
<1>4. s \in Int /\ s = s + s
  BY <1>2, <1>3
<1> HIDE DEF s
<1>5. s = 0
  BY <1>4
<1>6. QED
  BY <1>5 DEF s

-----------------------------------------------------------------------------

\* Functions on some of D with values in R.
PartialOn(D, R) == UNION {[E -> R] : E \in SUBSET D}
ItemWrites == PartialOn(Items, Nat)
RowWrites == PartialOn(RowIds, Marks)
TicketWrites == PartialOn(Tickets, TicketRows)

Reqs ==
    [stage : Stages, order : Orders \cup {Null}, count : 0..MaxItems,
     named : SUBSET Tickets, due : Nat, given : Nat,
     moved : SUBSET Tickets, from : Orders \cup {Org},
     item : Items \cup {Null}, ticket : Tickets \cup {Null}, line : Lines \cup {Null},
     redeemed : BOOLEAN, row : RowIds \cup {Null}, mark : Marks, withFee : BOOLEAN,
     saw : Nat, sawFee : Nat, last : BOOLEAN,
     items : ItemWrites, rows : RowWrites, tickets : TicketWrites]

Late == {"moved", "paid"}

\* What is known of a request at each stage.
Sound(r) ==
    LET q == req[r]  i == req[r].item
    IN  /\ ~Open(r) => /\ q.items = Nothing /\ q.rows = Nothing /\ q.tickets = Nothing
                       /\ q.named = {} /\ q.due = 0 /\ q.given = 0 /\ ~q.last
        /\ Open(r) => q.order \in sold
        /\ q.stage = "checked" =>
              /\ i \in Items /\ i[1] # "EventFees" /\ OrderOfItem(i) = q.order
              /\ q.ticket \in q.named /\ q.line \in Lines
              /\ q.row \in RowIds /\ q.row[1] = q.ticket
              /\ q.withFee => i[1] = "Tickets" /\ i[2] \in Charged
              /\ q.saw <= QuantityOf(i)
        /\ q.stage = "freed" =>
              /\ i \in Items /\ OrderOfItem(i) = q.order
              /\ q.withFee => /\ i[1] = "Tickets" /\ i[2] \in Charged
                              /\ q.sawFee < QuantityOf(FeeOf(i[2]))
              /\ q.saw < QuantityOf(i)
        /\ \A j \in DOMAIN q.items : OrderOfItem(j) = q.order /\ q.items[j] \in 1..QuantityOf(j)

TypeInv ==
    /\ TypeOK
    /\ req \in [Requests -> Reqs]
    /\ record \in RowWrites
    /\ \A r \in Requests : Sound(r)

-----------------------------------------------------------------------------
\* Who has written a row or an item that is not committed has it alone.
Locks ==
    \A r \in Requests : \A q \in Others(r) :
        /\ DOMAIN req[r].rows \cap DOMAIN req[q].rows = {}
        /\ DOMAIN req[r].tickets \cap DOMAIN req[q].tickets = {}

\* A request works on committed rows and on those it has inserted.
RowsAreOwn ==
    /\ \A r \in Requests :
          /\ \A k \in DOMAIN req[r].rows : k \in DOMAIN record \/ k[2] = r
          /\ req[r].stage = "checked" =>
                req[r].row \in DOMAIN record \/ req[r].row[2] = r
    /\ \A k \in DOMAIN record : ~Open(k[2]) /\ req[k[2]].stage # "idle"

TicketInv ==
    /\ \A t \in Tickets : ticket[t].line = Null <=> ticket[t].status = "Available"
    /\ \A l \in Lines : OrderOf[l] \notin sold => members[l] = {}

\* Who is redeemed, or was when a request checked it, is remembered.
UsedInv ==
    /\ \A t \in Tickets : ticket[t].status = "Redeemed" => t \in used
    /\ \A r \in Requests :
          req[r].stage = "checked" /\ req[r].redeemed => req[r].ticket \in used

Marked(k) == k \in DOMAIN record /\ record[k] = "ticket"
\* The row marks the ticket once the request commits, and does not yet.
NewMark(r, k) == k \in DOMAIN req[r].rows /\ req[r].rows[k] = "ticket" /\ ~Marked(k)

\* A ticket a request has written was released by it, or has only changed wallets.
Held(r) ==
    \A t \in DOMAIN req[r].tickets :
        LET w == req[r].tickets[t]
        IN  /\ \/ w.status = "Available" /\ w.line = Null
               \/ w.status = ticket[t].status /\ w.line = ticket[t].line
            /\ req[r].stage \notin Late => w.wallet = ticket[t].wallet

\* At most one row newly marks a ticket that was never redeemed, and its request
\* has released the ticket.
MarksOf(r) ==
    \A k \in RowIds :
        NewMark(r, k) /\ k[1] \notin used =>
            /\ k[1] \in DOMAIN req[r].tickets
            /\ req[r].tickets[k[1]].line = Null /\ ticket[k[1]].line # Null
            /\ \A j \in RowIds : NewMark(r, j) /\ j[1] = k[1] => j = k

HeldInv == \A r \in Requests : Held(r)
MarkInv == \A r \in Requests : MarksOf(r)

\* The token of a ticket is where the database says, or where the one request
\* that has moved it says.
Clean == past \cap {"tokens", "crash"} = {}
Moved(r, t) == req[r].stage \in Late /\ t \in DOMAIN req[r].tickets
ChainInv ==
    Clean => \A t \in Tickets :
        /\ \A r \in Requests : Moved(r, t) => chain[t] = req[r].tickets[t].wallet
        /\ (\A r \in Requests : ~Moved(r, t)) => chain[t] = ticket[t].wallet

\* The tokens a request has sent came from where the database still has them.
Sent(r) ==
    req[r].stage \in Late =>
        /\ \A t \in req[r].moved :
              t \in DOMAIN req[r].tickets /\ req[r].from = ticket[t].wallet
        /\ \A t \in DOMAIN req[r].tickets \ req[r].moved :
              req[r].tickets[t].wallet = ticket[t].wallet
SentInv == Clean => \A r \in Requests : Sent(r)

SaleInv ==
    \A t \in Tickets \ used :
        TicketRefunds(t) + (IF ticket[t].line = Null THEN 0 ELSE 1) <= Sales(t)

-----------------------------------------------------------------------------
(* Functions, items.                                                       *)

LEMMA OverIs ==
    ASSUME NEW f, NEW g
    PROVE  /\ DOMAIN Over(f, g) = DOMAIN f \cup DOMAIN g
           /\ \A x \in DOMAIN f : Over(f, g)[x] = f[x]
           /\ \A x \in DOMAIN g \ DOMAIN f : Over(f, g)[x] = g[x]
BY DEF Over

LEMMA NothingIs ==
    /\ DOMAIN Nothing = {}
    /\ \A D, R : Nothing \in PartialOn(D, R)
    /\ \A g : DOMAIN Over(Nothing, g) = DOMAIN g
    /\ \A g : \A x \in DOMAIN g : Over(Nothing, g)[x] = g[x]
<1>1. DOMAIN Nothing = {}
  BY DEF Nothing
<1>2. \A D, R : Nothing \in PartialOn(D, R)
  <2> SUFFICES ASSUME NEW D, NEW R
               PROVE  Nothing \in [{} -> R] /\ {} \in SUBSET D
    BY DEF PartialOn
  <2> QED
    BY DEF Nothing
<1>3. ASSUME NEW g
      PROVE  DOMAIN Over(Nothing, g) = DOMAIN g /\ \A x \in DOMAIN g : Over(Nothing, g)[x] = g[x]
  <2>1. /\ DOMAIN Over(Nothing, g) = DOMAIN Nothing \cup DOMAIN g
        /\ \A x \in DOMAIN g \ DOMAIN Nothing : Over(Nothing, g)[x] = g[x]
    BY OverIs
  <2>2. QED
    BY <1>1, <2>1
<1>4. QED
  BY <1>1, <1>2, <1>3

LEMMA PartialIs ==
    ASSUME NEW D, NEW R, NEW f \in PartialOn(D, R)
    PROVE  DOMAIN f \subseteq D /\ \A x \in DOMAIN f : f[x] \in R
BY DEF PartialOn

LEMMA PartialOver ==
    ASSUME NEW D, NEW R, NEW f \in PartialOn(D, R), NEW g \in PartialOn(D, R)
    PROVE  Over(f, g) \in PartialOn(D, R)
<1>1. Over(f, g) \in [DOMAIN f \cup DOMAIN g -> R]
  BY PartialIs DEF Over
<1>2. DOMAIN f \cup DOMAIN g \in SUBSET D
  BY PartialIs
<1>3. QED
  BY <1>1, <1>2 DEF PartialOn

LEMMA PartialPut ==
    ASSUME NEW D, NEW R, NEW f \in PartialOn(D, R), NEW k \in D, NEW v \in R
    PROVE  Put(k, v, f) \in PartialOn(D, R)
<1>1. [j \in {k} |-> v] \in [{k} -> R] /\ {k} \in SUBSET D
  OBVIOUS
<1>2. [j \in {k} |-> v] \in PartialOn(D, R)
  BY <1>1 DEF PartialOn
<1>3. QED
  BY <1>2, PartialOver DEF Put

LEMMA ItemFacts ==
    ASSUME NEW i \in Items
    PROVE  /\ i[1] \in Types /\ QuantityOf(i) \in Nat \ {0} /\ OrderOfItem(i) \in Orders
           /\ Price[i[1]] \in Nat
           /\ i[1] # "EventFees" => i[2] \in Lines /\ OrderOfItem(i) = OrderOf[i[2]]
           /\ i[1] = "EventFees" => i = EventFee(OrderOfItem(i))
           /\ i[1] = "PerUnitFees" => i[2] \in Charged /\ i = FeeOf(i[2])
BY LineAssumption DEF Items, Types, QuantityOf, OrderOfItem, EventFee, FeeOf

LEMMA FeeFacts ==
    /\ \A l \in Charged :
          /\ l \in Lines /\ FeeOf(l) \in Items /\ OrderOfItem(FeeOf(l)) = OrderOf[l]
          /\ FeeOf(l)[1] = "PerUnitFees" /\ FeeOf(l)[2] = l
    /\ \A o \in Orders :
          /\ EventFee(o) \in Items /\ OrderOfItem(EventFee(o)) = o
          /\ EventFee(o)[1] = "EventFees" /\ QuantityOf(EventFee(o)) = 1
    /\ \A l \in Lines : <<"Tickets", l>> \in Items /\ OrderOfItem(<<"Tickets", l>>) = OrderOf[l]
BY LineAssumption DEF Items, QuantityOf, OrderOfItem, EventFee, FeeOf

LEMMA FiniteItems == IsFiniteSet(Items) /\ \A o : IsFiniteSet(ItemsOf(o))
<1>1. IsFiniteSet(Types)
  <2>1. Types = ({"Tickets"} \cup {"PerUnitFees"}) \cup {"EventFees"}
    BY DEF Types
  <2>2. IsFiniteSet({"Tickets"} \cup {"PerUnitFees"})
    BY FS_Singleton, FS_Union
  <2>3. QED
    BY <2>1, <2>2, FS_Singleton, FS_Union
<1>2. IsFiniteSet(Types \X (Lines \cup Orders))
  BY <1>1, FiniteAssumption, FS_Union, FS_Product
<1>3. Items \in SUBSET (Types \X (Lines \cup Orders))
  BY LineAssumption DEF Items, Types, FeeOf, EventFee
<1>4. IsFiniteSet(Items)
  BY <1>2, <1>3, FS_Subset
<1>5. \A o : ItemsOf(o) \in SUBSET Items
  BY DEF ItemsOf
<1>6. QED
  BY <1>4, <1>5, FS_Subset

LEMMA WorthIs ==
    ASSUME NEW o, NEW p \in [Items -> Nat]
    PROVE  Worth(o, p) \in Nat
<1> DEFINE f == [i \in Items |-> p[i] * Price[i[1]]]
<1>1. \A i \in Items : p[i] \in Nat /\ Price[i[1]] \in Nat
  BY ItemFacts
<1>2. \A i \in ItemsOf(o) : f[i] \in Nat
  BY <1>1 DEF ItemsOf
<1> HIDE DEF f
<1>3. SumFunctionOnSet(f, ItemsOf(o)) \in Nat
  BY <1>2, FiniteItems, SumIsNat
<1>4. QED
  BY <1>3 DEF Worth, f

-----------------------------------------------------------------------------
(* What the steps do to a request.                                         *)

LEMMA EndsIs ==
    ASSUME req \in [Requests -> Reqs], NEW r \in Requests, NEW st \in Ended, Ends(r, st)
    PROVE  /\ req' \in [Requests -> Reqs] /\ \A q \in Others(r) : req'[q] = req[q]
           /\ req'[r].stage = st /\ ~Open(r)'
           /\ req'[r].items = Nothing /\ req'[r].rows = Nothing /\ req'[r].tickets = Nothing
           /\ req'[r].named = {} /\ req'[r].due = 0 /\ req'[r].given = 0 /\ ~req'[r].last
<1>1. NoRequest \in Reqs
  BY FiniteAssumption, NothingIs DEF NoRequest, Reqs, Stages, Marks, ItemWrites, RowWrites, TicketWrites
<1>2. req[r].order \in Orders \cup {Null}
  BY DEF Reqs
<1> DEFINE e == [NoRequest EXCEPT !.stage = st, !.order = req[r].order]
<1>3. e \in Reqs
  BY <1>1, <1>2 DEF Reqs, Stages, Ended
<1>4. /\ e.stage = st
      /\ e.items = Nothing /\ e.rows = Nothing /\ e.tickets = Nothing
      /\ e.named = {} /\ e.due = 0 /\ e.given = 0 /\ ~e.last
  BY DEF NoRequest
<1>5. req' = [req EXCEPT ![r] = e]
  BY DEF Ends
<1> HIDE DEF e
<1>6. QED
  BY <1>3, <1>4, <1>5 DEF Others, Open

\* What a request sees of items, rows and tickets.
LEMMA SeenIs ==
    ASSUME TypeInv, NEW r \in Requests
    PROVE  /\ DOMAIN SeenItems(r) = Items
           /\ \A i \in Items : SeenItems(r)[i] \in 0..QuantityOf(i)
           /\ \A i \in DOMAIN req[r].items : i \in Items /\ SeenItems(r)[i] = req[r].items[i]
           /\ \A i \in Items \ DOMAIN req[r].items : SeenItems(r)[i] = refunded[i]
           /\ SeenRows(r) \in RowWrites
           /\ DOMAIN SeenRows(r) = DOMAIN req[r].rows \cup DOMAIN record
           /\ \A k \in DOMAIN req[r].rows : k \in RowIds /\ SeenRows(r)[k] = req[r].rows[k]
           /\ \A k \in DOMAIN record \ DOMAIN req[r].rows : k \in RowIds /\ SeenRows(r)[k] = record[k]
           /\ SeenTickets(r) \in [Tickets -> TicketRows]
           /\ \A t \in DOMAIN req[r].tickets : t \in Tickets /\ SeenTickets(r)[t] = req[r].tickets[t]
           /\ \A t \in Tickets \ DOMAIN req[r].tickets : SeenTickets(r)[t] = ticket[t]
<1> DEFINE q == req[r]
<1>1. q.items \in ItemWrites /\ q.rows \in RowWrites /\ q.tickets \in TicketWrites
  BY DEF TypeInv, Reqs
<1>2. /\ DOMAIN q.items \subseteq Items /\ \A i \in DOMAIN q.items : q.items[i] \in 1..QuantityOf(i)
      /\ DOMAIN refunded = Items /\ \A i \in Items : refunded[i] \in 0..QuantityOf(i)
  BY DEF TypeInv, TypeOK
<1>3. /\ DOMAIN q.rows \subseteq RowIds /\ DOMAIN record \subseteq RowIds
      /\ DOMAIN q.tickets \subseteq Tickets /\ \A t \in DOMAIN q.tickets : q.tickets[t] \in TicketRows
  BY <1>1, PartialIs DEF TypeInv, RowWrites, TicketWrites
<1>4. ticket \in [Tickets -> TicketRows] /\ record \in RowWrites
  BY DEF TypeInv, TypeOK
<1> HIDE DEF q
<1>5. /\ SeenItems(r) = Over(q.items, refunded) /\ SeenRows(r) = Over(q.rows, record)
      /\ SeenTickets(r) = Over(q.tickets, ticket)
  BY DEF SeenItems, SeenRows, SeenTickets, q
<1>6. /\ DOMAIN SeenItems(r) = Items
      /\ \A i \in DOMAIN q.items : i \in Items /\ SeenItems(r)[i] = q.items[i]
      /\ \A i \in Items \ DOMAIN q.items : SeenItems(r)[i] = refunded[i]
  BY <1>2, <1>5 DEF Over
<1>7. \A i \in Items : SeenItems(r)[i] \in 0..QuantityOf(i)
  BY <1>2, <1>6, ItemFacts
<1>8. /\ SeenRows(r) \in RowWrites /\ DOMAIN SeenRows(r) = DOMAIN q.rows \cup DOMAIN record
      /\ \A k \in DOMAIN q.rows : k \in RowIds /\ SeenRows(r)[k] = q.rows[k]
      /\ \A k \in DOMAIN record \ DOMAIN q.rows : k \in RowIds /\ SeenRows(r)[k] = record[k]
  <2>1. SeenRows(r) \in RowWrites
    BY <1>1, <1>4, <1>5, PartialOver DEF RowWrites
  <2>2. QED
    BY <2>1, <1>3, <1>5 DEF Over
<1>9. /\ SeenTickets(r) \in [Tickets -> TicketRows]
      /\ \A t \in DOMAIN q.tickets : t \in Tickets /\ SeenTickets(r)[t] = q.tickets[t]
      /\ \A t \in Tickets \ DOMAIN q.tickets : SeenTickets(r)[t] = ticket[t]
  BY <1>3, <1>4, <1>5 DEF Over
<1>10. QED
  BY <1>6, <1>7, <1>8, <1>9 DEF q

LEMMA CandidateIs ==
    ASSUME TypeInv, NEW r \in Requests, NEW t \in Tickets, NEW c \in Candidates(r, t),
           req[r].count < MaxItems
    PROVE  /\ c[1] \in RowIds /\ c[1][1] = t /\ c[2] \in Marks
           /\ \/ c[1] \in DOMAIN SeenRows(r) /\ SeenRows(r)[c[1]] = c[2]
              \/ c[1][2] = r /\ c[1] \notin DOMAIN SeenRows(r) /\ c[2] = "none"
<1>1. <<t, r, req[r].count + 1>> \in RowIds
  BY FiniteAssumption DEF RowIds, TypeInv, Reqs
<1>2. \A k \in DOMAIN SeenRows(r) : k \in RowIds /\ SeenRows(r)[k] \in Marks
  BY SeenIs, PartialIs DEF RowWrites
<1> DEFINE new == <<t, r, req[r].count + 1>>
           old == RowsOf(t, SeenRows(r))
<1>3. CASE old = {}
  <2>1. c = <<new, "none">> /\ new \notin DOMAIN SeenRows(r)
    BY <1>3 DEF Candidates, RowsOf
  <2>2. QED
    BY <1>1, <2>1 DEF Marks
<1>4. CASE old # {}
  <2>1. PICK k \in old : c = <<k, SeenRows(r)[k]>>
    BY <1>4 DEF Candidates
  <2>2. k \in DOMAIN SeenRows(r) /\ k[1] = t
    BY DEF RowsOf
  <2>3. QED
    BY <1>2, <2>1, <2>2
<1>5. QED
  BY <1>3, <1>4

LEMMA FreeingIs ==
    ASSUME TypeInv, NEW r \in Requests, req[r].stage = "checked"
    PROVE  LET q == Freeing(r)  i == req[r].item  t == req[r].ticket
           IN  /\ q \in Reqs
               /\ q.stage = "freed" /\ q.order = req[r].order /\ q.named = req[r].named
               /\ q.item = i /\ q.ticket = t /\ q.saw = req[r].saw
               /\ q.withFee = req[r].withFee
               /\ q.withFee => q.sawFee = SeenItems(r)[FeeOf(i[2])]
               /\ q.rows = Put(req[r].row, IF i[1] = "Tickets" THEN "ticket" ELSE "fee",
                               req[r].rows)
               /\ q.items = req[r].items
               /\ req[r].redeemed => q.tickets = req[r].tickets
               /\ ~req[r].redeemed => q.tickets =
                     Put(t, [SeenTickets(r)[t] EXCEPT !.status = "Available", !.line = Null],
                         req[r].tickets)
               /\ q.due = req[r].due /\ q.last = req[r].last /\ q.given = req[r].given
<1> DEFINE i == req[r].item
           t == req[r].ticket
           w == [SeenTickets(r)[t] EXCEPT !.status = "Available", !.line = Null]
           rows == Put(req[r].row, IF i[1] = "Tickets" THEN "ticket" ELSE "fee", req[r].rows)
           tickets == IF req[r].redeemed THEN req[r].tickets ELSE Put(t, w, req[r].tickets)
           fee == IF req[r].withFee THEN SeenItems(r)[FeeOf(i[2])] ELSE 0
<1>1. req[r] \in Reqs
  BY DEF TypeInv
<1>2. /\ i \in Items /\ req[r].row \in RowIds /\ t \in Tickets
      /\ req[r].withFee => i[2] \in Charged
  BY <1>1 DEF TypeInv, Sound, Reqs
<1>3. rows \in RowWrites
  BY <1>1, <1>2, PartialPut DEF Reqs, RowWrites, Marks
<1>4. tickets \in TicketWrites
  <2>1. w \in TicketRows
    <3>1. SeenTickets(r)[t] \in TicketRows
      BY <1>2, SeenIs
    <3>2. QED
      BY <3>1 DEF TicketRows
  <2>2. Put(t, w, req[r].tickets) \in TicketWrites
    BY <1>1, <1>2, <2>1, PartialPut DEF Reqs, TicketWrites
  <2>3. QED
    BY <1>1, <2>2 DEF Reqs
<1>5. fee \in Nat
  <2>1. CASE req[r].withFee
    <3>1. FeeOf(i[2]) \in Items
      BY <1>2, <2>1, FeeFacts
    <3>2. SeenItems(r)[FeeOf(i[2])] \in 0..QuantityOf(FeeOf(i[2]))
          /\ QuantityOf(FeeOf(i[2])) \in Nat
      BY <3>1, SeenIs, ItemFacts
    <3>3. QED
      BY <2>1, <3>2
  <2>2. QED
    BY <2>1
<1> DEFINE q == [req[r] EXCEPT !.stage = "freed", !.rows = rows, !.tickets = tickets,
                               !.sawFee = fee]
<1>6. Freeing(r) = q
  BY DEF Freeing
<1> HIDE DEF rows, tickets, fee
<1>7. q \in Reqs
  BY <1>1, <1>3, <1>4, <1>5 DEF Reqs, Stages
<1>8. /\ q.stage = "freed" /\ q.order = req[r].order /\ q.named = req[r].named
      /\ q.item = i /\ q.ticket = t /\ q.saw = req[r].saw
      /\ q.withFee = req[r].withFee /\ q.sawFee = fee /\ q.rows = rows
      /\ q.items = req[r].items /\ q.tickets = tickets
      /\ q.due = req[r].due /\ q.last = req[r].last /\ q.given = req[r].given
  BY <1>1 DEF Reqs
<1>9. QED
  BY <1>6, <1>7, <1>8 DEF rows, tickets, fee

LEMMA Replaced ==
    ASSUME req \in [Requests -> Reqs], NEW r \in Requests, NEW e \in Reqs,
           req' = [req EXCEPT ![r] = e]
    PROVE  /\ req' \in [Requests -> Reqs] /\ req'[r] = e
           /\ \A q \in Others(r) : req'[q] = req[q]
BY DEF Others

-----------------------------------------------------------------------------
(* The kinds of steps.                                                     *)

GivesUp(r) == PayTooLittle(r) \/ ProviderRefuses(r) \/ AnswerLost(r)

\* A request ends without a commit.
Dropped(r) ==
    /\ \E st \in Ended : Ends(r, st)
    /\ UNCHANGED <<sold, ticket, members, used, refunded, record, back>>
    /\ (req[r].stage \notin Late /\ Untouched) \/ Crash(r) \/ GivesUp(r)

Checks(r, i, t, c) ==
    /\ CanNameNext(r, i) /\ i[1] # "EventFees"
    /\ SeenTickets(r)[t].line # Null
    /\ SeenTickets(r)[t].wallet = OrderOf[SeenTickets(r)[t].line]
    /\ c[2] # "ticket"
    /\ req' = [req EXCEPT ![r] = Checking(r, i, t, c)]
    /\ Untouched

Frees(r) ==
    /\ req[r].stage = "checked" /\ ~RowLocked(req[r].row, r)
    /\ req[r].redeemed \/ CanRelease(r)
    /\ req[r].saw # QuantityOf(req[r].item)
    /\ req[r].withFee => SeenItems(r)[FeeOf(req[r].item[2])] # QuantityOf(FeeOf(req[r].item[2]))
    /\ req' = [req EXCEPT ![r] = Freeing(r)]
    /\ Untouched

TakesFee(r, e) ==
    LET fee == EventFee(req[r].order)
    IN  /\ req[r].stage = "open" /\ req[r].order \in Orders
        /\ SeenItems(r)[fee] # QuantityOf(fee)
        /\ e \in Reqs
        /\ e.stage = "freed" /\ e.order = req[r].order
        /\ e.item = fee /\ ~e.withFee /\ e.saw = SeenItems(r)[fee]
        /\ e.items = req[r].items /\ e.rows = req[r].rows /\ e.tickets = req[r].tickets
        /\ e.due = req[r].due /\ e.given = req[r].given
        /\ \/ e.last = req[r].last
           \/ FeeIsLeft(r)
        /\ req' = [req EXCEPT ![r] = e]
        /\ Untouched

GoesOn(r) ==
    /\ req[r].stage = "open" /\ ~FeeIsLeft(r)
    /\ req' = [req EXCEPT ![r].stage = "paying"]
    /\ Untouched

LEMMA FeeKinds ==
    ASSUME TypeInv, NEW r \in Requests,
           \/ FindEventFees(r)
           \/ \E i \in Items : \E t \in Tickets \cup {Null} : CheckEventFee(r, i, t)
    PROVE  Dropped(r) \/ GoesOn(r) \/ \E e : TakesFee(r, e)
<1> DEFINE fee == EventFee(req[r].order)
<1>1. req[r] \in Reqs
  BY DEF TypeInv
<1>2. CASE req[r].stage = "open"
  <2>1. req[r].order \in Orders
    BY <1>2 DEF TypeInv, TypeOK, Sound, Open, Ended
  <2>2. fee \in Items /\ SeenItems(r)[fee] \in Nat
    <3>1. fee \in Items
      BY <2>1, FeeFacts
    <3>2. SeenItems(r)[fee] \in 0..QuantityOf(fee) /\ QuantityOf(fee) \in Nat
      BY <3>1, SeenIs, ItemFacts
    <3>3. QED
      BY <3>1, <3>2
  <2>3. CASE FindEventFees(r)
    <3>1. CASE FeeIsLeft(r)
      <4> DEFINE e == [req[r] EXCEPT !.stage = "freed", !.item = fee, !.last = TRUE,
                              !.withFee = FALSE, !.saw = SeenItems(r)[fee]]
      <4>1. req' = [req EXCEPT ![r] = e] /\ Untouched
        BY <2>3, <3>1 DEF FindEventFees
      <4>2. e \in Reqs
        BY <1>1, <2>2 DEF Reqs, Stages
      <4>3. /\ e.stage = "freed" /\ e.order = req[r].order
            /\ e.item = fee /\ ~e.withFee /\ e.saw = SeenItems(r)[fee]
            /\ e.items = req[r].items /\ e.rows = req[r].rows /\ e.tickets = req[r].tickets
            /\ e.due = req[r].due /\ e.given = req[r].given
        BY <1>1 DEF Reqs
      <4>4. SeenItems(r)[fee] # QuantityOf(fee)
        BY <3>1 DEF FeeIsLeft
      <4> HIDE DEF e
      <4>5. TakesFee(r, e)
        BY <1>2, <2>1, <3>1, <4>1, <4>2, <4>3, <4>4 DEF TakesFee
      <4>6. QED
        BY <4>5
    <3>2. CASE ~FeeIsLeft(r)
      BY <2>3, <3>2 DEF FindEventFees, GoesOn
    <3>3. QED
      BY <3>1, <3>2
  <2>4. ASSUME NEW i \in Items, NEW t \in Tickets \cup {Null}, CheckEventFee(r, i, t)
        PROVE  Dropped(r) \/ \E e : TakesFee(r, e)
    <3>1. i = fee /\ req[r].count < MaxItems
      BY <2>4, ItemFacts DEF CheckEventFee, CanNameNext
    <3>2. CASE Refuse(r)
      BY <1>2, <3>2 DEF Refuse, Dropped, Untouched, Ended, Late
    <3>3. CASE ~Refuse(r)
      <4> DEFINE e == [req[r] EXCEPT !.stage = "freed", !.count = @ + 1, !.item = i,
                                     !.named = @ \cup ({t} \ {Null}),
                                     !.withFee = FALSE, !.saw = SeenItems(r)[i]]
      <4>1. req' = [req EXCEPT ![r] = e] /\ Untouched /\ SeenItems(r)[fee] # QuantityOf(fee)
        <5>1. req' = [req EXCEPT ![r] = e] /\ Untouched /\ SeenItems(r)[i] # QuantityOf(i)
          BY <2>4, <3>3 DEF CheckEventFee
        <5>2. QED
          BY <3>1, <5>1
      <4>2. req[r].count + 1 \in 0..MaxItems
        BY <1>1, <3>1, FiniteAssumption DEF Reqs
      <4>3. e \in Reqs
        <5>1. PICK named, n : named = req[r].named \cup ({t} \ {Null}) /\ n = req[r].count + 1
          OBVIOUS
        <5>2. named \in SUBSET Tickets /\ n \in 0..MaxItems
          BY <1>1, <4>2, <5>1 DEF Reqs
        <5>3. e = [req[r] EXCEPT !.stage = "freed", !.count = n, !.item = i,
                       !.named = named, !.withFee = FALSE, !.saw = SeenItems(r)[i]]
          BY <5>1
        <5>4. i \in Items /\ SeenItems(r)[i] \in Nat
          BY <2>2, <3>1
        <5> HIDE DEF e
        <5>5. QED
          BY <1>1, <5>2, <5>3, <5>4 DEF Reqs, Stages
      <4>4. /\ e.stage = "freed" /\ e.order = req[r].order
            /\ e.item = fee /\ ~e.withFee /\ e.saw = SeenItems(r)[fee]
            /\ e.items = req[r].items /\ e.rows = req[r].rows /\ e.tickets = req[r].tickets
            /\ e.due = req[r].due /\ e.given = req[r].given /\ e.last = req[r].last
        BY <1>1, <3>1 DEF Reqs
      <4> HIDE DEF e
      <4>5. TakesFee(r, e)
        BY <1>2, <2>1, <4>1, <4>3, <4>4 DEF TakesFee
      <4>6. QED
        BY <4>5
    <3>4. QED
      BY <3>2, <3>3
  <2>5. QED
    BY <2>3, <2>4
<1>3. CASE req[r].stage # "open"
  BY <1>3 DEF FindEventFees, CheckEventFee, CanNameNext
<1>4. QED
  BY <1>2, <1>3

LEMMA StepKinds ==
    ASSUME TypeInv, NEW r \in Requests, Step(r)
    PROVE  \/ Dropped(r)
           \/ \E i \in Items, t \in Tickets : \E c \in Candidates(r, t) : Checks(r, i, t, c)
           \/ Frees(r)
           \/ \E e : TakesFee(r, e)
           \/ GoesOn(r)
           \/ TakeUnit(r)
           \/ MoveTokens(r)
           \/ PayBack(r)
           \/ Commit(r)
<1>1. req[r].stage \notin Late /\ Refuse(r) => Dropped(r)
  BY DEF Refuse, Dropped, Untouched, Ended
<1>2. ASSUME NEW i \in Items, NEW t \in Tickets, CheckTicket(r, i, t)
      PROVE  Dropped(r) \/ \E c \in Candidates(r, t) : Checks(r, i, t, c)
  <2> req[r].stage = "open"
    BY <1>2 DEF CheckTicket, CanNameNext
  <2>1. CASE Refuse(r)
    BY <1>1, <2>1 DEF Late
  <2>2. ASSUME ~Refuse(r)
        PROVE  Dropped(r) \/ \E c \in Candidates(r, t) : Checks(r, i, t, c)
    <3>1. PICK c \in Candidates(r, t) :
             \/ Ends(r, "already") /\ Untouched
             \/ /\ ~AlreadyRefunded(c[2], i)
                /\ SeenTickets(r)[t].wallet = OrderOf[SeenTickets(r)[t].line]
                /\ req' = [req EXCEPT ![r] = Checking(r, i, t, c)]
                /\ Untouched
      BY <1>2, <2>2 DEF CheckTicket
    <3>2. /\ CanNameNext(r, i) /\ i[1] # "EventFees"
          /\ SeenTickets(r)[t].line # Null
      BY <1>2, <2>2 DEF CheckTicket
    <3>3. CASE Ends(r, "already") /\ Untouched
      BY <3>3 DEF Dropped, Untouched, Ended, Late
    <3>4. CASE /\ ~AlreadyRefunded(c[2], i)
               /\ SeenTickets(r)[t].wallet = OrderOf[SeenTickets(r)[t].line]
               /\ req' = [req EXCEPT ![r] = Checking(r, i, t, c)]
               /\ Untouched
      <4>1. Checks(r, i, t, c)
        BY <3>2, <3>4 DEF Checks, AlreadyRefunded
      <4>2. QED
        BY <4>1
    <3>5. QED
      BY <3>1, <3>3, <3>4
  <2>3. QED
    BY <2>1, <2>2
<1>3. ASSUME Free(r)
      PROVE  Dropped(r) \/ Frees(r)
  <2>1. CASE Refuse(r)
    BY <1>1, <1>3, <2>1 DEF Free, Late
  <2>2. CASE ~Refuse(r)
    BY <1>3, <2>2 DEF Free, Frees
  <2>3. QED
    BY <2>1, <2>2
<1>4. ASSUME PayTooLittle(r) \/ ProviderRefuses(r) \/ AnswerLost(r) \/ Crash(r)
      PROVE  Dropped(r)
  BY <1>4 DEF PayTooLittle, ProviderRefuses, AnswerLost, Crash, GivesUp, Dropped, Ended
<1>5. ASSUME TokensRefused(r) \/ BreakDeadlock(r)
      PROVE  Dropped(r)
  <2>1. Deadlocked(r) => \E q \in Requests : WaitsFor(r, q)
    BY DEF Deadlocked
  <2>2. req[r].stage \notin Late
    BY <1>5, <2>1 DEF TokensRefused, BreakDeadlock, WaitsFor, Late
  <2>3. QED
    BY <1>1, <1>5, <2>2 DEF TokensRefused, BreakDeadlock
<1>6. QED
  BY <1>2, <1>3, <1>4, <1>5, FeeKinds DEF Step

-----------------------------------------------------------------------------
(* What the other kinds of steps do.                                       *)

\* The step in which a ticket is named and checked.
AfterChecks(r, i, t, c) ==
    /\ req' \in [Requests -> Reqs] /\ \A q \in Others(r) : req'[q] = req[q]
    /\ req[r].stage = "open" /\ req'[r].stage = "checked" /\ req'[r].order = req[r].order
    /\ req'[r].named = req[r].named \cup {t}
    /\ req'[r].item = i /\ req'[r].ticket = t /\ req'[r].line = SeenTickets(r)[t].line
    /\ req'[r].redeemed => SeenTickets(r)[t].status = "Redeemed"
    /\ ~req'[r].redeemed => SeenTickets(r)[t].status # "Redeemed"
    /\ req'[r].row = c[1] /\ req'[r].saw = SeenItems(r)[i]
    /\ req'[r].withFee => i[1] = "Tickets" /\ i[2] \in Charged
    /\ <<t, r, req[r].count + 1>> \in RowIds
    /\ req'[r].rows = Put(<<t, r, req[r].count + 1>>, "none", req[r].rows)
    /\ req'[r].items = req[r].items /\ req'[r].tickets = req[r].tickets
    /\ req'[r].due = req[r].due /\ req'[r].last = req[r].last /\ req'[r].given = req[r].given

\* A request that checks a ticket does this and nothing else.
LEMMA ChecksIs ==
    ASSUME TypeInv, NEW r \in Requests, NEW i \in Items, NEW t \in Tickets,
           NEW c \in Candidates(r, t), Checks(r, i, t, c)
    PROVE  AfterChecks(r, i, t, c)
<1> DEFINE seen == SeenTickets(r)[t]
           n == req[r].count + 1
           rows == Put(<<t, r, n>>, "none", req[r].rows)
           fee == c[2] = "none" /\ i[1] = "Tickets" /\ i[2] \in Charged
           red == seen.status = "Redeemed"
           saw == SeenItems(r)[i]
<1>1. /\ req[r] \in Reqs /\ req[r].stage = "open" /\ req[r].count < MaxItems
      /\ SeenTickets(r)[t].line # Null
      /\ req' = [req EXCEPT ![r] = Checking(r, i, t, c)]
  BY DEF TypeInv, Checks, CanNameNext
<1>2. n \in 0..MaxItems /\ <<t, r, n>> \in RowIds
  BY <1>1, FiniteAssumption DEF Reqs, RowIds
<1>3. rows \in RowWrites
  BY <1>1, <1>2, PartialPut DEF Reqs, RowWrites, Marks
<1>4. c[1] \in RowIds /\ c[2] \in Marks
  BY <1>1, CandidateIs
<1>5. seen.line \in Lines \cup {Null}
  BY SeenIs DEF TicketRows
<1>6. saw \in Nat
  <2>1. saw \in 0..QuantityOf(i) /\ QuantityOf(i) \in Nat
    BY SeenIs, ItemFacts
  <2>2. QED
    BY <2>1
<1>7. fee \in BOOLEAN /\ red \in BOOLEAN /\ (fee => i[1] = "Tickets" /\ i[2] \in Charged)
  OBVIOUS
<1> DEFINE e == [req[r] EXCEPT !.stage = "checked", !.count = n,
            !.named = @ \cup {t}, !.item = i, !.ticket = t,
            !.line = seen.line, !.redeemed = red, !.row = c[1], !.mark = c[2],
            !.withFee = fee, !.saw = saw, !.rows = rows]
<1>8. Checking(r, i, t, c) = e
  BY DEF Checking
<1> HIDE DEF n, rows, fee, red, saw, seen
<1>9. e \in Reqs
  BY <1>1, <1>2, <1>3, <1>4, <1>5, <1>6, <1>7, ZenonT(40) DEF Reqs, Stages
<1>10. /\ e.stage = "checked" /\ e.order = req[r].order
       /\ e.named = req[r].named \cup {t}
       /\ e.item = i /\ e.ticket = t /\ e.line = seen.line
       /\ e.redeemed = red /\ e.row = c[1] /\ e.saw = saw /\ e.withFee = fee /\ e.rows = rows
       /\ e.items = req[r].items /\ e.tickets = req[r].tickets
       /\ e.due = req[r].due /\ e.last = req[r].last /\ e.given = req[r].given
  BY <1>1 DEF Reqs
<1> HIDE DEF e
<1>11. /\ req' \in [Requests -> Reqs] /\ req'[r] = e
       /\ \A q \in Others(r) : req'[q] = req[q]
  BY <1>1, <1>8, <1>9, Replaced DEF TypeInv
<1>12. /\ e.redeemed => SeenTickets(r)[t].status = "Redeemed"
       /\ ~e.redeemed => SeenTickets(r)[t].status # "Redeemed"
       /\ e.withFee => i[1] = "Tickets" /\ i[2] \in Charged
  BY <1>7, <1>10 DEF red, seen
<1>13. /\ e.line = SeenTickets(r)[t].line /\ e.saw = SeenItems(r)[i]
       /\ e.rows = Put(<<t, r, req[r].count + 1>>, "none", req[r].rows)
       /\ <<t, r, req[r].count + 1>> \in RowIds
  BY <1>2, <1>10 DEF rows, saw, seen, n
<1>14. QED
  BY <1>1, <1>10, <1>11, <1>12, <1>13 DEF AfterChecks

LEMMA OpenIs ==
    ASSUME TypeInv, NEW r \in Requests, Open(r)
    PROVE  req[r] \in Reqs /\ req[r].order \in Orders /\ req[r].order \in sold
BY DEF TypeInv, TypeOK, Sound

\* The items a unit is taken of, and what they are worth.
LEMMA WrittenIs ==
    ASSUME TypeInv, NEW r \in Requests, req[r].stage = "freed"
    PROVE  /\ req[r].item \in Written(r) /\ Written(r) \subseteq Items
           /\ \A i \in Written(r) :
                 /\ OrderOfItem(i) = req[r].order
                 /\ IF i = req[r].item THEN req[r].saw + 1 \in 1..QuantityOf(i)
                    ELSE /\ req[r].withFee /\ i = FeeOf(req[r].item[2])
                         /\ req[r].sawFee + 1 \in 1..QuantityOf(i)
           /\ req[r].withFee => /\ Written(r) = {req[r].item, FeeOf(req[r].item[2])}
                                /\ FeeOf(req[r].item[2]) # req[r].item
                                /\ FeeOf(req[r].item[2])[1] = "PerUnitFees"
           /\ ~req[r].withFee => Written(r) = {req[r].item}
           /\ Due(r) \in Nat
<1> DEFINE i == req[r].item
           fee == FeeOf(i[2])
<1>1. /\ req[r] \in Reqs /\ i \in Items /\ OrderOfItem(i) = req[r].order
      /\ req[r].withFee => /\ i[1] = "Tickets" /\ i[2] \in Charged
                           /\ req[r].sawFee < QuantityOf(fee)
      /\ req[r].saw < QuantityOf(i)
  BY DEF TypeInv, Sound
<1>2. /\ QuantityOf(i) \in Nat /\ Price[i[1]] \in Nat /\ req[r].saw \in Nat
      /\ req[r].sawFee \in Nat /\ req[r].withFee \in BOOLEAN
  BY <1>1, ItemFacts DEF Reqs
<1>3. req[r].saw + 1 \in 1..QuantityOf(i)
  BY <1>1, <1>2
<1>4. CASE req[r].withFee
  <2>1. /\ fee \in Items /\ OrderOfItem(fee) = req[r].order /\ fee[1] = "PerUnitFees"
        /\ fee # i
    BY <1>1, <1>4, FeeFacts, ItemFacts
  <2>2. req[r].sawFee + 1 \in 1..QuantityOf(fee) /\ Price["PerUnitFees"] \in Nat
    BY <1>1, <1>2, <1>4, <2>1, ItemFacts
  <2>3. Written(r) = {i, fee} /\ Due(r) = Price[i[1]] + Price["PerUnitFees"]
    BY <1>4 DEF Written, Due
  <2> HIDE DEF fee
  <2>4. QED
    BY <1>1, <1>2, <1>3, <1>4, <2>1, <2>2, <2>3 DEF fee
<1>5. CASE ~req[r].withFee
  <2>1. Written(r) = {i} /\ Due(r) = Price[i[1]] + 0
    BY <1>5 DEF Written, Due
  <2>2. QED
    BY <1>1, <1>2, <1>3, <1>5, <2>1
<1>6. QED
  BY <1>2, <1>4, <1>5

LEMMA TakingIs ==
    ASSUME TypeInv, NEW r \in Requests, TakeUnit(r)
    PROVE  /\ req' \in [Requests -> Reqs] /\ \A q \in Others(r) : req'[q] = req[q]
           /\ req'[r].stage = (IF req[r].last THEN "paying" ELSE "open")
           /\ req'[r].order = req[r].order /\ req'[r].named = req[r].named
           /\ req'[r].rows = req[r].rows /\ req'[r].tickets = req[r].tickets
           /\ req'[r].due = req[r].due + Due(r) /\ req'[r].given = req[r].given
           /\ req'[r].last = req[r].last
           /\ DOMAIN req'[r].items = Written(r) \cup DOMAIN req[r].items
           /\ \A i \in Written(r) : req'[r].items[i] =
                 IF i = req[r].item THEN req[r].saw + 1 ELSE req[r].sawFee + 1
           /\ \A i \in DOMAIN req[r].items \ Written(r) : req'[r].items[i] = req[r].items[i]
<1> DEFINE new == [i \in Written(r) |->
                      IF i = req[r].item THEN req[r].saw + 1 ELSE req[r].sawFee + 1]
           items == Over(new, req[r].items)
           due == req[r].due + Due(r)
           stage == IF req[r].last THEN "paying" ELSE "open"
           e == [req[r] EXCEPT !.stage = stage, !.items = items, !.due = due]
<1>1. req[r] \in Reqs /\ req[r].stage = "freed"
  BY DEF TypeInv, TakeUnit
<1>2. req' = [req EXCEPT ![r] = e]
  BY DEF TakeUnit
<1>3. due \in Nat /\ stage \in Stages
  BY <1>1, WrittenIs DEF Reqs, Stages
<1>4. items \in ItemWrites
  <2>1. new \in [Written(r) -> Nat] /\ Written(r) \in SUBSET Items
    BY <1>1, WrittenIs DEF Reqs
  <2>2. new \in PartialOn(Items, Nat)
    BY <2>1 DEF PartialOn
  <2>3. QED
    BY <1>1, <2>2, PartialOver DEF ItemWrites, Reqs
<1>5. /\ DOMAIN items = Written(r) \cup DOMAIN req[r].items
      /\ \A i \in Written(r) : items[i] = new[i]
      /\ \A i \in DOMAIN req[r].items \ Written(r) : items[i] = req[r].items[i]
  BY DEF Over
<1> HIDE DEF items, due, stage
<1>6. e \in Reqs
  BY <1>1, <1>3, <1>4 DEF Reqs
<1>7. /\ e.stage = stage /\ e.order = req[r].order /\ e.named = req[r].named
      /\ e.rows = req[r].rows /\ e.tickets = req[r].tickets
      /\ e.due = due /\ e.given = req[r].given /\ e.last = req[r].last /\ e.items = items
  BY <1>1 DEF Reqs
<1> HIDE DEF e
<1>8. req' \in [Requests -> Reqs] /\ req'[r] = e /\ \A q \in Others(r) : req'[q] = req[q]
  BY <1>2, <1>6, Replaced DEF TypeInv
<1>9. QED
  BY <1>5, <1>7, <1>8 DEF due, stage

\* The step in which the tokens and rows of returned tickets move.
AfterMove(r) ==
    /\ req' \in [Requests -> Reqs] /\ \A q \in Others(r) : req'[q] = req[q]
    /\ req'[r].stage = "moved" /\ req'[r].order = req[r].order
    /\ req'[r].named = req[r].named
    /\ req'[r].rows = req[r].rows /\ req'[r].items = req[r].items
    /\ req'[r].due = req[r].due /\ req'[r].given = req[r].given
    /\ req'[r].last = req[r].last
    /\ Returned(r) \subseteq Tickets /\ req'[r].moved = Returned(r)
    /\ \A t \in Returned(r) : chain[t] = req'[r].from
    /\ DOMAIN req'[r].tickets = Returned(r) \cup DOMAIN req[r].tickets
    /\ \A t \in Returned(r) :
          req'[r].tickets[t] = [SeenTickets(r)[t] EXCEPT !.wallet = Org]
    /\ \A t \in DOMAIN req[r].tickets \ Returned(r) :
          req'[r].tickets[t] = req[r].tickets[t]

LEMMA MovingIs ==
    ASSUME TypeInv, NEW r \in Requests, MoveTokens(r)
    PROVE  AfterMove(r)
<1> DEFINE new == [t \in Returned(r) |-> [SeenTickets(r)[t] EXCEPT !.wallet = Org]]
           tickets == Over(new, req[r].tickets)
<1>1. req[r] \in Reqs
  BY DEF TypeInv
<1>2. Returned(r) \subseteq Tickets
  BY <1>1 DEF Returned, Reqs
<1>3. PICK w \in Senders(r) :
         /\ \A t \in Returned(r) : chain[t] = w
         /\ req' = [req EXCEPT ![r] =
               [req[r] EXCEPT !.stage = "moved", !.moved = Returned(r), !.from = w,
                              !.tickets = tickets]]
  BY DEF MoveTokens
<1> DEFINE e == [req[r] EXCEPT !.stage = "moved", !.moved = Returned(r), !.from = w,
                               !.tickets = tickets]
<1>10. w \in Orders \cup {Org}
  <2>1. \A t \in Returned(r) : SeenTickets(r)[t].wallet \in Orders \cup {Org}
    BY <1>2, SeenIs DEF TicketRows
  <2>2. QED
    BY <2>1 DEF Senders
<1>4. tickets \in TicketWrites
  <2>1. \A t \in Returned(r) : [SeenTickets(r)[t] EXCEPT !.wallet = Org] \in TicketRows
    <3>1. \A t \in Returned(r) : SeenTickets(r)[t] \in TicketRows
      BY <1>2, SeenIs
    <3>2. QED
      BY <3>1 DEF TicketRows
  <2>2. new \in [Returned(r) -> TicketRows] /\ Returned(r) \in SUBSET Tickets
    BY <1>2, <2>1
  <2>3. new \in PartialOn(Tickets, TicketRows)
    BY <2>2 DEF PartialOn
  <2>4. QED
    BY <1>1, <2>3, PartialOver DEF TicketWrites, Reqs
<1>5. /\ DOMAIN tickets = Returned(r) \cup DOMAIN req[r].tickets
      /\ \A t \in Returned(r) : tickets[t] = new[t]
      /\ \A t \in DOMAIN req[r].tickets \ Returned(r) : tickets[t] = req[r].tickets[t]
  BY DEF Over
<1> HIDE DEF tickets
<1>6. e \in Reqs
  BY <1>1, <1>2, <1>4, <1>10 DEF Reqs, Stages
<1>7. /\ e.stage = "moved" /\ e.order = req[r].order /\ e.named = req[r].named
      /\ e.rows = req[r].rows /\ e.tickets = tickets
      /\ e.moved = Returned(r) /\ e.from = w
      /\ e.due = req[r].due /\ e.given = req[r].given /\ e.last = req[r].last
      /\ e.items = req[r].items
  BY <1>1 DEF Reqs
<1>11. req' = [req EXCEPT ![r] = e]
  BY <1>3
<1> HIDE DEF e
<1>8. req' \in [Requests -> Reqs] /\ req'[r] = e /\ \A q \in Others(r) : req'[q] = req[q]
  BY <1>6, <1>11, Replaced DEF TypeInv
<1>9. QED
  BY <1>2, <1>3, <1>5, <1>7, <1>8 DEF AfterMove

LEMMA AmountIs ==
    ASSUME TypeInv, NEW r \in Requests, Open(r)
    PROVE  /\ Paid(req[r].order) \in Nat /\ Amount(r) \in Nat /\ Amount(r) <= req[r].due
           /\ Paid(req[r].order) - back[req[r].order] >= req[r].due => Amount(r) = req[r].due
           /\ ~AsksProvider(r) => Amount(r) = 0
<1> DEFINE b == Paid(req[r].order) - back[req[r].order]
           d == req[r].due
<1>1. d \in Nat /\ back[req[r].order] \in Nat
  BY OpenIs DEF Reqs, TypeInv, TypeOK
<1>2. Paid(req[r].order) \in Nat
  <2>1. [i \in Items |-> QuantityOf(i)] \in [Items -> Nat]
    BY ItemFacts
  <2>2. QED
    BY <2>1, WorthIs DEF Paid
<1>3. b \in Int /\ (~AsksProvider(r) => b = 0)
  BY <1>1, <1>2 DEF AsksProvider
<1>4. Amount(r) = IF b < 0 THEN d ELSE Min({d, b})
  BY DEF Amount
<1> HIDE DEF b, d
<1>5. Min({d, b}) = IF d <= b THEN d ELSE b
  <2> DEFINE m == IF d <= b THEN d ELSE b
  <2>1. m \in {d, b} /\ \A y \in {d, b} : m <= y
    BY <1>1, <1>3
  <2>2. \A x \in {d, b} : (\A y \in {d, b} : x <= y) => x = m
    BY <1>1, <1>3
  <2> HIDE DEF m
  <2>3. Min({d, b}) = m
    BY <2>1, <2>2 DEF Min
  <2>4. QED
    BY <2>3 DEF m
<1>6. QED
  BY <1>1, <1>2, <1>3, <1>4, <1>5 DEF b, d

LEMMA PayingIs ==
    ASSUME TypeInv, NEW r \in Requests, PayBack(r)
    PROVE  /\ req' \in [Requests -> Reqs] /\ \A q \in Others(r) : req'[q] = req[q]
           /\ req'[r].stage = "paid" /\ req'[r].order = req[r].order
           /\ req'[r].named = req[r].named
           /\ req'[r].rows = req[r].rows /\ req'[r].items = req[r].items
           /\ req'[r].tickets = req[r].tickets
           /\ req'[r].moved = req[r].moved /\ req'[r].from = req[r].from
           /\ req'[r].due = req[r].due /\ req'[r].given = Amount(r)
           /\ req'[r].last = req[r].last /\ Amount(r) = req[r].due
<1> DEFINE e == [req[r] EXCEPT !.stage = "paid", !.given = Amount(r)]
<1>1. req[r] \in Reqs /\ req[r].stage = "moved" /\ Amount(r) >= req[r].due
  BY DEF TypeInv, PayBack
<1>2. Amount(r) \in Nat /\ Amount(r) <= req[r].due /\ req[r].due \in Nat
  BY <1>1, AmountIs DEF Open, Ended, Reqs
<1>3. req' = [req EXCEPT ![r] = e]
  BY <1>1 DEF PayBack, TypeInv
<1>4. e \in Reqs
  BY <1>1, <1>2 DEF Reqs, Stages
<1>5. /\ e.stage = "paid" /\ e.order = req[r].order /\ e.named = req[r].named
      /\ e.rows = req[r].rows /\ e.tickets = req[r].tickets
      /\ e.moved = req[r].moved /\ e.from = req[r].from
      /\ e.due = req[r].due /\ e.given = Amount(r) /\ e.last = req[r].last
      /\ e.items = req[r].items
  BY <1>1 DEF Reqs
<1> HIDE DEF e
<1>6. req' \in [Requests -> Reqs] /\ req'[r] = e /\ \A q \in Others(r) : req'[q] = req[q]
  BY <1>3, <1>4, Replaced DEF TypeInv
<1>7. QED
  BY <1>1, <1>2, <1>5, <1>6

-----------------------------------------------------------------------------
(* Types.                                                                  *)

RestOK ==
    /\ sold \subseteq Orders
    /\ ticket \in [Tickets -> TicketRows]
    /\ members \in [Lines -> SUBSET Tickets] /\ used \subseteq Tickets
    /\ DOMAIN refunded = Items /\ \A i \in Items : refunded[i] \in 0..QuantityOf(i)
    /\ record \in RowWrites
    /\ back \in [Orders -> Nat] /\ out \in [Orders -> Nat]
    /\ chain \in [Tickets -> Orders \cup {Org}]
    /\ past \subseteq {"overlap"} \cup FaultKinds

LEMMA RestIs == TypeInv => RestOK
BY DEF TypeInv, TypeOK, RestOK

LEMMA ReqTypes ==
    ASSUME NEW e \in Reqs
    PROVE  /\ e.stage \in Stages /\ e.order \in Orders \cup {Null}
           /\ e.item \in Items \cup {Null} /\ e.count \in 0..MaxItems
           /\ e.named \subseteq Tickets /\ e.moved \subseteq Tickets
           /\ e.from \in Orders \cup {Org} /\ DOMAIN e.items \subseteq Items
           /\ \A k \in DOMAIN e.rows : k \in RowIds /\ e.rows[k] \in Marks
           /\ \A t \in DOMAIN e.tickets : t \in Tickets /\ e.tickets[t] \in TicketRows
<1>1. e.items \in ItemWrites /\ e.rows \in RowWrites /\ e.tickets \in TicketWrites
  BY DEF Reqs
<1>2. DOMAIN e.items \subseteq Items
  BY <1>1, PartialIs DEF ItemWrites
<1>3. \A k \in DOMAIN e.rows : k \in RowIds /\ e.rows[k] \in Marks
  BY <1>1, PartialIs DEF RowWrites
<1>4. \A t \in DOMAIN e.tickets : t \in Tickets /\ e.tickets[t] \in TicketRows
  BY <1>1, PartialIs DEF TicketWrites
<1>5. QED
  BY <1>2, <1>3, <1>4 DEF Reqs

LEMMA TypeFollows ==
    ASSUME RestOK, req \in [Requests -> Reqs], \A r \in Requests : Sound(r)
    PROVE  TypeInv
<1>1. \A k \in DOMAIN record : k \in RowIds /\ record[k] \in Marks
  BY PartialIs DEF RestOK, RowWrites
<1>2. ASSUME NEW r \in Requests
      PROVE  /\ req[r].stage \in Stages /\ req[r].order \in Orders \cup {Null}
             /\ req[r].item \in Items \cup {Null} /\ req[r].count \in 0..MaxItems
             /\ req[r].named \subseteq Tickets /\ req[r].moved \subseteq Tickets
             /\ req[r].from \in Orders \cup {Org}
             /\ DOMAIN req[r].items \subseteq Items
             /\ \A i \in DOMAIN req[r].items : req[r].items[i] \in 1..QuantityOf(i)
             /\ \A k \in DOMAIN req[r].rows : k \in RowIds /\ req[r].rows[k] \in Marks
             /\ \A t \in DOMAIN req[r].tickets : t \in Tickets /\ req[r].tickets[t] \in TicketRows
  BY ReqTypes DEF Sound
<1>3. TypeOK
  BY <1>1, <1>2 DEF TypeOK, RestOK
<1>4. QED
  BY <1>3 DEF TypeInv, RestOK

LEMMA TypeFollowsNext ==
    ASSUME RestOK', req' \in [Requests -> Reqs], \A r \in Requests : Sound(r)'
    PROVE  TypeInv'
<1>1. \A k \in DOMAIN record' : k \in RowIds /\ record'[k] \in Marks
  BY PartialIs DEF RestOK, RowWrites
<1>2. ASSUME NEW r \in Requests
      PROVE  /\ req'[r].stage \in Stages /\ req'[r].order \in Orders \cup {Null}
             /\ req'[r].item \in Items \cup {Null} /\ req'[r].count \in 0..MaxItems
             /\ req'[r].named \subseteq Tickets /\ req'[r].moved \subseteq Tickets
             /\ req'[r].from \in Orders \cup {Org}
             /\ DOMAIN req'[r].items \subseteq Items
             /\ \A i \in DOMAIN req'[r].items : req'[r].items[i] \in 1..QuantityOf(i)
             /\ \A k \in DOMAIN req'[r].rows : k \in RowIds /\ req'[r].rows[k] \in Marks
             /\ \A t \in DOMAIN req'[r].tickets : t \in Tickets /\ req'[r].tickets[t] \in TicketRows
  BY ReqTypes DEF Sound
<1>3. TypeOK'
  BY <1>1, <1>2 DEF TypeOK, RestOK
<1>4. QED
  BY <1>3 DEF TypeInv, RestOK

LEMMA SoundStays ==
    ASSUME NEW q \in Requests, Sound(q), req'[q] = req[q], sold \subseteq sold'
    PROVE  Sound(q)'
BY DEF Sound, Open

LEMMA SoundOthers ==
    ASSUME TypeInv, NEW r \in Requests, \A q \in Others(r) : req'[q] = req[q],
           sold \subseteq sold', Sound(r)'
    PROVE  \A q \in Requests : Sound(q)'
BY SoundStays DEF TypeInv, Others

LEMMA UntouchedTypes == TypeInv /\ Untouched => RestOK' /\ sold' = sold
BY DEF TypeInv, TypeOK, RestOK, Untouched

LEMMA ProviderTypes ==
    ASSUME TypeInv, NEW r \in Requests, Open(r), ProviderPays(r)
    PROVE  out' \in [Orders -> Nat]
<1>1. Amount(r) \in Nat /\ out \in [Orders -> Nat]
  BY AmountIs DEF TypeInv, TypeOK
<1> DEFINE o == req[r].order
<1>2. o \in Orders /\ out[o] + Amount(r) \in Nat
  BY <1>1, OpenIs
<1>3. out' = IF AsksProvider(r) THEN [out EXCEPT ![o] = out[o] + Amount(r)] ELSE out
  BY DEF ProviderPays
<1>4. QED
  BY <1>1, <1>2, <1>3

LEMMA GivesUpTypes ==
    ASSUME TypeInv, NEW r \in Requests, GivesUp(r)
    PROVE  /\ out' \in [Orders -> Nat] /\ chain' \in [Tickets -> Orders \cup {Org}]
           /\ past' \subseteq {"overlap"} \cup FaultKinds
<1>1. req[r].stage = "moved" /\ Open(r)
  BY DEF GivesUp, PayTooLittle, ProviderRefuses, AnswerLost, Open, Ended
<1>2. out' \in [Orders -> Nat]
  BY <1>1, ProviderTypes DEF GivesUp, PayTooLittle, ProviderRefuses, AnswerLost, TypeInv, TypeOK
<1>3. GiveTokensBack(r, {}) \/ GiveTokensBack(r, {"answer"})
  BY DEF GivesUp, PayTooLittle, ProviderRefuses, AnswerLost
<1>4. req[r].from \in Orders \cup {Org}
  BY DEF TypeInv, TypeOK
<1>5. chain' \in [Tickets -> Orders \cup {Org}]
  BY <1>3, <1>4 DEF GiveTokensBack, TypeInv, TypeOK
<1>6. past' \subseteq {"overlap"} \cup FaultKinds
  BY <1>3 DEF GiveTokensBack, TypeInv, TypeOK, FaultKinds
<1>7. QED
  BY <1>2, <1>5, <1>6

LEMMA DroppedTypes ==
    ASSUME TypeInv, NEW r \in Requests, Dropped(r)
    PROVE  TypeInv'
<1>1. PICK st \in Ended : Ends(r, st)
  BY DEF Dropped
<1>2. /\ req' \in [Requests -> Reqs] /\ \A q \in Others(r) : req'[q] = req[q]
      /\ req'[r].stage = st /\ ~Open(r)'
      /\ req'[r].items = Nothing /\ req'[r].rows = Nothing /\ req'[r].tickets = Nothing
      /\ req'[r].named = {} /\ req'[r].due = 0 /\ req'[r].given = 0 /\ ~req'[r].last
  BY <1>1, EndsIs DEF TypeInv
<1>3. Sound(r)'
  BY <1>2, NothingIs DEF Sound, Ended
<1>4. /\ out' \in [Orders -> Nat] /\ chain' \in [Tickets -> Orders \cup {Org}]
      /\ past' \subseteq {"overlap"} \cup FaultKinds
  <2>1. CASE Untouched
    BY <2>1 DEF Untouched, TypeInv, TypeOK
  <2>2. CASE Crash(r)
    BY <2>2 DEF Crash, TypeInv, TypeOK, FaultKinds
  <2>3. QED
    BY <2>1, <2>2, GivesUpTypes DEF Dropped
<1>5. RestOK'
  BY <1>4, RestIs DEF RestOK, Dropped
<1>6. QED
  BY <1>2, <1>3, <1>5, SoundOthers, TypeFollowsNext DEF Dropped

LEMMA ChecksTypes ==
    ASSUME TypeInv, NEW r \in Requests, NEW i \in Items, NEW t \in Tickets,
           NEW c \in Candidates(r, t), Checks(r, i, t, c)
    PROVE  TypeInv'
<1>1. /\ req[r].stage = "open" /\ req[r].count < MaxItems /\ OrderOfItem(i) = req[r].order
      /\ i[1] # "EventFees" /\ SeenTickets(r)[t].line # Null /\ Untouched
  BY DEF Checks, CanNameNext
<1>2. c[1] \in RowIds /\ c[1][1] = t
  BY <1>1, CandidateIs
<1>3. SeenItems(r)[i] \in 0..QuantityOf(i) /\ QuantityOf(i) \in Nat
  BY SeenIs, ItemFacts
<1>4. SeenTickets(r)[t].line \in Lines
  <2>1. SeenTickets(r)[t] \in TicketRows
    BY SeenIs
  <2>2. QED
    BY <1>1, <2>1 DEF TicketRows
<1>5. /\ req'[r].stage = "checked" /\ req'[r].order = req[r].order
      /\ req'[r].named = req[r].named \cup {t}
      /\ req'[r].item = i /\ req'[r].ticket = t /\ req'[r].line = SeenTickets(r)[t].line
      /\ req'[r].row = c[1] /\ req'[r].saw = SeenItems(r)[i]
      /\ req'[r].withFee => i[1] = "Tickets" /\ i[2] \in Charged
      /\ req'[r].items = req[r].items
      /\ \A q \in Others(r) : req'[q] = req[q]
      /\ req' \in [Requests -> Reqs]
  <2>1. AfterChecks(r, i, t, c)
    BY ChecksIs
  <2>2. QED
    BY <2>1 DEF AfterChecks
<1>6. Sound(r)'
  BY <1>1, <1>2, <1>3, <1>4, <1>5 DEF Sound, Open, Ended, Untouched, TypeInv
<1>7. QED
  BY <1>1, <1>5, <1>6, SoundOthers, TypeFollowsNext, UntouchedTypes

LEMMA FreesTypes ==
    ASSUME TypeInv, NEW r \in Requests, Frees(r)
    PROVE  TypeInv'
<1> DEFINE e == Freeing(r)
           i == req[r].item
<1>1. /\ req[r].stage = "checked" /\ req' = [req EXCEPT ![r] = e] /\ Untouched
      /\ req[r].saw # QuantityOf(i)
      /\ req[r].withFee => SeenItems(r)[FeeOf(i[2])] # QuantityOf(FeeOf(i[2]))
  BY DEF Frees
<1>2. /\ e \in Reqs
      /\ e.stage = "freed" /\ e.order = req[r].order
      /\ e.item = i /\ e.saw = req[r].saw /\ e.withFee = req[r].withFee
      /\ e.withFee => e.sawFee = SeenItems(r)[FeeOf(i[2])]
      /\ e.items = req[r].items
  BY <1>1, FreeingIs
<1> HIDE DEF e
<1>3. req' \in [Requests -> Reqs] /\ req'[r] = e /\ \A q \in Others(r) : req'[q] = req[q]
  BY <1>1, <1>2, Replaced DEF TypeInv
<1>4. /\ i \in Items /\ OrderOfItem(i) = req[r].order /\ req[r].saw <= QuantityOf(i)
      /\ req[r].withFee => i[1] = "Tickets" /\ i[2] \in Charged
      /\ req[r].saw \in Nat
  BY <1>1 DEF TypeInv, Sound, Reqs
<1>5. req[r].saw < QuantityOf(i)
  BY <1>1, <1>4, ItemFacts
<1>6. req[r].withFee => SeenItems(r)[FeeOf(i[2])] < QuantityOf(FeeOf(i[2]))
  <2> SUFFICES ASSUME req[r].withFee
               PROVE  SeenItems(r)[FeeOf(i[2])] < QuantityOf(FeeOf(i[2]))
    OBVIOUS
  <2> DEFINE fee == FeeOf(i[2])
  <2>1. fee \in Items
    BY <1>4, FeeFacts
  <2> HIDE DEF fee
  <2>2. SeenItems(r)[fee] \in 0..QuantityOf(fee) /\ QuantityOf(fee) \in Nat
    BY <2>1, SeenIs, ItemFacts
  <2>3. SeenItems(r)[fee] # QuantityOf(fee)
    BY <1>1 DEF fee
  <2>4. SeenItems(r)[fee] < QuantityOf(fee)
    BY <2>2, <2>3
  <2>5. QED
    BY <2>4 DEF fee
<1>7. Sound(r)'
  BY <1>1, <1>2, <1>3, <1>4, <1>5, <1>6 DEF Sound, Open, Ended, Untouched, TypeInv
<1>8. QED
  BY <1>1, <1>3, <1>7, SoundOthers, TypeFollowsNext, UntouchedTypes

LEMMA TakesFeeTypes ==
    ASSUME TypeInv, NEW r \in Requests, NEW e, TakesFee(r, e)
    PROVE  TypeInv'
<1> DEFINE fee == EventFee(req[r].order)
<1>1. /\ req[r].stage = "open" /\ req[r].order \in Orders
      /\ SeenItems(r)[fee] # QuantityOf(fee)
      /\ e \in Reqs
      /\ e.stage = "freed" /\ e.order = req[r].order
      /\ e.item = fee /\ ~e.withFee /\ e.saw = SeenItems(r)[fee]
      /\ e.items = req[r].items
      /\ req' = [req EXCEPT ![r] = e]
      /\ Untouched
  BY DEF TakesFee
<1>2. req' \in [Requests -> Reqs] /\ req'[r] = e /\ \A q \in Others(r) : req'[q] = req[q]
  BY <1>1, Replaced DEF TypeInv
<1>3. fee \in Items /\ OrderOfItem(fee) = req[r].order
  BY <1>1, FeeFacts
<1> HIDE DEF fee
<1>4. SeenItems(r)[fee] \in 0..QuantityOf(fee) /\ QuantityOf(fee) \in Nat
  BY <1>3, SeenIs, ItemFacts
<1>5. SeenItems(r)[fee] < QuantityOf(fee)
  BY <1>1, <1>4
<1>6. Sound(r)'
  BY <1>1, <1>2, <1>3, <1>5 DEF Sound, Open, Ended, Untouched, TypeInv
<1>7. QED
  BY <1>1, <1>2, <1>6, SoundOthers, TypeFollowsNext, UntouchedTypes

LEMMA GoesOnIs ==
    ASSUME TypeInv, NEW r \in Requests, GoesOn(r)
    PROVE  /\ req' \in [Requests -> Reqs] /\ \A q \in Others(r) : req'[q] = req[q]
           /\ req[r].stage = "open" /\ req'[r].stage = "paying" /\ req'[r].order = req[r].order
           /\ req'[r].named = req[r].named
           /\ req'[r].rows = req[r].rows /\ req'[r].items = req[r].items
           /\ req'[r].tickets = req[r].tickets
           /\ req'[r].due = req[r].due /\ req'[r].given = req[r].given
           /\ req'[r].last = req[r].last
<1> DEFINE e == [req[r] EXCEPT !.stage = "paying"]
<1>1. req[r] \in Reqs /\ req[r].stage = "open"
  BY DEF TypeInv, GoesOn
<1>2. req' = [req EXCEPT ![r] = e]
  BY <1>1 DEF GoesOn, TypeInv
<1>3. e \in Reqs
  BY <1>1 DEF Reqs, Stages
<1>4. /\ e.stage = "paying" /\ e.order = req[r].order /\ e.named = req[r].named
      /\ e.rows = req[r].rows /\ e.tickets = req[r].tickets
      /\ e.due = req[r].due /\ e.given = req[r].given /\ e.last = req[r].last
      /\ e.items = req[r].items
  BY <1>1 DEF Reqs
<1> HIDE DEF e
<1>5. req' \in [Requests -> Reqs] /\ req'[r] = e /\ \A q \in Others(r) : req'[q] = req[q]
  BY <1>2, <1>3, Replaced DEF TypeInv
<1>6. QED
  BY <1>1, <1>4, <1>5

LEMMA GoesOnTypes ==
    ASSUME TypeInv, NEW r \in Requests, GoesOn(r)
    PROVE  TypeInv'
<1>1. Untouched
  BY DEF GoesOn
<1>2. Sound(r)'
  BY <1>1, GoesOnIs DEF Sound, Open, Ended, TypeInv, Untouched
<1>3. QED
  BY <1>1, <1>2, GoesOnIs, SoundOthers, TypeFollowsNext, UntouchedTypes

LEMMA TakeTypes ==
    ASSUME TypeInv, NEW r \in Requests, TakeUnit(r)
    PROVE  TypeInv'
<1>1. Untouched /\ req[r].stage = "freed"
  BY DEF TakeUnit
<1>2. ASSUME NEW j \in DOMAIN req'[r].items
      PROVE  OrderOfItem(j) = req[r].order /\ req'[r].items[j] \in 1..QuantityOf(j)
  <2>1. CASE j \in Written(r)
    BY <1>1, <2>1, TakingIs, WrittenIs
  <2>2. CASE j \in DOMAIN req[r].items \ Written(r)
    BY <2>2, TakingIs DEF TypeInv, Sound
  <2>3. QED
    BY <2>1, <2>2, TakingIs
<1>3. /\ req'[r].stage \in {"open", "paying"} /\ req'[r].order = req[r].order
      /\ req[r].order \in sold /\ sold' = sold
  BY <1>1, TakingIs DEF TypeInv, Sound, Open, Ended, Untouched
<1>4. Sound(r)'
  BY <1>2, <1>3 DEF Sound, Open, Ended
<1>5. QED
  BY <1>1, <1>4, TakingIs, SoundOthers, TypeFollowsNext, UntouchedTypes

LEMMA MoveTypes ==
    ASSUME TypeInv, NEW r \in Requests, MoveTokens(r)
    PROVE  TypeInv'
<1>1. /\ UNCHANGED <<sold, ticket, members, used, refunded, record, back, out, past>>
      /\ req[r].stage = "paying"
      /\ chain' = [t \in Tickets |-> IF t \in Returned(r) THEN Org ELSE chain[t]]
  BY DEF MoveTokens
<1>2. RestOK'
  BY <1>1, RestIs DEF RestOK
<1>3. Sound(r)'
  BY <1>1, MovingIs DEF AfterMove, Sound, Open, Ended, TypeInv
<1>4. QED
  BY <1>1, <1>2, <1>3, MovingIs, SoundOthers, TypeFollowsNext DEF AfterMove

LEMMA PayTypes ==
    ASSUME TypeInv, NEW r \in Requests, PayBack(r)
    PROVE  TypeInv'
<1>1. /\ UNCHANGED <<sold, ticket, members, used, refunded, record, back, chain, past>>
      /\ req[r].stage = "moved" /\ ProviderPays(r)
  BY DEF PayBack
<1>2. RestOK'
  BY <1>1, ProviderTypes, RestIs DEF RestOK, Open, Ended
<1>3. Sound(r)'
  BY <1>1, PayingIs DEF Sound, Open, Ended, TypeInv
<1>4. QED
  BY <1>1, <1>2, <1>3, PayingIs, SoundOthers, TypeFollowsNext

LEMMA CommitTypes ==
    ASSUME TypeInv, NEW r \in Requests, Commit(r)
    PROVE  TypeInv'
<1>1. /\ UNCHANGED <<sold, members, used, out, chain, past>>
      /\ req[r].stage = "paid" /\ Ends(r, "done") /\ "done" \in Ended
      /\ ticket' = SeenTickets(r) /\ refunded' = SeenItems(r) /\ record' = SeenRows(r)
      /\ back' = [back EXCEPT ![req[r].order] = @ + req[r].given]
  BY DEF Commit, Ended
<1>2. back' \in [Orders -> Nat]
  <2>1. back \in [Orders -> Nat] /\ req[r].given \in Nat
    BY DEF TypeInv, TypeOK, Reqs
  <2> DEFINE o == req[r].order
  <2>2. back' = [back EXCEPT ![o] = back[o] + req[r].given]
    BY <1>1
  <2>3. o \in Orders
    BY <1>1, OpenIs DEF Open, Ended
  <2> HIDE DEF o
  <2>4. QED
    BY <2>1, <2>2, <2>3
<1>3. RestOK'
  BY <1>1, <1>2, SeenIs, RestIs DEF RestOK
<1>4. /\ req' \in [Requests -> Reqs] /\ \A q \in Others(r) : req'[q] = req[q]
      /\ req'[r].stage = "done" /\ ~Open(r)'
      /\ req'[r].items = Nothing /\ req'[r].rows = Nothing /\ req'[r].tickets = Nothing
      /\ req'[r].named = {} /\ req'[r].due = 0 /\ req'[r].given = 0 /\ ~req'[r].last
  BY <1>1, EndsIs DEF TypeInv
<1>5. Sound(r)'
  BY <1>4, NothingIs DEF Sound
<1>6. QED
  BY <1>1, <1>3, <1>4, <1>5, SoundOthers, TypeFollowsNext

-----------------------------------------------------------------------------
(* Sales, the door, a request that begins.                                 *)

\* The step in which an order is sold.
AfterSell(o) ==
    /\ o \notin sold /\ sold' = sold \cup {o}
    /\ UNCHANGED <<used, refunded, record, back, out, req, past>>
    /\ members' \in [Lines -> SUBSET Tickets]
    /\ \A l \in Lines : OrderOf[l] # o => members'[l] = members[l]
    /\ ticket' \in [Tickets -> TicketRows] /\ chain' \in [Tickets -> Orders \cup {Org}]
    /\ \A t \in Tickets :
          \/ /\ ticket'[t] = ticket[t] /\ chain'[t] = chain[t]
             /\ \A l \in Lines : OrderOf[l] = o => t \notin members'[l]
          \/ /\ CanBeTaken(t)
             /\ ticket'[t].status = "Purchased" /\ ticket'[t].wallet = o /\ chain'[t] = o
             /\ ticket'[t].line \in Lines /\ OrderOf[ticket'[t].line] = o
             /\ t \in members'[ticket'[t].line]

LEMMA SellIs ==
    ASSUME TypeInv, NEW o \in Orders, Sell(o)
    PROVE  AfterSell(o)
<1> DEFINE L == {l \in Lines : OrderOf[l] = o}
<1>1. PICK T \in [L -> SUBSET Tickets] :
        /\ \A l \in DOMAIN T :
              \A t \in T[l] : CanBeTaken(t)
        /\ ticket' = [t \in Tickets |->
              IF \E l \in DOMAIN T : t \in T[l]
              THEN [status |-> "Purchased", wallet |-> o,
                    line |-> CHOOSE l \in DOMAIN T : t \in T[l]]
              ELSE ticket[t]]
        /\ chain' = [t \in Tickets |-> IF \E l \in DOMAIN T : t \in T[l] THEN o ELSE chain[t]]
        /\ members' = Over(T, members)
  BY DEF Sell
<1>2. /\ DOMAIN T = L /\ \A l \in L : T[l] \in SUBSET Tickets
      /\ \A l \in Lines : OrderOf[l] = o <=> l \in L
      /\ L \subseteq Lines
  BY <1>1
<1>3. /\ members \in [Lines -> SUBSET Tickets] /\ ticket \in [Tickets -> TicketRows]
      /\ chain \in [Tickets -> Orders \cup {Org}]
  BY DEF TypeInv, TypeOK
<1> HIDE DEF L
<1>4. /\ members' \in [Lines -> SUBSET Tickets]
      /\ \A l \in L : members'[l] = T[l]
      /\ \A l \in Lines \ L : members'[l] = members[l]
  BY <1>1, <1>2, <1>3 DEF Over
<1>5. ASSUME NEW t \in Tickets, \A l \in L : t \notin T[l]
      PROVE  ticket'[t] = ticket[t] /\ chain'[t] = chain[t]
  BY <1>1, <1>2, <1>5
<1>6. ASSUME NEW t \in Tickets, NEW m \in L, t \in T[m]
      PROVE  /\ CanBeTaken(t)
             /\ ticket'[t].status = "Purchased" /\ ticket'[t].wallet = o /\ chain'[t] = o
             /\ ticket'[t].line \in L /\ t \in T[ticket'[t].line]
             /\ ticket'[t] \in TicketRows
  <2> DEFINE line == CHOOSE l \in DOMAIN T : t \in T[l]
  <2>1. line \in L /\ t \in T[line]
    BY <1>2, <1>6
  <2>2. ticket'[t] = [status |-> "Purchased", wallet |-> o, line |-> line] /\ chain'[t] = o
    BY <1>1, <1>2, <1>6
  <2> HIDE DEF line
  <2>3. ticket'[t] \in TicketRows
    BY <1>2, <2>1, <2>2 DEF TicketRows
  <2>4. QED
    BY <1>1, <1>2, <1>6, <2>1, <2>2, <2>3
<1>7. ticket' \in [Tickets -> TicketRows]
  <2>1. DOMAIN ticket' = Tickets /\ ticket' = [t \in Tickets |-> ticket'[t]]
    BY <1>1
  <2>2. \A t \in Tickets : ticket'[t] \in TicketRows
    BY <1>3, <1>5, <1>6
  <2>3. QED
    BY <2>1, <2>2
<1>8. chain' \in [Tickets -> Orders \cup {Org}]
  BY <1>1, <1>3
<1>9. ASSUME NEW t \in Tickets
      PROVE
          \/ /\ ticket'[t] = ticket[t] /\ chain'[t] = chain[t]
             /\ \A l \in Lines : OrderOf[l] = o => t \notin members'[l]
          \/ /\ CanBeTaken(t)
             /\ ticket'[t].status = "Purchased" /\ ticket'[t].wallet = o /\ chain'[t] = o
             /\ ticket'[t].line \in Lines /\ OrderOf[ticket'[t].line] = o
             /\ t \in members'[ticket'[t].line]
  <2>1. CASE \A l \in L : t \notin T[l]
    BY <1>2, <1>4, <1>5, <2>1
  <2>2. CASE \E l \in L : t \in T[l]
    BY <1>2, <1>4, <1>6, <2>2
  <2>3. QED
    BY <2>1, <2>2
<1>10. o \notin sold /\ sold' = sold \cup {o} /\ UNCHANGED <<used, refunded, record, back, out, req, past>>
  BY DEF Sell
<1>11. /\ members' \in [Lines -> SUBSET Tickets]
       /\ \A l \in Lines : OrderOf[l] # o => members'[l] = members[l]
  BY <1>2, <1>4
<1>12. QED
  BY <1>7, <1>8, <1>9, <1>10, <1>11 DEF AfterSell

LEMMA SellTypes ==
    ASSUME TypeInv, NEW o \in Orders, Sell(o)
    PROVE  TypeInv'
<1>1. AfterSell(o)
  BY SellIs
<1>2. RestOK'
  BY <1>1, RestIs DEF AfterSell, RestOK
<1>3. \A q \in Requests : Sound(q)'
  BY <1>1, SoundStays DEF AfterSell, TypeInv
<1>4. QED
  BY <1>1, <1>2, <1>3, TypeFollowsNext DEF AfterSell, TypeInv

\* The step in which a ticket is redeemed.
AfterRedeem(t) ==
    /\ ticket' \in [Tickets -> TicketRows]
    /\ \A u \in Tickets \ {t} : ticket'[u] = ticket[u]
    /\ ticket[t].status = "Purchased" /\ ticket'[t].status = "Redeemed"
    /\ ticket'[t].line = ticket[t].line /\ ticket'[t].wallet = ticket[t].wallet
    /\ \A r \in Requests : t \notin DOMAIN req[r].tickets
    /\ used' = used \cup {t}
    /\ UNCHANGED <<sold, members, refunded, record, back, out, chain, req, past>>

LEMMA RedeemIs ==
    ASSUME TypeInv, NEW t \in Tickets, Redeem(t)
    PROVE  AfterRedeem(t)
<1>1. ticket \in [Tickets -> TicketRows] /\ ticket[t] \in TicketRows
  BY DEF TypeInv, TypeOK
<1> DEFINE w == [ticket[t] EXCEPT !.status = "Redeemed"]
<1>2. w \in TicketRows /\ w.status = "Redeemed" /\ w.line = ticket[t].line
      /\ w.wallet = ticket[t].wallet
  BY <1>1 DEF TicketRows
<1>3. ticket' = [ticket EXCEPT ![t] = w]
  BY <1>1 DEF Redeem
<1> HIDE DEF w
<1>4. QED
  BY <1>1, <1>2, <1>3 DEF Redeem, AfterRedeem

LEMMA RedeemTypes ==
    ASSUME TypeInv, NEW t \in Tickets, Redeem(t)
    PROVE  TypeInv'
<1>1. RestOK'
  BY RedeemIs, RestIs DEF RestOK, AfterRedeem
<1>2. sold' = sold /\ req' = req
  BY RedeemIs DEF AfterRedeem
<1>3. \A q \in Requests : Sound(q)'
  BY <1>2, SoundStays DEF TypeInv
<1>4. QED
  BY <1>1, <1>2, <1>3, TypeFollowsNext DEF TypeInv

LEMMA BeginIs ==
    ASSUME TypeInv, NEW r \in Requests, NEW o \in Orders, Begin(r, o)
    PROVE  /\ req' \in [Requests -> Reqs] /\ \A q \in Others(r) : req'[q] = req[q]
           /\ req[r].stage = "idle" /\ req'[r].stage = "open"
           /\ req'[r].order = o /\ o \in sold
           /\ req'[r].named = {} /\ req'[r].due = 0 /\ req'[r].given = 0 /\ ~req'[r].last
           /\ req'[r].rows = Nothing /\ req'[r].items = Nothing /\ req'[r].tickets = Nothing
           /\ past' = past \cup (IF \E q \in Others(r) : Open(q) THEN {"overlap"} ELSE {})
           /\ UNCHANGED <<sold, ticket, members, used, refunded, record, back, out, chain>>
<1> DEFINE e == [req[r] EXCEPT !.stage = "open", !.order = o]
<1>1. req[r] \in Reqs /\ req[r].stage = "idle" /\ ~Open(r)
  BY DEF TypeInv, Begin, Open
<1>2. req' = [req EXCEPT ![r] = e]
  BY <1>1 DEF Begin, TypeInv
<1>3. e \in Reqs
  BY <1>1 DEF Reqs, Stages
<1>4. /\ req[r].items = Nothing /\ req[r].rows = Nothing /\ req[r].tickets = Nothing
      /\ req[r].named = {} /\ req[r].due = 0 /\ req[r].given = 0 /\ ~req[r].last
  BY <1>1 DEF TypeInv, Sound
<1>5. /\ e.stage = "open" /\ e.order = o /\ e.named = {}
      /\ e.rows = Nothing /\ e.tickets = Nothing /\ e.items = Nothing
      /\ e.due = 0 /\ e.given = 0 /\ ~e.last
  BY <1>1, <1>4 DEF Reqs
<1> HIDE DEF e
<1>6. req' \in [Requests -> Reqs] /\ req'[r] = e /\ \A q \in Others(r) : req'[q] = req[q]
  BY <1>2, <1>3, Replaced DEF TypeInv
<1>7. QED
  BY <1>1, <1>5, <1>6 DEF Begin

LEMMA BeginTypes ==
    ASSUME TypeInv, NEW r \in Requests, NEW o \in Orders, Begin(r, o)
    PROVE  TypeInv'
<1>1. past' \subseteq {"overlap"} \cup FaultKinds
  BY BeginIs DEF TypeInv, TypeOK
<1>2. RestOK'
  BY <1>1, BeginIs, RestIs DEF RestOK
<1>3. Sound(r)'
  BY BeginIs, NothingIs DEF Sound, Open, Ended
<1>4. QED
  BY <1>2, <1>3, BeginIs, SoundOthers, TypeFollowsNext

-----------------------------------------------------------------------------
(* The types hold throughout.                                              *)

LEMMA InitTypes == Init => TypeInv
<1> SUFFICES ASSUME Init PROVE TypeInv
  OBVIOUS
<1>1. NoRequest \in Reqs
  BY FiniteAssumption, NothingIs DEF NoRequest, Reqs, Stages, Marks, ItemWrites, RowWrites, TicketWrites
<1>2. req \in [Requests -> Reqs]
  BY <1>1 DEF Init
<1>3. ASSUME NEW r \in Requests
      PROVE  Sound(r)
  BY NothingIs DEF Init, NoRequest, Sound, Open
<1>4. RestOK
  <2>1. \A i \in Items : 0 \in 0..QuantityOf(i)
    BY ItemFacts
  <2>2. record \in RowWrites
    BY NothingIs DEF Init, RowWrites
  <2>3. ticket \in [Tickets -> TicketRows]
    BY DEF Init, TicketRows
  <2>4. QED
    BY <2>1, <2>2, <2>3 DEF Init, RestOK
<1>5. QED
  BY <1>2, <1>3, <1>4, TypeFollows

LEMMA StepTypes ==
    ASSUME TypeInv, NEW r \in Requests, Step(r)
    PROVE  TypeInv'
BY StepKinds, DroppedTypes, ChecksTypes, FreesTypes, TakesFeeTypes, GoesOnTypes,
   TakeTypes, MoveTypes, PayTypes, CommitTypes

LEMMA NextTypes == TypeInv /\ [Next]_vars => TypeInv'
<1> SUFFICES ASSUME TypeInv, [Next]_vars
             PROVE  TypeInv'
  OBVIOUS
<1>1. CASE UNCHANGED vars
  BY <1>1 DEF vars, TypeInv, TypeOK, Sound, Open
<1>2. ASSUME NEW r \in Requests, NEW o \in Orders, Begin(r, o)
      PROVE  TypeInv'
  BY <1>2, BeginTypes
<1>3. QED
  BY <1>1, <1>2, StepTypes, SellTypes, RedeemTypes DEF Next


-----------------------------------------------------------------------------
(* The release of a ticket, and the steps that leave tickets alone.        *)

\* The step in which a row is marked and its ticket released.
AfterFrees(r) ==
    LET t == req[r].ticket
        k == req[r].row
    IN  /\ req' \in [Requests -> Reqs] /\ \A q \in Others(r) : req'[q] = req[q]
        /\ req[r].stage = "checked" /\ req'[r].stage = "freed" /\ req'[r].order = req[r].order
        /\ req'[r].named = req[r].named /\ req'[r].items = req[r].items
        /\ req'[r].due = req[r].due /\ req'[r].last = req[r].last /\ req'[r].given = req[r].given
        /\ req'[r].item = req[r].item /\ req'[r].saw = req[r].saw
        /\ k \in RowIds /\ t \in Tickets /\ k[1] = t /\ t \in req[r].named
        /\ \A q \in Others(r) : k \notin DOMAIN req[q].rows
        /\ DOMAIN req'[r].rows = DOMAIN req[r].rows \cup {k}
        /\ \A j \in DOMAIN req[r].rows \ {k} : req'[r].rows[j] = req[r].rows[j]
        /\ \/ /\ req[r].redeemed /\ req'[r].tickets = req[r].tickets
           \/ /\ ~req[r].redeemed
              /\ \A q \in Others(r) : t \notin DOMAIN req[q].tickets
              /\ SeenTickets(r)[t].line = req[r].line /\ SeenTickets(r)[t].status = "Purchased"
              /\ DOMAIN req'[r].tickets = DOMAIN req[r].tickets \cup {t}
              /\ req'[r].tickets[t].status = "Available" /\ req'[r].tickets[t].line = Null
              /\ req'[r].tickets[t].wallet = SeenTickets(r)[t].wallet
              /\ \A u \in DOMAIN req[r].tickets \ {t} :
                    req'[r].tickets[u] = req[r].tickets[u]
        /\ Untouched

LEMMA FreesIs ==
    ASSUME TypeInv, NEW r \in Requests, Frees(r)
    PROVE  AfterFrees(r)
<1> DEFINE e == Freeing(r)
           i == req[r].item
           t == req[r].ticket
           k == req[r].row
           mark == IF i[1] = "Tickets" THEN "ticket" ELSE "fee"
           w == [SeenTickets(r)[t] EXCEPT !.status = "Available", !.line = Null]
<1>1. /\ req[r].stage = "checked" /\ req' = [req EXCEPT ![r] = e] /\ Untouched
      /\ ~RowLocked(k, r) /\ (req[r].redeemed \/ CanRelease(r))
  BY DEF Frees
<1>2. /\ e \in Reqs
      /\ e.stage = "freed" /\ e.order = req[r].order /\ e.named = req[r].named
      /\ e.item = i /\ e.saw = req[r].saw
      /\ e.rows = Put(k, mark, req[r].rows)
      /\ e.items = req[r].items
      /\ req[r].redeemed => e.tickets = req[r].tickets
      /\ ~req[r].redeemed => e.tickets = Put(t, w, req[r].tickets)
      /\ e.due = req[r].due /\ e.last = req[r].last /\ e.given = req[r].given
  BY <1>1, FreeingIs
<1> HIDE DEF e
<1>3. req' \in [Requests -> Reqs] /\ req'[r] = e /\ \A q \in Others(r) : req'[q] = req[q]
  BY <1>1, <1>2, Replaced DEF TypeInv
<1>4. k \in RowIds /\ t \in Tickets /\ k[1] = t /\ t \in req[r].named
  BY <1>1 DEF TypeInv, Sound, Reqs
<1>5. \A q \in Others(r) : k \notin DOMAIN req[q].rows
  BY <1>1 DEF RowLocked
<1>6. /\ DOMAIN e.rows = DOMAIN req[r].rows \cup {k}
      /\ \A j \in DOMAIN req[r].rows \ {k} : e.rows[j] = req[r].rows[j]
  <2> DEFINE rows == req[r].rows
  <2> HIDE DEF mark, k, rows
  <2>1. /\ DOMAIN Put(k, mark, rows) = DOMAIN rows \cup {k}
        /\ \A j \in DOMAIN rows \ {k} : Put(k, mark, rows)[j] = rows[j]
    BY DEF Put, Over
  <2>2. e.rows = Put(k, mark, rows)
    BY <1>2 DEF rows
  <2>3. QED
    BY <2>1, <2>2 DEF rows
<1>7. w.status = "Available" /\ w.line = Null /\ w.wallet = SeenTickets(r)[t].wallet
  <2>1. SeenTickets(r)[t] \in TicketRows
    BY <1>4, SeenIs
  <2>2. QED
    BY <2>1 DEF TicketRows
<1>8. CASE req[r].redeemed
  BY <1>1, <1>2, <1>3, <1>4, <1>5, <1>6, <1>8 DEF AfterFrees
<1>9. CASE ~req[r].redeemed
  <2>1. /\ \A q \in Others(r) : t \notin DOMAIN req[q].tickets
        /\ SeenTickets(r)[t].line = req[r].line /\ SeenTickets(r)[t].status = "Purchased"
    BY <1>1, <1>9 DEF CanRelease, TicketLocked
  <2> HIDE DEF w
  <2>2. /\ DOMAIN e.tickets = DOMAIN req[r].tickets \cup {t} /\ e.tickets[t] = w
        /\ \A u \in DOMAIN req[r].tickets \ {t} : e.tickets[u] = req[r].tickets[u]
    <3> DEFINE held == req[r].tickets
    <3>1. e.tickets = Put(t, w, held)
      BY <1>2, <1>9
    <3> HIDE DEF t, held
    <3>2. /\ DOMAIN Put(t, w, held) = DOMAIN held \cup {t} /\ Put(t, w, held)[t] = w
          /\ \A u \in DOMAIN held \ {t} : Put(t, w, held)[u] = held[u]
      BY DEF Put, Over
    <3>3. QED
      BY <3>1, <3>2 DEF held
  <2>3. QED
    BY <1>1, <1>2, <1>3, <1>4, <1>5, <1>6, <1>7, <1>9, <2>1, <2>2 DEF AfterFrees
<1>10. QED
  BY <1>8, <1>9

\* A step of a request that writes neither rows nor tickets.
Passes(r) ==
    /\ UNCHANGED <<sold, ticket, members, used, record, chain>>
    /\ past' \ {"overlap"} = past \ {"overlap"} /\ past \subseteq past'
    /\ \A q \in Others(r) : req'[q] = req[q]
    /\ req'[r].rows = req[r].rows /\ req'[r].tickets = req[r].tickets
    /\ req[r].stage # "checked" /\ req'[r].stage # "checked" /\ req'[r].stage # "idle"
    /\ req'[r].stage \in Late => req[r].stage \in Late
    /\ req[r].stage \in Late =>
          /\ req'[r].stage \in Late
          /\ req'[r].moved = req[r].moved /\ req'[r].from = req[r].from
    /\ Open(r) \/ req[r].stage = "idle"

LEMMA PassesIs ==
    ASSUME TypeInv, NEW r \in Requests,
           \/ \E e : TakesFee(r, e)
           \/ GoesOn(r)
           \/ TakeUnit(r)
           \/ PayBack(r)
           \/ \E o \in Orders : Begin(r, o)
    PROVE  Passes(r)
<1>1. ASSUME NEW e, TakesFee(r, e)
      PROVE  Passes(r)
  <2>1. req'[r] = e /\ \A q \in Others(r) : req'[q] = req[q]
    BY <1>1, Replaced DEF TakesFee, TypeInv
  <2>2. QED
    BY <1>1, <2>1 DEF TakesFee, Passes, Untouched, Late, Open, Ended
<1>2. CASE GoesOn(r)
  BY <1>2, GoesOnIs DEF GoesOn, Passes, Untouched, Late, Open, Ended
<1>3. CASE TakeUnit(r)
  <2>1. req'[r].stage \in {"open", "paying"}
    BY <1>3, TakingIs
  <2>2. QED
    BY <1>3, <2>1, TakingIs DEF TakeUnit, Passes, Untouched, Late, Open, Ended
<1>4. CASE PayBack(r)
  BY <1>4, PayingIs DEF PayBack, Passes, Late, Open, Ended
<1>5. ASSUME NEW o \in Orders, Begin(r, o)
      PROVE  Passes(r)
  <2>1. /\ req[r].items = Nothing /\ req[r].rows = Nothing /\ req[r].tickets = Nothing
        /\ req[r].named = {} /\ req[r].stage = "idle"
    BY <1>5 DEF Begin, TypeInv, Sound, Open
  <2>2. QED
    BY <1>5, <2>1, BeginIs DEF Passes, Late, Open, Ended
<1>6. QED
  BY <1>1, <1>2, <1>3, <1>4, <1>5

\* The step in which a ticket is named, as far as tickets and rows go.
AfterNames(r, t) ==
    LET k == req'[r].row
    IN  /\ req' \in [Requests -> Reqs] /\ \A q \in Others(r) : req'[q] = req[q]
        /\ Untouched
        /\ req[r].stage = "open" /\ req'[r].stage = "checked" /\ req'[r].ticket = t
        /\ req'[r].named = req[r].named \cup {t} /\ req'[r].tickets = req[r].tickets
        /\ req'[r].line = SeenTickets(r)[t].line /\ req'[r].line # Null
        /\ req'[r].redeemed => SeenTickets(r)[t].status = "Redeemed"
        /\ ~req'[r].redeemed => SeenTickets(r)[t].status # "Redeemed"
        /\ \E new \in RowIds :
              /\ new[1] = t /\ new[2] = r
              /\ DOMAIN req'[r].rows = DOMAIN req[r].rows \cup {new}
              /\ req'[r].rows[new] = "none"
              /\ \A j \in DOMAIN req[r].rows \ {new} : req'[r].rows[j] = req[r].rows[j]
        /\ k \in RowIds /\ k[1] = t
        /\ \/ k \in DOMAIN SeenRows(r) /\ SeenRows(r)[k] # "ticket"
           \/ k \notin DOMAIN SeenRows(r) /\ k[2] = r

LEMMA NamesIs ==
    ASSUME TypeInv, NEW r \in Requests, NEW i \in Items, NEW t \in Tickets,
           NEW c \in Candidates(r, t), Checks(r, i, t, c)
    PROVE  AfterNames(r, t)
<1> DEFINE new == <<t, r, req[r].count + 1>>
           rows == req[r].rows
           e == req'[r]
<1>1. /\ req[r].count < MaxItems /\ c[2] # "ticket" /\ Untouched
      /\ SeenTickets(r)[t].line # Null
  BY DEF Checks, CanNameNext
<1>2. /\ c[1] \in RowIds /\ c[1][1] = t
      /\ \/ c[1] \in DOMAIN SeenRows(r) /\ SeenRows(r)[c[1]] = c[2]
         \/ c[1][2] = r /\ c[1] \notin DOMAIN SeenRows(r) /\ c[2] = "none"
  BY <1>1, CandidateIs
<1>3. /\ req' \in [Requests -> Reqs] /\ \A q \in Others(r) : req'[q] = req[q]
      /\ req[r].stage = "open" /\ e.stage = "checked"
      /\ e.named = req[r].named \cup {t}
      /\ e.ticket = t /\ e.line = SeenTickets(r)[t].line
      /\ e.redeemed => SeenTickets(r)[t].status = "Redeemed"
      /\ ~e.redeemed => SeenTickets(r)[t].status # "Redeemed"
      /\ e.row = c[1] /\ new \in RowIds /\ e.rows = Put(new, "none", rows)
      /\ e.tickets = req[r].tickets
  BY ChecksIs DEF AfterChecks
<1>4. new[1] = t /\ new[2] = r
  OBVIOUS
<1> HIDE DEF new, rows, e
<1>5. /\ DOMAIN Put(new, "none", rows) = DOMAIN rows \cup {new}
      /\ Put(new, "none", rows)[new] = "none"
      /\ \A j \in DOMAIN rows \ {new} : Put(new, "none", rows)[j] = rows[j]
  BY DEF Put, Over
<1>6. \E n \in RowIds :
        /\ n[1] = t /\ n[2] = r
        /\ DOMAIN e.rows = DOMAIN rows \cup {n}
        /\ e.rows[n] = "none"
        /\ \A j \in DOMAIN rows \ {n} : e.rows[j] = rows[j]
  <2>1. new \in RowIds /\ e.rows = Put(new, "none", rows)
    BY <1>3
  <2>2. /\ new[1] = t /\ new[2] = r
        /\ DOMAIN e.rows = DOMAIN rows \cup {new}
        /\ e.rows[new] = "none"
        /\ \A j \in DOMAIN rows \ {new} : e.rows[j] = rows[j]
    BY <1>4, <1>5, <2>1
  <2>3. QED
    BY <2>1, <2>2
<1>7. /\ e.row \in RowIds /\ e.row[1] = t
      /\ \/ e.row \in DOMAIN SeenRows(r) /\ SeenRows(r)[e.row] # "ticket"
         \/ e.row \notin DOMAIN SeenRows(r) /\ e.row[2] = r
  BY <1>1, <1>2, <1>3
<1>8. QED
  BY <1>1, <1>3, <1>6, <1>7 DEF AfterNames, e, rows

\* The step in which a request ends without a commit.
AfterDropped(r) ==
    /\ req' \in [Requests -> Reqs] /\ \A q \in Others(r) : req'[q] = req[q]
    /\ req'[r].stage \in Ended
    /\ req'[r].items = Nothing /\ req'[r].rows = Nothing /\ req'[r].tickets = Nothing
    /\ req'[r].named = {} /\ ~req'[r].last
    /\ UNCHANGED <<sold, ticket, members, used, refunded, record, back>>

\* The step in which a request commits.
AfterCommit(r) ==
    /\ req' \in [Requests -> Reqs] /\ \A q \in Others(r) : req'[q] = req[q]
    /\ req[r].stage = "paid" /\ req'[r].stage = "done"
    /\ req'[r].items = Nothing /\ req'[r].rows = Nothing /\ req'[r].tickets = Nothing
    /\ req'[r].named = {} /\ ~req'[r].last
    /\ UNCHANGED <<sold, members, used, out, chain, past>>
    /\ ticket' = SeenTickets(r) /\ refunded' = SeenItems(r) /\ record' = SeenRows(r)

LEMMA DroppedIs ==
    ASSUME TypeInv, NEW r \in Requests, Dropped(r)
    PROVE  AfterDropped(r)
<1>1. PICK st \in Ended : Ends(r, st)
  BY DEF Dropped
<1>2. /\ req' \in [Requests -> Reqs] /\ \A q \in Others(r) : req'[q] = req[q]
      /\ req'[r].stage = st
      /\ req'[r].items = Nothing /\ req'[r].rows = Nothing /\ req'[r].tickets = Nothing
      /\ req'[r].named = {} /\ ~req'[r].last
  BY <1>1, EndsIs DEF TypeInv
<1>3. QED
  BY <1>2 DEF Dropped, AfterDropped

LEMMA CommitIs ==
    ASSUME TypeInv, NEW r \in Requests, Commit(r)
    PROVE  AfterCommit(r)
<1>1. Ends(r, "done") /\ "done" \in Ended
  BY DEF Commit, Ended
<1>2. /\ req' \in [Requests -> Reqs] /\ \A q \in Others(r) : req'[q] = req[q]
      /\ req'[r].stage = "done"
      /\ req'[r].items = Nothing /\ req'[r].rows = Nothing /\ req'[r].tickets = Nothing
      /\ req'[r].named = {} /\ ~req'[r].last
  BY <1>1, EndsIs DEF TypeInv
<1>3. QED
  BY <1>2 DEF Commit, AfterCommit

\* The ways in which a step touches tickets and rows.
TicketStep ==
    \/ \E r \in Requests :
          \/ Passes(r)
          \/ Dropped(r) /\ AfterDropped(r)
          \/ \E t \in Tickets : AfterNames(r, t)
          \/ AfterFrees(r)
          \/ MoveTokens(r) /\ AfterMove(r)
          \/ AfterCommit(r)
    \/ \E o \in Orders : AfterSell(o)
    \/ \E t \in Tickets : AfterRedeem(t)

LEMMA TicketSteps == TypeInv /\ Next => TicketStep
<1> SUFFICES ASSUME TypeInv, Next PROVE TicketStep
  OBVIOUS
<1>1. ASSUME NEW r \in Requests, Step(r)
      PROVE  TicketStep
  <2>1. ASSUME NEW i \in Items, NEW t \in Tickets, NEW c \in Candidates(r, t),
               Checks(r, i, t, c)
        PROVE  TicketStep
    BY <2>1, NamesIs DEF TicketStep
  <2>2. CASE Frees(r)
    BY <2>2, FreesIs DEF TicketStep
  <2>3. CASE Dropped(r)
    BY <2>3, DroppedIs DEF TicketStep
  <2>4. CASE Commit(r)
    BY <2>4, CommitIs DEF TicketStep
  <2>5. CASE MoveTokens(r)
    BY <2>5, MovingIs DEF TicketStep
  <2>6. CASE (\E e : TakesFee(r, e)) \/ GoesOn(r) \/ TakeUnit(r) \/ PayBack(r)
    BY <2>6, PassesIs DEF TicketStep
  <2>7. QED
    BY <1>1, <2>1, <2>2, <2>3, <2>4, <2>5, <2>6, StepKinds
<1>2. ASSUME NEW r \in Requests, NEW o \in Orders, Begin(r, o)
      PROVE  TicketStep
  BY <1>2, PassesIs DEF TicketStep
<1>3. ASSUME NEW o \in Orders, Sell(o)
      PROVE  TicketStep
  BY <1>3, SellIs DEF TicketStep
<1>4. ASSUME NEW t \in Tickets, Redeem(t)
      PROVE  TicketStep
  BY <1>4, RedeemIs DEF TicketStep
<1>5. QED
  BY <1>1, <1>2, <1>3, <1>4 DEF Next

-----------------------------------------------------------------------------
(* Tickets and rows: the invariant, kept by every step.                    *)

TicketsInv ==
    /\ TypeInv /\ Locks /\ RowsAreOwn /\ TicketInv /\ UsedInv
    /\ HeldInv /\ MarkInv /\ SaleInv

LEMMA NoneHeld == DOMAIN Nothing = {}
BY NothingIs

LEMMA LocksStep ==
    ASSUME Locks, NEW r \in Requests, \A q \in Others(r) : req'[q] = req[q],
           \A q \in Others(r) :
              /\ \A k \in DOMAIN req'[r].rows : k \notin DOMAIN req[q].rows
              /\ \A t \in DOMAIN req'[r].tickets : t \notin DOMAIN req[q].tickets
    PROVE  Locks'
<1> SUFFICES ASSUME NEW a \in Requests, NEW b \in Others(a)
             PROVE  /\ DOMAIN req'[a].rows \cap DOMAIN req'[b].rows = {}
                    /\ DOMAIN req'[a].tickets \cap DOMAIN req'[b].tickets = {}
  BY DEF Locks, Others
<1>1. b \in Requests /\ a # b /\ a \in Others(b)
  BY DEF Others
<1>2. CASE a = r
  BY <1>1, <1>2
<1>3. CASE b = r
  BY <1>1, <1>3
<1>4. CASE a # r /\ b # r
  <2>1. req'[a] = req[a] /\ req'[b] = req[b]
    BY <1>1, <1>4 DEF Others
  <2>2. QED
    BY <2>1 DEF Locks
<1>5. QED
  BY <1>2, <1>3, <1>4

\* A row that a request inserts is new.
LEMMA NewRows ==
    ASSUME TypeInv, RowsAreOwn, NEW r \in Requests, Open(r), NEW k, k[2] = r
    PROVE  k \notin DOMAIN record /\ \A q \in Others(r) : k \notin DOMAIN req[q].rows
<1>1. k \notin DOMAIN record
  BY DEF RowsAreOwn
<1>2. QED
  BY <1>1 DEF RowsAreOwn, Others

LEMMA LocksKept == TicketsInv /\ TicketStep => Locks'
<1> SUFFICES ASSUME TypeInv, Locks, RowsAreOwn, TicketStep
             PROVE  Locks'
  BY DEF TicketsInv
<1>1. ASSUME NEW r \in Requests, Passes(r)
      PROVE  Locks'
  <2>1. \A q \in Others(r) :
           /\ \A k \in DOMAIN req'[r].rows : k \notin DOMAIN req[q].rows
           /\ \A t \in DOMAIN req'[r].tickets : t \notin DOMAIN req[q].tickets
    BY <1>1 DEF Passes, Locks
  <2>2. QED
    BY <1>1, <2>1, LocksStep DEF Passes
<1>2. ASSUME NEW r \in Requests, AfterDropped(r) \/ AfterCommit(r)
      PROVE  Locks'
  <2>1. /\ DOMAIN req'[r].rows = {} /\ DOMAIN req'[r].tickets = {}
        /\ \A q \in Others(r) : req'[q] = req[q]
    BY <1>2, NoneHeld DEF AfterDropped, AfterCommit
  <2>2. QED
    BY <2>1, LocksStep
<1>3. ASSUME NEW r \in Requests, NEW t \in Tickets, AfterNames(r, t)
      PROVE  Locks'
  <2>1. PICK new \in RowIds :
           /\ new[1] = t /\ new[2] = r
           /\ DOMAIN req'[r].rows = DOMAIN req[r].rows \cup {new}
    BY <1>3 DEF AfterNames
  <2>2. Open(r) /\ (\A q \in Others(r) : req'[q] = req[q]) /\ req'[r].tickets = req[r].tickets
    BY <1>3 DEF AfterNames, Open, Ended
  <2>3. \A q \in Others(r) : new \notin DOMAIN req[q].rows
    BY <2>1, <2>2, NewRows
  <2>4. \A q \in Others(r) :
           /\ \A k \in DOMAIN req'[r].rows : k \notin DOMAIN req[q].rows
           /\ \A u \in DOMAIN req'[r].tickets : u \notin DOMAIN req[q].tickets
    BY <2>1, <2>2, <2>3 DEF Locks
  <2>5. QED
    BY <2>2, <2>4, LocksStep
<1>4. ASSUME NEW r \in Requests, AfterFrees(r)
      PROVE  Locks'
  <2>1. \A q \in Others(r) :
           \A k \in DOMAIN req'[r].rows : k \notin DOMAIN req[q].rows
    BY <1>4 DEF AfterFrees, Locks
  <2>2. \A q \in Others(r) :
           \A t \in DOMAIN req'[r].tickets : t \notin DOMAIN req[q].tickets
    BY <1>4 DEF AfterFrees, Locks
  <2>3. QED
    BY <1>4, <2>1, <2>2, LocksStep DEF AfterFrees
<1>5. ASSUME NEW r \in Requests, MoveTokens(r), AfterMove(r)
      PROVE  Locks'
  <2>1. \A q \in Others(r) : \A t \in Returned(r) : t \notin DOMAIN req[q].tickets
    BY <1>5 DEF MoveTokens, TicketLocked
  <2>2. \A q \in Others(r) :
           /\ \A k \in DOMAIN req'[r].rows : k \notin DOMAIN req[q].rows
           /\ \A t \in DOMAIN req'[r].tickets : t \notin DOMAIN req[q].tickets
    BY <1>5, <2>1 DEF AfterMove, Locks
  <2>3. QED
    BY <1>5, <2>2, LocksStep DEF AfterMove
<1>6. ASSUME UNCHANGED req
      PROVE  Locks'
  BY <1>6 DEF Locks
<1>7. QED
  BY <1>1, <1>2, <1>3, <1>4, <1>5, <1>6 DEF TicketStep, AfterSell, AfterRedeem

LEMMA RowsStep ==
    ASSUME TypeInv, RowsAreOwn, NEW r \in Requests, \A q \in Others(r) : req'[q] = req[q],
           DOMAIN record \subseteq DOMAIN record',
           \A k \in DOMAIN record' : k \in DOMAIN record \/ (k[2] = r /\ ~Open(r)'),
           Open(r) \/ req[r].stage = "idle" \/ ~Open(r)', req'[r].stage # "idle",
           \A k \in DOMAIN req'[r].rows : k \in DOMAIN record' \/ k[2] = r,
           req'[r].stage = "checked" => req'[r].row \in DOMAIN record' \/ req'[r].row[2] = r
    PROVE  RowsAreOwn'
<1>1. ASSUME NEW a \in Requests
      PROVE  /\ \A k \in DOMAIN req'[a].rows : k \in DOMAIN record' \/ k[2] = a
             /\ req'[a].stage = "checked" =>
                   req'[a].row \in DOMAIN record' \/ req'[a].row[2] = a
  <2>1. CASE a = r
    BY <2>1
  <2>2. CASE a # r
    <3>1. req'[a] = req[a]
      BY <2>2 DEF Others
    <3>2. QED
      BY <3>1 DEF RowsAreOwn
  <2>3. QED
    BY <2>1, <2>2
<1>2. ASSUME NEW k \in DOMAIN record'
      PROVE  ~Open(k[2])' /\ req'[k[2]].stage # "idle"
  <2>1. CASE k[2] = r
    <3>1. ~Open(r)'
      BY <2>1 DEF RowsAreOwn
    <3>2. QED
      BY <2>1, <3>1
  <2>2. CASE k[2] # r
    <3>1. k \in DOMAIN record /\ k[2] \in Requests
      BY <2>2 DEF TypeInv, TypeOK, RowIds
    <3>2. req'[k[2]] = req[k[2]]
      BY <2>2, <3>1 DEF Others
    <3>3. QED
      BY <3>1, <3>2 DEF RowsAreOwn, Open
  <2>3. QED
    BY <2>1, <2>2
<1>3. QED
  BY <1>1, <1>2 DEF RowsAreOwn

LEMMA RowsAreOwnKept == TicketsInv /\ TicketStep => RowsAreOwn'
<1> SUFFICES ASSUME TypeInv, RowsAreOwn, TicketStep
             PROVE  RowsAreOwn'
  BY DEF TicketsInv
<1>1. ASSUME NEW r \in Requests, Passes(r)
      PROVE  RowsAreOwn'
  BY <1>1, RowsStep DEF Passes, RowsAreOwn
<1>2. ASSUME NEW r \in Requests, AfterDropped(r)
      PROVE  RowsAreOwn'
  <2>1. /\ DOMAIN req'[r].rows = {} /\ record' = record /\ ~Open(r)'
        /\ req'[r].stage # "idle" /\ req'[r].stage # "checked"
        /\ \A q \in Others(r) : req'[q] = req[q]
    BY <1>2, NoneHeld DEF AfterDropped, Open, Ended
  <2>2. QED
    BY <2>1, RowsStep
<1>3. ASSUME NEW r \in Requests, AfterCommit(r)
      PROVE  RowsAreOwn'
  <2>1. /\ DOMAIN req'[r].rows = {} /\ ~Open(r)'
        /\ req'[r].stage # "idle" /\ req'[r].stage # "checked"
        /\ \A q \in Others(r) : req'[q] = req[q]
    BY <1>3, NoneHeld DEF AfterCommit, Open, Ended
  <2>2. DOMAIN record' = DOMAIN req[r].rows \cup DOMAIN record
    BY <1>3, SeenIs DEF AfterCommit
  <2>3. \A k \in DOMAIN record' : k \in DOMAIN record \/ (k[2] = r /\ ~Open(r)')
    BY <2>1, <2>2 DEF RowsAreOwn
  <2>4. QED
    BY <2>1, <2>2, <2>3, RowsStep
<1>4. ASSUME NEW r \in Requests, NEW t \in Tickets, AfterNames(r, t)
      PROVE  RowsAreOwn'
  <2>1. PICK new \in RowIds :
           /\ new[1] = t /\ new[2] = r
           /\ DOMAIN req'[r].rows = DOMAIN req[r].rows \cup {new}
    BY <1>4 DEF AfterNames
  <2>2. /\ Open(r) /\ \A q \in Others(r) : req'[q] = req[q]
        /\ record' = record /\ req'[r].stage = "checked"
    BY <1>4 DEF AfterNames, Open, Ended, Untouched
  <2>3. \A k \in DOMAIN req'[r].rows : k \in DOMAIN record \/ k[2] = r
    BY <2>1 DEF RowsAreOwn
  <2>4. req'[r].row \in DOMAIN record \/ req'[r].row[2] = r
    <3>1. DOMAIN SeenRows(r) = DOMAIN req[r].rows \cup DOMAIN record
      BY SeenIs
    <3>2. QED
      BY <1>4, <3>1 DEF AfterNames, RowsAreOwn
  <2>5. QED
    BY <2>2, <2>3, <2>4, RowsStep
<1>5. ASSUME NEW r \in Requests, AfterFrees(r)
      PROVE  RowsAreOwn'
  <2>1. /\ Open(r) /\ \A q \in Others(r) : req'[q] = req[q]
        /\ record' = record /\ req'[r].stage = "freed"
        /\ DOMAIN req'[r].rows = DOMAIN req[r].rows \cup {req[r].row}
        /\ req[r].stage = "checked"
    BY <1>5 DEF AfterFrees, Open, Ended, Untouched
  <2>2. \A k \in DOMAIN req'[r].rows : k \in DOMAIN record \/ k[2] = r
    BY <2>1 DEF RowsAreOwn
  <2>3. QED
    BY <2>1, <2>2, RowsStep
<1>6. ASSUME NEW r \in Requests, MoveTokens(r), AfterMove(r)
      PROVE  RowsAreOwn'
  <2>1. /\ Open(r) /\ \A q \in Others(r) : req'[q] = req[q]
        /\ record' = record /\ req'[r].stage = "moved" /\ req'[r].rows = req[r].rows
    BY <1>6 DEF AfterMove, MoveTokens, Open, Ended
  <2>2. QED
    BY <2>1, RowsStep DEF RowsAreOwn
<1>7. ASSUME UNCHANGED <<req, record>>
      PROVE  RowsAreOwn'
  BY <1>7 DEF RowsAreOwn, Open
<1>8. QED
  BY <1>1, <1>2, <1>3, <1>4, <1>5, <1>6, <1>7 DEF TicketStep, AfterSell, AfterRedeem

\* What a request sees of a ticket.
LEMMA SeenHeld ==
    ASSUME TypeInv, NEW r \in Requests, Held(r), NEW t \in Tickets
    PROVE  /\ t \in DOMAIN req[r].tickets => SeenTickets(r)[t] = req[r].tickets[t]
           /\ t \notin DOMAIN req[r].tickets => SeenTickets(r)[t] = ticket[t]
           /\ \/ SeenTickets(r)[t].status = "Available" /\ SeenTickets(r)[t].line = Null
              \/ /\ SeenTickets(r)[t].status = ticket[t].status
                 /\ SeenTickets(r)[t].line = ticket[t].line
           /\ req[r].stage \notin Late => SeenTickets(r)[t].wallet = ticket[t].wallet
<1>1. /\ t \in DOMAIN req[r].tickets => SeenTickets(r)[t] = req[r].tickets[t]
      /\ t \notin DOMAIN req[r].tickets => SeenTickets(r)[t] = ticket[t]
  BY SeenIs
<1>2. QED
  BY <1>1 DEF Held

\* What a commit does to a ticket.
LEMMA CommittedIs ==
    ASSUME TypeInv, HeldInv, NEW r \in Requests, AfterCommit(r), NEW t \in Tickets
    PROVE  /\ t \notin DOMAIN req[r].tickets => ticket'[t] = ticket[t]
           /\ t \in DOMAIN req[r].tickets => ticket'[t] = req[r].tickets[t]
           /\ \/ ticket'[t].status = "Available" /\ ticket'[t].line = Null
              \/ ticket'[t].status = ticket[t].status /\ ticket'[t].line = ticket[t].line
<1>1. ticket' = SeenTickets(r)
  BY DEF AfterCommit
<1>2. QED
  BY <1>1, SeenHeld DEF HeldInv

LEMMA TicketKept == TicketsInv /\ TicketStep => TicketInv'
<1> SUFFICES ASSUME TicketsInv, TicketStep
             PROVE  TicketInv'
  OBVIOUS
<1>1. TypeInv /\ TicketInv /\ HeldInv
  BY DEF TicketsInv
<1>2. ASSUME UNCHANGED <<ticket, sold, members>>
      PROVE  TicketInv'
  BY <1>1, <1>2 DEF TicketInv
<1>3. ASSUME NEW r \in Requests, AfterCommit(r)
      PROVE  TicketInv'
  <2>1. sold' = sold /\ members' = members
    BY <1>3 DEF AfterCommit
  <2>2. \A t \in Tickets : ticket'[t].line = Null <=> ticket'[t].status = "Available"
    BY <1>1, <1>3, CommittedIs DEF TicketInv
  <2>3. QED
    BY <1>1, <2>1, <2>2 DEF TicketInv
<1>4. ASSUME NEW o \in Orders, AfterSell(o)
      PROVE  TicketInv'
  <2>1. \A t \in Tickets : ticket'[t].line = Null <=> ticket'[t].status = "Available"
    BY <1>1, <1>4, NameAssumption DEF TicketInv, AfterSell
  <2>2. \A l \in Lines : OrderOf[l] \notin sold' => members'[l] = {}
    BY <1>1, <1>4 DEF TicketInv, AfterSell
  <2>3. QED
    BY <2>1, <2>2 DEF TicketInv
<1>5. ASSUME NEW t \in Tickets, AfterRedeem(t)
      PROVE  TicketInv'
  <2>1. ASSUME NEW u \in Tickets
        PROVE  ticket'[u].line = Null <=> ticket'[u].status = "Available"
    BY <1>1, <1>5 DEF TicketInv, AfterRedeem
  <2>2. QED
    BY <1>1, <1>5, <2>1 DEF TicketInv, AfterRedeem
<1>6. QED
  BY <1>2, <1>3, <1>4, <1>5, ZenonT(40) DEF TicketStep, Passes, AfterDropped, AfterNames, AfterFrees,
     AfterMove, MoveTokens, Untouched

LEMMA UsedStays == TicketStep => used \subseteq used'
BY ZenonT(40) DEF TicketStep, Passes, AfterDropped, AfterNames, AfterFrees, AfterMove, MoveTokens,
   AfterCommit, AfterSell, AfterRedeem, Untouched

LEMMA UsedKept == TicketsInv /\ TicketStep => UsedInv'
<1> SUFFICES ASSUME TicketsInv, TicketStep
             PROVE  UsedInv'
  OBVIOUS
<1>1. TypeInv /\ UsedInv /\ HeldInv /\ used \subseteq used'
  BY UsedStays DEF TicketsInv
\* The requests' half: only a step that checks a ticket adds anything.
<1>2. ASSUME NEW r \in Requests, \A q \in Others(r) : req'[q] = req[q],
             req'[r].stage = "checked" /\ req'[r].redeemed => req'[r].ticket \in used'
      PROVE  \A q \in Requests :
                req'[q].stage = "checked" /\ req'[q].redeemed => req'[q].ticket \in used'
  BY <1>1, <1>2 DEF UsedInv, Others
<1>3. ASSUME UNCHANGED req
      PROVE  \A q \in Requests :
                req'[q].stage = "checked" /\ req'[q].redeemed => req'[q].ticket \in used'
  BY <1>1, <1>3 DEF UsedInv
<1>4. ASSUME UNCHANGED ticket
      PROVE  \A t \in Tickets : ticket'[t].status = "Redeemed" => t \in used'
  BY <1>1, <1>4 DEF UsedInv
<1>5. ASSUME NEW r \in Requests, AfterCommit(r)
      PROVE  UsedInv'
  <2>1. \A t \in Tickets : ticket'[t].status = "Redeemed" => t \in used'
    BY <1>1, <1>5, CommittedIs DEF UsedInv
  <2>2. (\A q \in Others(r) : req'[q] = req[q]) /\ req'[r].stage # "checked"
    BY <1>5 DEF AfterCommit
  <2>3. QED
    BY <1>2, <2>1, <2>2 DEF UsedInv
<1>6. ASSUME NEW r \in Requests, NEW t \in Tickets, AfterNames(r, t)
      PROVE  UsedInv'
  <2>1. /\ ticket' = ticket /\ req'[r].ticket = t /\ \A q \in Others(r) : req'[q] = req[q]
        /\ req'[r].redeemed => SeenTickets(r)[t].status = "Redeemed"
    BY <1>6 DEF AfterNames, Untouched
  <2>2. req'[r].redeemed => ticket[t].status = "Redeemed"
    BY <1>1, <2>1, SeenHeld DEF HeldInv
  <2>3. req'[r].redeemed => t \in used'
    BY <1>1, <2>2 DEF UsedInv
  <2>4. QED
    BY <1>2, <1>4, <2>1, <2>3 DEF UsedInv
<1>7. ASSUME NEW r \in Requests, ticket' = ticket, \A q \in Others(r) : req'[q] = req[q],
             req'[r].stage # "checked"
      PROVE  UsedInv'
  BY <1>2, <1>4, <1>7 DEF UsedInv
<1>8. ASSUME NEW r \in Requests,
             Passes(r) \/ AfterDropped(r) \/ AfterFrees(r) \/ (MoveTokens(r) /\ AfterMove(r))
      PROVE  UsedInv'
  <2>1. /\ ticket' = ticket /\ \A q \in Others(r) : req'[q] = req[q]
        /\ req'[r].stage # "checked"
    BY <1>8 DEF Passes, AfterDropped, AfterFrees, MoveTokens, AfterMove, Untouched, Ended
  <2>2. QED
    BY <1>7, <2>1
<1>9. ASSUME NEW o \in Orders, AfterSell(o)
      PROVE  UsedInv'
  <2>1. \A t \in Tickets : ticket'[t].status = "Redeemed" => t \in used'
    BY <1>1, <1>9 DEF UsedInv, AfterSell
  <2>2. QED
    BY <1>3, <1>9, <2>1 DEF UsedInv, AfterSell
<1>10. ASSUME NEW u \in Tickets, AfterRedeem(u)
       PROVE  UsedInv'
  <2>1. \A t \in Tickets : ticket'[t].status = "Redeemed" => t \in used'
    BY <1>1, <1>10 DEF UsedInv, AfterRedeem
  <2>2. QED
    BY <1>3, <1>10, <2>1 DEF UsedInv, AfterRedeem
<1>11. QED
  BY <1>5, <1>6, <1>8, <1>9, <1>10 DEF TicketStep

\* Nobody else changes a ticket that a request has written.
LEMMA HeldStays ==
    ASSUME TicketsInv, TicketStep, NEW a \in Requests, req'[a] = req[a],
           NEW t \in DOMAIN req[a].tickets
    PROVE  ticket'[t] = ticket[t]
<1>1. t \in Tickets
  BY SeenIs DEF TicketsInv
<1>2. ASSUME NEW r \in Requests, AfterCommit(r)
      PROVE  ticket'[t] = ticket[t]
  <2>1. a \in Others(r)
    BY <1>2 DEF AfterCommit, Others
  <2>2. t \notin DOMAIN req[r].tickets
    BY <2>1 DEF TicketsInv, Locks
  <2>3. QED
    BY <1>1, <1>2, <2>2, CommittedIs DEF TicketsInv
<1>3. ASSUME NEW o \in Orders, AfterSell(o)
      PROVE  ticket'[t] = ticket[t]
  BY <1>1, <1>3 DEF AfterSell, CanBeTaken
<1>4. ASSUME NEW u \in Tickets, AfterRedeem(u)
      PROVE  ticket'[t] = ticket[t]
  BY <1>1, <1>4 DEF AfterRedeem
<1>5. QED
  BY <1>2, <1>3, <1>4, ZenonT(40) DEF TicketStep, Passes, AfterDropped, AfterNames, AfterFrees,
     AfterMove, MoveTokens, Untouched

LEMMA HeldSame ==
    ASSUME TicketsInv, TicketStep, NEW a \in Requests, req'[a] = req[a]
    PROVE  Held(a)'
BY HeldStays DEF Held, TicketsInv, HeldInv

LEMMA HeldKept == TicketsInv /\ TicketStep => HeldInv'
<1> SUFFICES ASSUME TicketsInv, TicketStep
             PROVE  HeldInv'
  OBVIOUS
<1>1. TypeInv /\ HeldInv
  BY DEF TicketsInv
<1>2. ASSUME NEW r \in Requests, \A q \in Others(r) : req'[q] = req[q], Held(r)'
      PROVE  HeldInv'
  BY <1>2, HeldSame DEF HeldInv, Others
<1>3. ASSUME NEW r \in Requests, Passes(r)
      PROVE  HeldInv'
  <2>1. Held(r)'
    BY <1>1, <1>3 DEF Passes, Held, HeldInv
  <2>2. QED
    BY <1>2, <1>3, <2>1 DEF Passes
<1>4. ASSUME NEW r \in Requests, AfterDropped(r) \/ AfterCommit(r)
      PROVE  HeldInv'
  <2>1. DOMAIN req'[r].tickets = {} /\ \A q \in Others(r) : req'[q] = req[q]
    BY <1>4, NoneHeld DEF AfterDropped, AfterCommit
  <2>2. QED
    BY <1>2, <2>1 DEF Held
<1>5. ASSUME NEW r \in Requests, NEW t \in Tickets, AfterNames(r, t)
      PROVE  HeldInv'
  <2>1. Held(r)'
    BY <1>1, <1>5 DEF AfterNames, Untouched, Held, HeldInv, Late
  <2>2. QED
    BY <1>2, <1>5, <2>1 DEF AfterNames
<1>6. ASSUME NEW r \in Requests, AfterFrees(r)
      PROVE  HeldInv'
  <2> DEFINE t == req[r].ticket
  <2>1. /\ ticket' = ticket /\ req[r].stage = "checked" /\ req'[r].stage = "freed"
        /\ t \in Tickets
    BY <1>6 DEF AfterFrees, Untouched
  <2>2. CASE req'[r].tickets = req[r].tickets
    <3>1. Held(r)'
      BY <1>1, <2>1, <2>2 DEF Held, HeldInv, Late
    <3>2. QED
      BY <1>2, <1>6, <3>1 DEF AfterFrees
  <2>3. CASE req'[r].tickets # req[r].tickets
    <3>1. /\ DOMAIN req'[r].tickets = DOMAIN req[r].tickets \cup {t}
          /\ req'[r].tickets[t].status = "Available" /\ req'[r].tickets[t].line = Null
          /\ req'[r].tickets[t].wallet = SeenTickets(r)[t].wallet
          /\ \A u \in DOMAIN req[r].tickets \ {t} : req'[r].tickets[u] = req[r].tickets[u]
      BY <1>6, <2>3 DEF AfterFrees
    <3>2. SeenTickets(r)[t].wallet = ticket[t].wallet
      BY <1>1, <2>1, SeenHeld DEF HeldInv, Late
    <3> HIDE DEF t
    <3>3. Held(r)'
      BY <1>1, <2>1, <3>1, <3>2 DEF Held, HeldInv, Late
    <3>4. QED
      BY <1>2, <1>6, <3>3 DEF AfterFrees
  <2>4. QED
    BY <2>2, <2>3
<1>7. ASSUME NEW r \in Requests, MoveTokens(r), AfterMove(r)
      PROVE  HeldInv'
  <2>1. /\ ticket' = ticket /\ req'[r].stage = "moved"
        /\ \A q \in Others(r) : req'[q] = req[q]
        /\ Returned(r) \subseteq Tickets
        /\ DOMAIN req'[r].tickets = Returned(r) \cup DOMAIN req[r].tickets
        /\ \A t \in Returned(r) :
              req'[r].tickets[t] = [SeenTickets(r)[t] EXCEPT !.wallet = Org]
        /\ \A t \in DOMAIN req[r].tickets \ Returned(r) :
              req'[r].tickets[t] = req[r].tickets[t]
    BY <1>7 DEF MoveTokens, AfterMove
  <2>2. ASSUME NEW t \in Returned(r)
        PROVE  \/ req'[r].tickets[t].status = "Available" /\ req'[r].tickets[t].line = Null
               \/ /\ req'[r].tickets[t].status = ticket[t].status
                  /\ req'[r].tickets[t].line = ticket[t].line
    <3>1. t \in Tickets /\ SeenTickets(r)[t] \in TicketRows
      BY <1>1, <2>1, SeenIs
    <3>2. /\ req'[r].tickets[t].status = SeenTickets(r)[t].status
          /\ req'[r].tickets[t].line = SeenTickets(r)[t].line
      BY <2>1, <3>1 DEF TicketRows
    <3>3. QED
      BY <1>1, <3>1, <3>2, SeenHeld DEF HeldInv
  <2>3. Held(r)'
    BY <1>1, <2>1, <2>2 DEF Held, HeldInv, Late
  <2>4. QED
    BY <1>2, <2>1, <2>3
<1>8. ASSUME UNCHANGED req
      PROVE  HeldInv'
  BY <1>8, HeldSame DEF HeldInv
<1>9. QED
  BY <1>3, <1>4, <1>5, <1>6, <1>7, <1>8 DEF TicketStep, AfterSell, AfterRedeem

\* A request that commits marks, and unmarks, no row that another one has written.
LEMMA MarkedStays ==
    ASSUME TicketsInv, TicketStep, NEW a \in Requests, req'[a] = req[a],
           NEW k \in DOMAIN req[a].rows
    PROVE  (Marked(k) => Marked(k)') /\ (Marked(k)' => Marked(k))
<1>1. ASSUME NEW r \in Requests, AfterCommit(r)
      PROVE  (Marked(k) => Marked(k)') /\ (Marked(k)' => Marked(k))
  <2>1. a \in Others(r)
    BY <1>1 DEF AfterCommit, Others
  <2>2. k \notin DOMAIN req[r].rows
    BY <2>1 DEF TicketsInv, Locks
  <2>3. /\ record' = SeenRows(r)
        /\ DOMAIN SeenRows(r) = DOMAIN req[r].rows \cup DOMAIN record
        /\ \A j \in DOMAIN record \ DOMAIN req[r].rows : SeenRows(r)[j] = record[j]
    BY <1>1, SeenIs DEF AfterCommit, TicketsInv
  <2>4. QED
    BY <2>2, <2>3 DEF Marked
<1>2. ASSUME UNCHANGED record
      PROVE  (Marked(k) => Marked(k)') /\ (Marked(k)' => Marked(k))
  BY <1>2 DEF Marked
<1>3. QED
  BY <1>1, <1>2, ZenonT(40) DEF TicketStep, Passes, AfterDropped, AfterNames, AfterFrees,
     AfterMove, MoveTokens, Untouched, AfterSell, AfterRedeem

LEMMA MarksSame ==
    ASSUME TicketsInv, TicketStep, NEW a \in Requests, req'[a] = req[a]
    PROVE  MarksOf(a)'
<1>1. MarksOf(a) /\ used \subseteq used'
  BY UsedStays DEF TicketsInv, MarkInv
<1>2. \A k \in RowIds : NewMark(a, k)' => NewMark(a, k)
  BY MarkedStays DEF NewMark
<1>3. \A t \in DOMAIN req[a].tickets : ticket'[t] = ticket[t]
  BY HeldStays
<1>4. QED
  BY <1>1, <1>2, <1>3 DEF MarksOf

LEMMA MarkKept == TicketsInv /\ TicketStep => MarkInv'
<1> SUFFICES ASSUME TicketsInv, TicketStep
             PROVE  MarkInv'
  OBVIOUS
<1>1. TypeInv /\ HeldInv /\ UsedInv /\ TicketInv /\ MarkInv /\ used \subseteq used'
  BY UsedStays DEF TicketsInv
<1>2. ASSUME NEW r \in Requests, \A q \in Others(r) : req'[q] = req[q], MarksOf(r)'
      PROVE  MarkInv'
  BY <1>2, MarksSame DEF MarkInv, Others
<1>3. ASSUME NEW r \in Requests, Passes(r)
      PROVE  MarkInv'
  <2>1. MarksOf(r)'
    BY <1>1, <1>3 DEF Passes, MarkInv, MarksOf, NewMark, Marked
  <2>2. QED
    BY <1>2, <1>3, <2>1 DEF Passes
<1>4. ASSUME NEW r \in Requests, AfterDropped(r) \/ AfterCommit(r)
      PROVE  MarkInv'
  <2>1. DOMAIN req'[r].rows = {} /\ \A q \in Others(r) : req'[q] = req[q]
    BY <1>4, NoneHeld DEF AfterDropped, AfterCommit
  <2>2. MarksOf(r)'
    BY <2>1 DEF MarksOf, NewMark
  <2>3. QED
    BY <1>2, <2>1, <2>2
<1>5. ASSUME NEW r \in Requests, NEW t \in Tickets, AfterNames(r, t)
      PROVE  MarkInv'
  <2>1. ticket' = ticket /\ record' = record /\ req'[r].tickets = req[r].tickets
    BY <1>5 DEF AfterNames, Untouched
  <2>2. \A k \in RowIds : NewMark(r, k)' => NewMark(r, k)
    <3>1. PICK new \in RowIds :
             /\ DOMAIN req'[r].rows = DOMAIN req[r].rows \cup {new}
             /\ req'[r].rows[new] = "none"
             /\ \A j \in DOMAIN req[r].rows \ {new} : req'[r].rows[j] = req[r].rows[j]
      BY <1>5 DEF AfterNames
    <3>2. QED
      BY <2>1, <3>1 DEF NewMark, Marked
  <2>3. MarksOf(r)'
    BY <1>1, <2>1, <2>2 DEF MarkInv, MarksOf
  <2>4. QED
    BY <1>2, <1>5, <2>3 DEF AfterNames
<1>6. ASSUME NEW r \in Requests, AfterFrees(r)
      PROVE  MarkInv'
  <2> DEFINE t == req[r].ticket
             k == req[r].row
  <2>1. /\ ticket' = ticket /\ record' = record /\ used' = used /\ req[r].stage = "checked"
        /\ k[1] = t /\ t \in Tickets
        /\ DOMAIN req'[r].rows = DOMAIN req[r].rows \cup {k}
        /\ \A j \in DOMAIN req[r].rows \ {k} : req'[r].rows[j] = req[r].rows[j]
    BY <1>6 DEF AfterFrees, Untouched
  <2>2. \/ t \in used /\ req'[r].tickets = req[r].tickets
        \/ /\ DOMAIN req'[r].tickets = DOMAIN req[r].tickets \cup {t}
           /\ SeenTickets(r)[t].status = "Purchased" /\ req'[r].tickets[t].line = Null
           /\ \A u \in DOMAIN req[r].tickets \ {t} : req'[r].tickets[u] = req[r].tickets[u]
    BY <1>1, <1>6 DEF AfterFrees, UsedInv
  <2> HIDE DEF t, k
  <2>3. \A j \in RowIds : NewMark(r, j)' => j = k \/ NewMark(r, j)
    BY <2>1 DEF NewMark, Marked
  <2>4. \A j \in RowIds : NewMark(r, j) /\ j[1] \notin used =>
           /\ j[1] \in DOMAIN req[r].tickets
           /\ req[r].tickets[j[1]].line = Null /\ ticket[j[1]].line # Null
           /\ \A m \in RowIds : NewMark(r, m) /\ m[1] = j[1] => m = j
    BY <1>1 DEF MarkInv, MarksOf
  \* A ticket that is still Purchased has not been released before.
  <2>5. t \notin used => ticket[t].line # Null
    <3>1. t \notin used => ticket[t].status = "Purchased"
      BY <1>1, <2>1, <2>2, SeenHeld DEF HeldInv
    <3>2. QED
      BY <1>1, <2>1, <3>1 DEF TicketInv
  <2>6. t \notin used /\ t \in DOMAIN req[r].tickets => req[r].tickets[t].line # Null
    BY <1>1, <2>1, <2>2, <2>5, SeenHeld DEF HeldInv
  <2>7. ASSUME NEW j \in RowIds, NewMark(r, j)', j[1] \notin used
        PROVE  /\ j[1] \in DOMAIN req'[r].tickets
               /\ req'[r].tickets[j[1]].line = Null /\ ticket[j[1]].line # Null
               /\ \A m \in RowIds : NewMark(r, m)' /\ m[1] = j[1] => m = j
    <3>1. CASE j = k
      <4>1. \A m \in RowIds : NewMark(r, m) => m[1] # t
        BY <2>1, <2>4, <2>6, <2>7, <3>1
      <4>2. QED
        BY <2>1, <2>2, <2>3, <2>5, <2>7, <3>1, <4>1
    <3>2. CASE j # k
      <4>1. /\ NewMark(r, j) /\ j[1] \in DOMAIN req[r].tickets
            /\ req[r].tickets[j[1]].line = Null /\ ticket[j[1]].line # Null
        BY <2>3, <2>4, <2>7, <3>2
      <4>2. j[1] # t
        BY <2>6, <2>7, <4>1
      <4>3. \A m \in RowIds : NewMark(r, m)' /\ m[1] = j[1] => m = j
        BY <2>1, <2>3, <2>4, <2>7, <4>1, <4>2
      <4>4. QED
        BY <2>2, <4>1, <4>2, <4>3
    <3>3. QED
      BY <3>1, <3>2
  <2>8. MarksOf(r)'
    BY <2>1, <2>7 DEF MarksOf
  <2>9. QED
    BY <1>2, <1>6, <2>8 DEF AfterFrees
<1>7. ASSUME NEW r \in Requests, MoveTokens(r), AfterMove(r)
      PROVE  MarkInv'
  <2>1. /\ ticket' = ticket /\ record' = record
        /\ \A q \in Others(r) : req'[q] = req[q]
        /\ Returned(r) \subseteq Tickets
        /\ DOMAIN req'[r].tickets = Returned(r) \cup DOMAIN req[r].tickets
        /\ \A t \in Returned(r) :
              req'[r].tickets[t] = [SeenTickets(r)[t] EXCEPT !.wallet = Org]
        /\ \A t \in DOMAIN req[r].tickets \ Returned(r) :
              req'[r].tickets[t] = req[r].tickets[t]
        /\ req'[r].rows = req[r].rows
    BY <1>7 DEF MoveTokens, AfterMove
  <2>2. \A k \in RowIds : NewMark(r, k)' => NewMark(r, k)
    BY <2>1 DEF NewMark, Marked
  <2>3. \A t \in DOMAIN req[r].tickets : req'[r].tickets[t].line = req[r].tickets[t].line
    <3> SUFFICES ASSUME NEW t \in DOMAIN req[r].tickets
                 PROVE  req'[r].tickets[t].line = req[r].tickets[t].line
      OBVIOUS
    <3>1. t \in Tickets /\ SeenTickets(r)[t] = req[r].tickets[t] /\ SeenTickets(r)[t] \in TicketRows
      BY <1>1, SeenIs
    <3>2. [SeenTickets(r)[t] EXCEPT !.wallet = Org].line = SeenTickets(r)[t].line
      BY <3>1 DEF TicketRows
    <3>3. QED
      BY <2>1, <3>1, <3>2
  <2>4. MarksOf(r)'
    BY <1>1, <2>1, <2>2, <2>3 DEF MarkInv, MarksOf
  <2>5. QED
    BY <1>2, <2>1, <2>4
<1>8. ASSUME UNCHANGED req
      PROVE  MarkInv'
  BY <1>8, MarksSame DEF MarkInv
<1>9. QED
  BY <1>3, <1>4, <1>5, <1>6, <1>7, <1>8 DEF TicketStep, AfterSell, AfterRedeem

LEMMA FiniteRows == IsFiniteSet(RowIds)
<1> DEFINE S == (Tickets \X Requests) \X (1..MaxItems)
           f == [p \in S |-> <<p[1][1], p[1][2], p[2]>>]
<1>1. IsFiniteSet(S)
  <2>1. IsFiniteSet(1..MaxItems)
    BY FiniteAssumption, FS_Interval
  <2>2. IsFiniteSet(Tickets \X Requests)
    BY FiniteAssumption, FS_Product
  <2>3. QED
    BY <2>1, <2>2, FS_Product
<1>2. f \in [S -> RowIds]
  BY DEF RowIds
<1>3. \A k \in RowIds : \E p \in S : f[p] = k
  <2>1. ASSUME NEW k \in RowIds
        PROVE  \E p \in S : f[p] = k
    <3> DEFINE p == <<<<k[1], k[2]>>, k[3]>>
    <3>1. p \in S /\ f[p] = k
      BY DEF RowIds
    <3>2. QED
      BY <3>1
  <2>2. QED
    BY <2>1
<1> HIDE DEF S, f
<1>4. f \in Surjection(S, RowIds)
  BY <1>2, <1>3 DEF Surjection
<1>5. QED
  BY <1>1, <1>4, FS_Surjection

\* The rows that mark a ticket, and the lines it was sold in.
MarksFor(t) == {k \in RowsOf(t, record) : record[k] = "ticket"}
SoldIn(t) == {l \in Lines : t \in members[l]}

LEMMA CountsAre ==
    ASSUME TypeInv, NEW t \in Tickets
    PROVE  /\ IsFiniteSet(MarksFor(t)) /\ TicketRefunds(t) = Cardinality(MarksFor(t))
           /\ TicketRefunds(t) \in Nat
           /\ IsFiniteSet(SoldIn(t)) /\ Sales(t) = Cardinality(SoldIn(t)) /\ Sales(t) \in Nat
<1>1. MarksFor(t) \in SUBSET RowIds /\ SoldIn(t) \in SUBSET Lines
  BY DEF MarksFor, SoldIn, RowsOf, TypeInv, TypeOK
<1>2. IsFiniteSet(MarksFor(t)) /\ IsFiniteSet(SoldIn(t))
  BY <1>1, FiniteRows, FiniteAssumption, FS_Subset
<1>3. TicketRefunds(t) = Cardinality(MarksFor(t)) /\ Sales(t) = Cardinality(SoldIn(t))
  BY DEF TicketRefunds, Sales, MarksFor, SoldIn
<1>4. QED
  BY <1>2, <1>3, FS_CardinalityType

LEMMA SaleKept == TicketsInv /\ TicketStep /\ TypeInv' => SaleInv'
<1> SUFFICES ASSUME TicketsInv, TicketStep, TypeInv', NEW t \in Tickets, t \notin used'
             PROVE  TicketRefunds(t)' + (IF ticket'[t].line = Null THEN 0 ELSE 1) <= Sales(t)'
  BY DEF SaleInv
<1> DEFINE n == IF ticket[t].line = Null THEN 0 ELSE 1
           m == IF ticket'[t].line = Null THEN 0 ELSE 1
<1>1. t \notin used
  BY UsedStays
<1>2. /\ TypeInv /\ HeldInv /\ MarkInv /\ TicketInv /\ UsedInv
      /\ TicketRefunds(t) + n <= Sales(t)
  BY <1>1 DEF TicketsInv, SaleInv
<1>3. /\ IsFiniteSet(MarksFor(t)) /\ TicketRefunds(t) = Cardinality(MarksFor(t))
      /\ TicketRefunds(t) \in Nat
      /\ IsFiniteSet(SoldIn(t)) /\ Sales(t) = Cardinality(SoldIn(t)) /\ Sales(t) \in Nat
  BY <1>2, CountsAre
<1>4. TicketRefunds(t)' = Cardinality(MarksFor(t)') /\ Sales(t)' = Cardinality(SoldIn(t)')
  BY DEF TicketRefunds, Sales, MarksFor, SoldIn
<1>5. /\ MarksFor(t)' \in SUBSET RowIds /\ SoldIn(t)' \in SUBSET Lines
  BY DEF MarksFor, SoldIn, RowsOf, TypeInv, TypeOK
<1>6. /\ IsFiniteSet(MarksFor(t)') /\ IsFiniteSet(SoldIn(t)')
      /\ TicketRefunds(t)' \in Nat /\ Sales(t)' \in Nat
  BY <1>4, <1>5, FiniteRows, FiniteAssumption, FS_Subset, FS_CardinalityType
<1>7. ASSUME UNCHANGED <<record, members>>, m = n
      PROVE  TicketRefunds(t)' + m <= Sales(t)'
  BY <1>2, <1>7 DEF TicketRefunds, Sales
<1>8. ASSUME NEW o \in Orders, AfterSell(o)
      PROVE  TicketRefunds(t)' + m <= Sales(t)'
  <2>1. TicketRefunds(t)' = TicketRefunds(t)
    BY <1>8 DEF AfterSell, TicketRefunds
  <2>2. \A l \in Lines : OrderOf[l] = o => members[l] = {}
    BY <1>2, <1>8 DEF AfterSell, TicketInv
  <2>3. SoldIn(t) \in SUBSET (SoldIn(t)')
    BY <1>8, <2>2 DEF AfterSell, SoldIn
  <2>4. CASE ticket'[t] = ticket[t]
    <3>1. Sales(t) <= Sales(t)'
      BY <1>3, <1>4, <1>6, <2>3, FS_Subset
    <3>2. QED
      BY <1>2, <1>3, <1>6, <2>1, <2>4, <3>1
  <2>5. CASE ticket'[t] # ticket[t]
    <3> DEFINE l == ticket'[t].line
    <3>1. ticket[t].line = Null /\ l \in Lines /\ OrderOf[l] = o /\ t \in members'[l]
      BY <1>1, <1>2, <1>8, <2>5 DEF AfterSell, CanBeTaken, UsedInv
    <3> HIDE DEF l
    <3>2. l \notin SoldIn(t) /\ SoldIn(t) \cup {l} \in SUBSET (SoldIn(t)')
      BY <2>2, <2>3, <3>1 DEF SoldIn
    <3>3. /\ Cardinality(SoldIn(t) \cup {l}) = Sales(t) + 1
          /\ Cardinality(SoldIn(t) \cup {l}) <= Sales(t)'
      BY <1>3, <1>4, <1>6, <3>2, FS_AddElement, FS_Subset
    <3>4. Sales(t) + 1 <= Sales(t)'
      BY <1>3, <1>6, <3>3
    <3>5. n = 0 /\ (m = 0 \/ m = 1)
      BY <3>1
    <3>6. QED
      BY <1>2, <1>3, <1>6, <2>1, <3>4, <3>5
  <2>6. QED
    BY <2>4, <2>5
<1>9. ASSUME NEW r \in Requests, AfterCommit(r)
      PROVE  TicketRefunds(t)' + m <= Sales(t)'
  <2>1. Sales(t)' = Sales(t)
    BY <1>9 DEF AfterCommit, Sales
  <2>2. \A k \in RowIds : Marked(k)' => Marked(k) \/ NewMark(r, k)
    BY <1>2, <1>9, SeenIs DEF AfterCommit, Marked, NewMark
  <2>3. \A k \in RowIds : k \in MarksFor(t)' => k[1] = t /\ (k \in MarksFor(t) \/ NewMark(r, k))
    BY <2>2 DEF MarksFor, RowsOf, Marked
  <2>4. CASE \A k \in RowIds : k[1] = t => ~NewMark(r, k)
    <3>1. MarksFor(t)' \in SUBSET MarksFor(t)
      BY <1>5, <2>3, <2>4
    <3>2. TicketRefunds(t)' <= TicketRefunds(t)
      BY <1>3, <1>4, <3>1, FS_Subset
    <3>3. n \in Nat /\ m \in Nat /\ m <= n
      BY <1>2, <1>9, CommittedIs
    <3> HIDE DEF m, n
    <3>4. QED
      BY <1>2, <1>3, <1>6, <2>1, <3>2, <3>3
  <2>5. CASE ~\A k \in RowIds : k[1] = t => ~NewMark(r, k)
    <3>1. PICK k \in RowIds : k[1] = t /\ NewMark(r, k)
      BY <2>5
    <3>2. /\ t \in DOMAIN req[r].tickets
          /\ req[r].tickets[t].line = Null /\ ticket[t].line # Null
          /\ \A j \in RowIds : NewMark(r, j) /\ j[1] = t => j = k
      BY <1>1, <1>2, <3>1 DEF MarkInv, MarksOf
    <3>3. m = 0 /\ n = 1
      BY <1>2, <1>9, <3>2, CommittedIs
    <3>4. MarksFor(t)' \in SUBSET (MarksFor(t) \cup {k})
      BY <1>5, <2>3, <3>2
    <3>5. IsFiniteSet(MarksFor(t) \cup {k})
      BY <1>3, FS_AddElement
    <3>6. TicketRefunds(t)' <= Cardinality(MarksFor(t) \cup {k})
      BY <1>4, <3>4, <3>5, FS_Subset
    <3>7. \/ Cardinality(MarksFor(t) \cup {k}) = TicketRefunds(t) + 1
          \/ Cardinality(MarksFor(t) \cup {k}) = TicketRefunds(t)
      BY <1>3, FS_AddElement
    <3>8. TicketRefunds(t)' <= TicketRefunds(t) + 1
      BY <1>3, <1>6, <3>6, <3>7
    <3> HIDE DEF m, n
    <3>9. QED
      BY <1>2, <1>3, <1>6, <2>1, <3>3, <3>8
  <2>6. QED
    BY <2>4, <2>5
<1>10. ASSUME NEW u \in Tickets, AfterRedeem(u)
       PROVE  TicketRefunds(t)' + m <= Sales(t)'
  BY <1>7, <1>10 DEF AfterRedeem
<1>11. QED
  BY <1>7, <1>8, <1>9, <1>10, ZenonT(40) DEF TicketStep, Passes, AfterDropped, AfterNames, AfterFrees,
     AfterMove, MoveTokens, Untouched

LEMMA CleanBefore == TicketStep /\ Clean' => Clean
BY ZenonT(120) DEF TicketStep, Passes, Dropped, AfterDropped, AfterNames, AfterFrees,
   AfterMove, MoveTokens, Untouched, AfterCommit, AfterSell, AfterRedeem, Crash, GivesUp,
   PayTooLittle, ProviderRefuses, AnswerLost, GiveTokensBack, Clean

\* The token a request sends is where the database says before it is sent.
LEMMA SentFrom ==
    ASSUME TicketsInv, ChainInv, Clean, NEW r \in Requests, MoveTokens(r), AfterMove(r),
           NEW t \in Returned(r)
    PROVE  req'[r].from = ticket[t].wallet
<1>1. t \in Tickets /\ chain[t] = req'[r].from /\ req[r].stage = "paying" /\ ~TicketLocked(t, r)
  BY DEF MoveTokens, AfterMove
<1>2. \A q \in Requests : ~Moved(q, t)
  BY <1>1 DEF TicketLocked, Moved, Late, Others
<1>3. chain[t] = ticket[t].wallet
  BY <1>1, <1>2 DEF ChainInv
<1>4. QED
  BY <1>1, <1>3

LEMMA SentKept == TicketsInv /\ ChainInv /\ SentInv /\ TicketStep => SentInv'
<1> SUFFICES ASSUME TicketsInv, ChainInv, SentInv, TicketStep, Clean'
             PROVE  \A r \in Requests : Sent(r)'
  BY DEF SentInv
<1>1. Clean
  BY CleanBefore
<1>2. TypeInv /\ HeldInv /\ \A r \in Requests : Sent(r) /\ req[r].moved \subseteq Tickets
  BY <1>1 DEF SentInv, TicketsInv, TypeInv, TypeOK
<1>3. ASSUME NEW a \in Requests, req'[a] = req[a]
      PROVE  Sent(a)'
  <2>1. \A t \in DOMAIN req[a].tickets : ticket'[t] = ticket[t]
    BY <1>3, HeldStays
  <2>2. QED
    BY <1>2, <1>3, <2>1 DEF Sent
<1>4. ASSUME NEW r \in Requests, \A q \in Others(r) : req'[q] = req[q], Sent(r)'
      PROVE  \A q \in Requests : Sent(q)'
  BY <1>3, <1>4 DEF Others
<1>5. ASSUME NEW r \in Requests, Passes(r)
      PROVE  \A q \in Requests : Sent(q)'
  <2>1. Sent(r)'
    BY <1>2, <1>5 DEF Passes, Sent
  <2>2. QED
    BY <1>4, <1>5, <2>1 DEF Passes
<1>6. ASSUME NEW r \in Requests,
             \/ AfterDropped(r) \/ AfterCommit(r) \/ AfterFrees(r)
             \/ \E t \in Tickets : AfterNames(r, t)
      PROVE  \A q \in Requests : Sent(q)'
  <2>1. req'[r].stage \notin Late /\ \A q \in Others(r) : req'[q] = req[q]
    BY <1>6 DEF AfterDropped, AfterCommit, AfterFrees, AfterNames, Late, Ended
  <2>2. Sent(r)'
    BY <2>1 DEF Sent
  <2>3. QED
    BY <1>4, <2>1, <2>2
<1>7. ASSUME NEW r \in Requests, MoveTokens(r), AfterMove(r)
      PROVE  \A q \in Requests : Sent(q)'
  <2>1. /\ ticket' = ticket /\ req[r].stage = "paying"
        /\ \A q \in Others(r) : req'[q] = req[q]
        /\ req'[r].moved = Returned(r)
        /\ DOMAIN req'[r].tickets = Returned(r) \cup DOMAIN req[r].tickets
        /\ \A t \in DOMAIN req[r].tickets \ Returned(r) :
              req'[r].tickets[t] = req[r].tickets[t]
    BY <1>7 DEF MoveTokens, AfterMove
  <2>2. \A t \in Returned(r) : req'[r].from = ticket[t].wallet
    BY <1>1, <1>7, SentFrom
  <2>3. \A t \in DOMAIN req[r].tickets : req[r].tickets[t].wallet = ticket[t].wallet
    BY <1>2, <2>1 DEF HeldInv, Held, Late
  <2>4. Sent(r)'
    BY <2>1, <2>2, <2>3 DEF Sent
  <2>5. QED
    BY <1>4, <2>1, <2>4
<1>8. ASSUME UNCHANGED req
      PROVE  \A q \in Requests : Sent(q)'
  BY <1>3, <1>8
<1>9. QED
  BY <1>5, <1>6, <1>7, <1>8 DEF TicketStep, AfterSell, AfterRedeem

LEMMA ChainKept == TicketsInv /\ ChainInv /\ SentInv /\ TicketStep /\ TypeInv' => ChainInv'
<1> SUFFICES ASSUME TicketsInv, ChainInv, SentInv, TicketStep, TypeInv', Clean'
             PROVE  \A t \in Tickets :
                       /\ \A r \in Requests : Moved(r, t)' => chain'[t] = req'[r].tickets[t].wallet
                       /\ (\A r \in Requests : ~Moved(r, t)') => chain'[t] = ticket'[t].wallet
  BY DEF ChainInv
<1>1. TypeInv /\ HeldInv /\ Locks
  BY DEF TicketsInv
<1>2. Clean
  BY CleanBefore
<1>3. ASSUME NEW t \in Tickets
      PROVE  /\ \A r \in Requests : Moved(r, t) => chain[t] = req[r].tickets[t].wallet
             /\ (\A r \in Requests : ~Moved(r, t)) => chain[t] = ticket[t].wallet
  BY <1>2 DEF ChainInv
<1> TAKE t \in Tickets
<1>4. ASSUME NEW a \in Requests, req'[a] = req[a], Moved(a, t)
      PROVE  Moved(a, t)' /\ ticket'[t] = ticket[t]
  BY <1>4, HeldStays DEF Moved
\* A step that leaves the ticket, its token and what is moved of it alone.
<1>5. ASSUME UNCHANGED <<ticket, chain>>,
             \A a \in Requests :
                /\ Moved(a, t)' => Moved(a, t)
                /\ Moved(a, t) => Moved(a, t)' /\ req'[a].tickets = req[a].tickets
      PROVE  /\ \A r \in Requests : Moved(r, t)' => chain'[t] = req'[r].tickets[t].wallet
             /\ (\A r \in Requests : ~Moved(r, t)') => chain'[t] = ticket'[t].wallet
  BY <1>3, <1>5
<1>6. ASSUME NEW r \in Requests, UNCHANGED <<ticket, chain>>,
             \A q \in Others(r) : req'[q] = req[q],
             req'[r].stage \in Late => req[r].stage \in Late,
             req[r].stage \in Late => req'[r].stage \in Late /\ req'[r].tickets = req[r].tickets
      PROVE  /\ \A q \in Requests : Moved(q, t)' => chain'[t] = req'[q].tickets[t].wallet
             /\ (\A q \in Requests : ~Moved(q, t)') => chain'[t] = ticket'[t].wallet
  <2>1. ASSUME NEW a \in Requests
        PROVE  /\ Moved(a, t)' => Moved(a, t)
               /\ Moved(a, t) => Moved(a, t)' /\ req'[a].tickets = req[a].tickets
    <3>1. CASE a = r
      BY <1>6, <3>1 DEF Moved
    <3>2. CASE a # r
      <4>1. req'[a] = req[a]
        BY <1>6, <3>2 DEF Others
      <4>2. QED
        BY <4>1 DEF Moved
    <3>3. QED
      BY <3>1, <3>2
  <2>2. QED
    BY <1>5, <1>6, <2>1
<1>7. ASSUME NEW r \in Requests, Passes(r)
      PROVE  /\ \A q \in Requests : Moved(q, t)' => chain'[t] = req'[q].tickets[t].wallet
             /\ (\A q \in Requests : ~Moved(q, t)') => chain'[t] = ticket'[t].wallet
  BY <1>6, <1>7 DEF Passes
<1>8. ASSUME NEW r \in Requests, (\E u \in Tickets : AfterNames(r, u)) \/ AfterFrees(r)
      PROVE  /\ \A q \in Requests : Moved(q, t)' => chain'[t] = req'[q].tickets[t].wallet
             /\ (\A q \in Requests : ~Moved(q, t)') => chain'[t] = ticket'[t].wallet
  BY <1>6, <1>8 DEF AfterNames, AfterFrees, Untouched, Late
\* A request that has moved tokens is the only one that has moved this one.
<1>9. ASSUME NEW r \in Requests, t \in DOMAIN req[r].tickets
      PROVE  \A q \in Others(r) : ~Moved(q, t)
  BY <1>1, <1>9 DEF Locks, Moved
<1>10. ASSUME NEW r \in Requests, \A q \in Others(r) : req'[q] = req[q], ~Moved(r, t)'
       PROVE  /\ \A q \in Requests : Moved(q, t)' => q \in Others(r) /\ Moved(q, t)
                                       /\ req'[q] = req[q]
              /\ (\A q \in Requests : ~Moved(q, t)') => \A q \in Others(r) : ~Moved(q, t)
  BY <1>10 DEF Others, Moved
<1>11. ASSUME NEW r \in Requests, Dropped(r), AfterDropped(r)
       PROVE  /\ \A q \in Requests : Moved(q, t)' => chain'[t] = req'[q].tickets[t].wallet
              /\ (\A q \in Requests : ~Moved(q, t)') => chain'[t] = ticket'[t].wallet
  <2>1. /\ \A q \in Others(r) : req'[q] = req[q]
        /\ ticket' = ticket /\ req'[r].stage \in Ended
    BY <1>11 DEF AfterDropped
  <2>2. CASE req[r].stage \notin Late /\ Untouched
    BY <1>6, <2>1, <2>2 DEF Untouched, Late, Ended
  <2>3. ~Crash(r)
    BY DEF Crash, Clean
  <2>4. CASE GivesUp(r)
    <3>1. req[r].stage = "moved" /\ Sent(r)
      BY <1>2, <2>4 DEF GivesUp, PayTooLittle, ProviderRefuses, AnswerLost, SentInv
    <3>2. chain' = [u \in Tickets |-> IF u \in req[r].moved THEN req[r].from ELSE chain[u]]
      BY <2>4 DEF GivesUp, PayTooLittle, ProviderRefuses, AnswerLost, GiveTokensBack, Clean
    <3>3. ~Moved(r, t)'
      BY <2>1 DEF Moved, Late, Ended
    <3>4. CASE t \in DOMAIN req[r].tickets
      <4>1. chain[t] = req[r].tickets[t].wallet
        BY <1>3, <3>1, <3>4 DEF Moved, Late
      <4>2. chain'[t] = ticket[t].wallet
        BY <3>1, <3>2, <3>4, <4>1 DEF Sent, Late
      <4>3. QED
        BY <1>9, <1>10, <2>1, <3>3, <3>4, <4>2
    <3>5. CASE t \notin DOMAIN req[r].tickets
      <4>1. ~Moved(r, t) /\ t \notin req[r].moved
        BY <3>1, <3>5 DEF Moved, Sent, Late
      <4>2. chain'[t] = chain[t]
        BY <3>2, <4>1
      <4>3. (\A q \in Others(r) : ~Moved(q, t)) => \A q \in Requests : ~Moved(q, t)
        BY <4>1 DEF Others
      <4>4. QED
        BY <1>3, <1>10, <2>1, <3>3, <4>2, <4>3
    <3>6. QED
      BY <3>4, <3>5
  <2>5. QED
    BY <1>11, <2>2, <2>3, <2>4 DEF Dropped
<1>12. ASSUME NEW r \in Requests, MoveTokens(r), AfterMove(r)
       PROVE  /\ \A q \in Requests : Moved(q, t)' => chain'[t] = req'[q].tickets[t].wallet
              /\ (\A q \in Requests : ~Moved(q, t)') => chain'[t] = ticket'[t].wallet
  <2>1. /\ ticket' = ticket /\ req[r].stage = "paying" /\ req'[r].stage = "moved"
        /\ \A q \in Others(r) : req'[q] = req[q]
        /\ DOMAIN req'[r].tickets = Returned(r) \cup DOMAIN req[r].tickets
        /\ \A u \in Returned(r) :
              req'[r].tickets[u] = [SeenTickets(r)[u] EXCEPT !.wallet = Org]
        /\ \A u \in DOMAIN req[r].tickets \ Returned(r) :
              req'[r].tickets[u] = req[r].tickets[u]
        /\ Returned(r) \subseteq Tickets
        /\ \A u \in Returned(r) : ~TicketLocked(u, r)
        /\ chain' = [u \in Tickets |-> IF u \in Returned(r) THEN Org ELSE chain[u]]
    BY <1>12 DEF MoveTokens, AfterMove
  <2>2. ~Moved(r, t)
    BY <2>1 DEF Moved, Late
  <2>3. CASE t \in Returned(r)
    <3>1. SeenTickets(r)[t] \in TicketRows
      BY <1>1, SeenIs
    <3>2. req'[r].tickets[t].wallet = Org /\ chain'[t] = Org
      BY <2>1, <2>3, <3>1 DEF TicketRows
    <3>3. \A q \in Others(r) : ~Moved(q, t)'
      BY <2>1, <2>3 DEF TicketLocked, Moved
    <3>4. Moved(r, t)'
      BY <2>1, <2>3 DEF Moved, Late
    <3>5. QED
      BY <3>2, <3>3, <3>4 DEF Others
  <2>4. CASE t \in DOMAIN req[r].tickets \ Returned(r)
    <3>1. \A q \in Others(r) : ~Moved(q, t) /\ ~Moved(q, t)'
      BY <1>1, <2>1, <2>4 DEF Moved, Locks
    <3>2. chain'[t] = ticket[t].wallet
      BY <1>3, <2>1, <2>2, <2>4, <3>1 DEF Others
    <3>3. req'[r].tickets[t].wallet = ticket[t].wallet /\ Moved(r, t)'
      BY <1>1, <2>1, <2>4 DEF HeldInv, Held, Late, Moved
    <3>4. QED
      BY <3>1, <3>2, <3>3 DEF Others
  <2>5. CASE t \notin DOMAIN req[r].tickets /\ t \notin Returned(r)
    <3>1. ~Moved(r, t)' /\ chain'[t] = chain[t]
      BY <2>1, <2>5 DEF Moved
    <3>2. (\A q \in Others(r) : ~Moved(q, t)) => \A q \in Requests : ~Moved(q, t)
      BY <2>2 DEF Others
    <3>3. QED
      BY <1>3, <1>10, <2>1, <3>1, <3>2
  <2>6. QED
    BY <2>3, <2>4, <2>5
<1>13. ASSUME NEW r \in Requests, AfterCommit(r)
       PROVE  /\ \A q \in Requests : Moved(q, t)' => chain'[t] = req'[q].tickets[t].wallet
              /\ (\A q \in Requests : ~Moved(q, t)') => chain'[t] = ticket'[t].wallet
  <2>1. /\ \A q \in Others(r) : req'[q] = req[q]
        /\ chain' = chain /\ req[r].stage = "paid" /\ ~Moved(r, t)'
    BY <1>13 DEF AfterCommit, Moved, Late
  <2>2. CASE t \in DOMAIN req[r].tickets
    <3>1. chain'[t] = req[r].tickets[t].wallet
      BY <1>3, <2>1, <2>2 DEF Moved, Late
    <3>2. ticket'[t] = req[r].tickets[t]
      BY <1>1, <1>13, <2>2, CommittedIs
    <3>3. QED
      BY <1>9, <1>10, <2>1, <2>2, <3>1, <3>2
  <2>3. CASE t \notin DOMAIN req[r].tickets
    <3>1. ticket'[t] = ticket[t] /\ ~Moved(r, t)
      BY <1>1, <1>13, <2>3, CommittedIs DEF Moved
    <3>2. (\A q \in Others(r) : ~Moved(q, t)) => \A q \in Requests : ~Moved(q, t)
      BY <3>1 DEF Others
    <3>3. QED
      BY <1>3, <1>10, <2>1, <3>1, <3>2
  <2>4. QED
    BY <2>2, <2>3
<1>14. ASSUME NEW o \in Orders, AfterSell(o)
       PROVE  /\ \A q \in Requests : Moved(q, t)' => chain'[t] = req'[q].tickets[t].wallet
              /\ (\A q \in Requests : ~Moved(q, t)') => chain'[t] = ticket'[t].wallet
  <2>1. req' = req
    BY <1>14 DEF AfterSell
  <2>2. CASE ticket'[t] = ticket[t] /\ chain'[t] = chain[t]
    BY <1>3, <2>1, <2>2 DEF Moved
  <2>3. CASE ~(ticket'[t] = ticket[t] /\ chain'[t] = chain[t])
    <3>1. /\ \A r \in Requests : t \notin DOMAIN req[r].tickets
          /\ ticket'[t].wallet = o /\ chain'[t] = o
      BY <1>14, <2>3 DEF AfterSell, CanBeTaken
    <3>2. QED
      BY <2>1, <3>1 DEF Moved
  <2>4. QED
    BY <2>2, <2>3
<1>15. ASSUME NEW u \in Tickets, AfterRedeem(u)
       PROVE  /\ \A q \in Requests : Moved(q, t)' => chain'[t] = req'[q].tickets[t].wallet
              /\ (\A q \in Requests : ~Moved(q, t)') => chain'[t] = ticket'[t].wallet
  <2>1. req' = req /\ chain' = chain /\ ticket'[t].wallet = ticket[t].wallet
    BY <1>15 DEF AfterRedeem
  <2>2. QED
    BY <1>3, <2>1 DEF Moved
<1>16. QED
  BY <1>7, <1>8, <1>11, <1>12, <1>13, <1>14, <1>15 DEF TicketStep

-----------------------------------------------------------------------------
(* Tickets and rows: the theorems.                                         *)

Refundable == TicketsInv /\ ChainInv /\ SentInv

LEMMA InitRefundable == Init => Refundable
<1> SUFFICES ASSUME Init PROVE Refundable
  OBVIOUS
<1>1. TypeInv /\ DOMAIN Nothing = {}
  BY InitTypes, NothingIs
<1>2. \A r \in Requests : /\ req[r].stage = "idle" /\ req[r].rows = Nothing
                          /\ req[r].tickets = Nothing /\ req[r].named = {}
  BY DEF Init, NoRequest
<1>3. Locks /\ RowsAreOwn
  BY <1>1, <1>2 DEF Init, Locks, RowsAreOwn, Others
<1>4. TicketInv
  BY DEF Init, TicketInv
<1>5. HeldInv /\ UsedInv
  BY <1>1, <1>2 DEF Init, HeldInv, Held, UsedInv
<1>6. MarkInv
  BY <1>1, <1>2 DEF MarkInv, MarksOf, NewMark
<1>7. SentInv
  BY <1>2 DEF SentInv, Sent, Late
<1>8. SaleInv
  <2> SUFFICES ASSUME NEW t \in Tickets
               PROVE  TicketRefunds(t) + (IF ticket[t].line = Null THEN 0 ELSE 1) <= Sales(t)
    BY DEF SaleInv
  <2>1. MarksFor(t) = {} /\ ticket[t].line = Null
    BY <1>1 DEF Init, MarksFor, RowsOf
  <2>2. Cardinality({}) = 0
    BY FS_EmptySet
  <2>3. TicketRefunds(t) = 0 /\ Sales(t) \in Nat
    BY <1>1, <2>1, <2>2, CountsAre
  <2>4. QED
    BY <2>1, <2>3
<1>9. ChainInv
  BY <1>2 DEF Init, ChainInv, Moved, Late
<1>10. QED
  BY <1>1, <1>3, <1>4, <1>5, <1>6, <1>7, <1>8, <1>9 DEF Refundable, TicketsInv

LEMMA NextRefundable == Refundable /\ [Next]_vars => Refundable'
<1> SUFFICES ASSUME Refundable, [Next]_vars
             PROVE  Refundable'
  OBVIOUS
<1>1. TypeInv /\ TicketsInv /\ ChainInv /\ SentInv
  BY DEF Refundable, TicketsInv
<1>2. TypeInv'
  BY <1>1, NextTypes
<1>3. CASE Next
  <2>1. TicketStep
    BY <1>1, <1>3, TicketSteps
  <2>2. QED
    BY <1>1, <1>2, <2>1, LocksKept, RowsAreOwnKept, TicketKept, UsedKept, HeldKept, MarkKept,
       SaleKept, ChainKept, SentKept DEF Refundable, TicketsInv
<1>4. CASE UNCHANGED vars
  <2>1. /\ sold' = sold /\ ticket' = ticket /\ members' = members /\ record' = record
        /\ used' = used /\ chain' = chain /\ req' = req /\ past' = past
    BY <1>4 DEF vars
  <2>2. Locks' /\ RowsAreOwn' /\ TicketInv'
    BY <1>1, <2>1 DEF TicketsInv, Locks, RowsAreOwn, Open, TicketInv
  <2>3. HeldInv' /\ UsedInv'
    BY <1>1, <2>1 DEF TicketsInv, HeldInv, Held, UsedInv
  <2>4. MarkInv'
    BY <1>1, <2>1 DEF TicketsInv, MarkInv, MarksOf, NewMark, Marked
  <2>5. SentInv'
    BY <1>1, <2>1 DEF SentInv, Sent, Clean
  <2>6. SaleInv' /\ ChainInv'
    BY <1>1, <2>1 DEF TicketsInv, SaleInv, TicketRefunds, Sales, ChainInv, Clean, Moved
  <2>7. QED
    BY <1>2, <2>2, <2>3, <2>4, <2>5, <2>6 DEF Refundable, TicketsInv
<1>5. QED
  BY <1>3, <1>4

LEMMA AlwaysRefundable == Spec => []Refundable
BY InitRefundable, NextRefundable, PTL DEF Spec

\* However requests overlap, a ticket that was never redeemed is refunded at most
\* once for every line it was sold in (Order::refund, refunded_tickets).
THEOREM RefundedOncePerSale == Spec => []OncePerSale
<1>1. Refundable => OncePerSale
  <2> SUFFICES ASSUME TicketsInv, NEW t \in Tickets \ used
               PROVE  TicketRefunds(t) <= Sales(t)
    BY DEF Refundable, OncePerSale
  <2>1. TicketRefunds(t) + (IF ticket[t].line = Null THEN 0 ELSE 1) <= Sales(t)
    BY DEF TicketsInv, SaleInv
  <2>2. TicketRefunds(t) \in Nat /\ Sales(t) \in Nat
    BY CountsAre DEF TicketsInv
  <2>3. QED
    BY <2>1, <2>2
<1>2. QED
  BY <1>1, AlwaysRefundable, PTL

\* The tokens are where the database says, once no request is under way, if
\* none was left half-way (the handler's calls of the tari client).
LEMMA TokensAgree == Refundable => TokensFollow
<1> SUFFICES ASSUME Refundable, Quiet, Clean, NEW t \in Tickets
             PROVE  chain[t] = ticket[t].wallet
  BY DEF TokensFollow, Clean
<1>1. \A r \in Requests : ~Moved(r, t)
  BY DEF Quiet, Moved, Late, Open, Ended
<1>2. QED
  BY <1>1 DEF Refundable, ChainInv

-----------------------------------------------------------------------------
(* The money: what is written as refunded, what was paid back for it, and  *)
(* the order's fee.                                                        *)

\* Requests have overlapped once two are open.
OneAtATime == Alone => \A q, r \in Requests : Open(q) /\ Open(r) => q = r

\* Everything of the order but its fee has been refunded, as the request sees it.
Emptied(r) ==
    \A i \in ItemsOf(req[r].order) : i[1] # "EventFees" => SeenItems(r)[i] = QuantityOf(i)

\* One request after the other, the fee goes back with the last unit.
FeeRight(r) ==
    /\ req[r].last => req[r].stage \notin {"open", "checked"}
    /\ req[r].last /\ req[r].stage = "freed" => req[r].item = EventFee(req[r].order)
    /\ req[r].stage \in {"paying", "moved", "paid"} =>
          (Emptied(r) => SeenItems(r)[EventFee(req[r].order)] = 1)

FeeInv == Alone => \A r \in Requests : FeeRight(r)

\* The units p that were paid back, and those v that a request will have paid
\* back once it commits: what it has read and what it writes is no more.
Takes(r, p, v) ==
    LET item == req[r].item
        fee == FeeOf(req[r].item[2])
    IN  /\ \A i \in Items : i \notin DOMAIN req[r].items => v[i] = 0
        /\ \A i \in DOMAIN req[r].items :
              req[r].items[i] <= p[i] + v[i] /\ (Alone => req[r].items[i] = p[i] + v[i])
        /\ Open(r) => req[r].due = Worth(req[r].order, v)
        /\ req[r].stage \in {"checked", "freed"} =>
              req[r].saw <= p[item] + v[item] /\ (Alone => req[r].saw = p[item] + v[item])
        /\ req[r].stage = "freed" /\ req[r].withFee =>
              req[r].sawFee <= p[fee] + v[fee] /\ (Alone => req[r].sawFee = p[fee] + v[fee])
        /\ req[r].stage = "paid" => req[r].given = req[r].due

PaidFor(p) ==
    /\ \A o \in Orders : back[o] = Worth(o, p)
    /\ \A i \in Items : refunded[i] <= p[i] /\ (Alone => refunded[i] = p[i])

Books(p, u) == PaidFor(p) /\ \A r \in Requests : Takes(r, p, u[r])
BooksInv == \E p \in [Items -> Nat], u \in [Requests -> [Items -> Nat]] : Books(p, u)

\* What the provider has paid of a request that has not committed.
GivenTo(o, r) == IF req[r].stage = "paid" /\ req[r].order = o THEN req[r].given ELSE 0
AllGiven(o) == SumFunctionOnSet([r \in Requests |-> GivenTo(o, r)], Requests)
Told == Alone /\ past \cap {"answer", "crash"} = {}
OutInv ==
    \A o \in Orders :
        out[o] >= back[o] + AllGiven(o) /\ (Told => out[o] = back[o] + AllGiven(o))

-----------------------------------------------------------------------------
(* What units are worth.                                                   *)

LEMMA WorthTerm ==
    ASSUME NEW p \in [Items -> Nat], NEW i \in Items
    PROVE  p[i] * Price[i[1]] \in Nat
<1>1. p[i] \in Nat /\ Price[i[1]] \in Nat
  BY ItemFacts
<1>2. QED
  BY <1>1

LEMMA WorthSame ==
    ASSUME NEW o, NEW p \in [Items -> Nat], NEW q \in [Items -> Nat],
           \A i \in ItemsOf(o) : p[i] = q[i]
    PROVE  Worth(o, p) = Worth(o, q)
<1> DEFINE f == [i \in Items |-> p[i] * Price[i[1]]]
           g == [i \in Items |-> q[i] * Price[i[1]]]
<1>1. \A i \in ItemsOf(o) : f[i] = g[i]
  BY DEF ItemsOf
<1> HIDE DEF f, g
<1>2. SumFunctionOnSet(f, ItemsOf(o)) = SumFunctionOnSet(g, ItemsOf(o))
  BY <1>1, FiniteItems, SumSame
<1>3. QED
  BY <1>2 DEF Worth, f, g

LEMMA WorthMonotone ==
    ASSUME NEW o, NEW p \in [Items -> Nat], NEW q \in [Items -> Nat],
           \A i \in ItemsOf(o) : p[i] <= q[i]
    PROVE  Worth(o, p) <= Worth(o, q)
<1> DEFINE f == [i \in Items |-> p[i] * Price[i[1]]]
           g == [i \in Items |-> q[i] * Price[i[1]]]
<1>1. ASSUME NEW i \in ItemsOf(o)
      PROVE  f[i] \in Int /\ g[i] \in Int /\ f[i] <= g[i]
  <2>1. i \in Items /\ p[i] <= q[i]
    BY DEF ItemsOf
  <2>2. p[i] \in Nat /\ q[i] \in Nat /\ Price[i[1]] \in Nat
    BY <2>1, ItemFacts
  <2> DEFINE a == p[i]
             b == q[i]
             c == Price[i[1]]
  <2>3. f[i] = a * c /\ g[i] = b * c
    BY <2>1
  <2> HIDE DEF f, g, a, b, c
  <2>4. a \in Nat /\ b \in Nat /\ c \in Nat /\ a <= b
    BY <2>1, <2>2 DEF a, b, c
  <2>5. a * c <= b * c
    BY <2>4
  <2>6. QED
    BY <2>3, <2>4, <2>5
<1> HIDE DEF f, g
<1>2. SumFunctionOnSet(f, ItemsOf(o)) <= SumFunctionOnSet(g, ItemsOf(o))
  BY <1>1, FiniteItems, SumMonotone
<1>3. QED
  BY <1>2 DEF Worth, f, g

LEMMA WorthAdds ==
    ASSUME NEW o, NEW p \in [Items -> Nat], NEW q \in [Items -> Nat], NEW s \in [Items -> Nat],
           \A i \in Items : s[i] = p[i] + q[i]
    PROVE  Worth(o, s) = Worth(o, p) + Worth(o, q)
<1> DEFINE f == [i \in Items |-> p[i] * Price[i[1]]]
           g == [i \in Items |-> q[i] * Price[i[1]]]
           h == [i \in Items |-> s[i] * Price[i[1]]]
<1>1. ASSUME NEW i \in ItemsOf(o)
      PROVE  f[i] \in Int /\ g[i] \in Int /\ h[i] = f[i] + g[i]
  <2>1. i \in Items /\ s[i] = p[i] + q[i]
    BY DEF ItemsOf
  <2>2. p[i] \in Nat /\ q[i] \in Nat /\ Price[i[1]] \in Nat
    BY <2>1, ItemFacts
  <2> DEFINE a == p[i]
             b == q[i]
             c == Price[i[1]]
  <2>3. f[i] = a * c /\ g[i] = b * c /\ h[i] = (a + b) * c
    BY <2>1
  <2> HIDE DEF f, g, h, a, b, c
  <2>4. a \in Nat /\ b \in Nat /\ c \in Nat
    BY <2>2 DEF a, b, c
  <2>5. (a + b) * c = a * c + b * c
    BY <2>4
  <2>6. QED
    BY <2>3, <2>4, <2>5
<1> HIDE DEF f, g, h
<1>2. SumFunctionOnSet(h, ItemsOf(o))
        = SumFunctionOnSet(f, ItemsOf(o)) + SumFunctionOnSet(g, ItemsOf(o))
  BY <1>1, FiniteItems, SumOfBoth
<1>3. QED
  BY <1>2 DEF Worth, f, g, h

\* One unit more of an item.
LEMMA WorthBump ==
    ASSUME NEW o, NEW p \in [Items -> Nat], NEW q \in [Items -> Nat], NEW j \in ItemsOf(o),
           q[j] = p[j] + 1, \A i \in Items \ {j} : q[i] = p[i]
    PROVE  Worth(o, q) = Worth(o, p) + Price[j[1]]
<1> DEFINE f == [i \in Items |-> p[i] * Price[i[1]]]
           g == [i \in Items |-> q[i] * Price[i[1]]]
<1>1. j \in Items
  BY DEF ItemsOf
<1>2. \A i \in ItemsOf(o) : f[i] \in Int /\ g[i] \in Int
  BY WorthTerm DEF ItemsOf
<1>3. \A i \in ItemsOf(o) \ {j} : f[i] = g[i]
  BY DEF ItemsOf
<1>4. g[j] - f[j] = Price[j[1]] /\ f[j] \in Int /\ Price[j[1]] \in Nat
  <2> DEFINE a == p[j]
             c == Price[j[1]]
  <2>1. a \in Nat /\ c \in Nat /\ f[j] = a * c /\ g[j] = (a + 1) * c
    BY <1>1, ItemFacts
  <2> HIDE DEF f, g, a
  <2>2. (a + 1) * c = a * c + c
    BY <2>1, SMTT(20)
  <2>3. QED
    BY <2>1, <2>2
<1> HIDE DEF f, g
<1>5. SumFunctionOnSet(g, ItemsOf(o)) = SumFunctionOnSet(f, ItemsOf(o)) + (g[j] - f[j])
  BY <1>2, <1>3, FiniteItems, SumChanged
<1>6. QED
  BY <1>4, <1>5 DEF Worth, f, g

LEMMA WorthOfNone ==
    ASSUME NEW o, NEW p \in [Items -> Nat], \A i \in ItemsOf(o) : p[i] = 0
    PROVE  Worth(o, p) = 0
<1> DEFINE two == [i \in Items |-> p[i] + p[i]]
<1>1. two \in [Items -> Nat] /\ (\A i \in Items : two[i] = p[i] + p[i])
      /\ \A i \in ItemsOf(o) : two[i] = p[i]
  BY DEF ItemsOf
<1> HIDE DEF two
<1> DEFINE w == Worth(o, p)
<1>2. Worth(o, two) = w + w /\ Worth(o, two) = w
  BY <1>1, WorthAdds, WorthSame
<1>3. w \in Nat
  BY WorthIs
<1> HIDE DEF w
<1>4. w = 0
  BY <1>2, <1>3
<1>5. QED
  BY <1>4 DEF w

-----------------------------------------------------------------------------
(* What a step leaves as it is.                                            *)

\* What a request sees of an item was paid back, or will have been with it.
LEMMA SeenBound ==
    ASSUME TypeInv, NEW r \in Requests, NEW p \in [Items -> Nat], NEW v \in [Items -> Nat],
           PaidFor(p), Takes(r, p, v), NEW i \in Items
    PROVE  SeenItems(r)[i] <= p[i] + v[i] /\ (Alone => SeenItems(r)[i] = p[i] + v[i])
<1>1. CASE i \in DOMAIN req[r].items
  <2>1. SeenItems(r)[i] = req[r].items[i]
    BY <1>1, SeenIs
  <2>2. QED
    BY <1>1, <2>1 DEF Takes
<1>2. CASE i \notin DOMAIN req[r].items
  <2>1. SeenItems(r)[i] = refunded[i] /\ refunded[i] \in Nat
    <3>1. refunded[i] \in 0..QuantityOf(i) /\ QuantityOf(i) \in Nat
      BY ItemFacts DEF TypeInv, TypeOK
    <3>2. refunded[i] \in Nat
      BY <3>1
    <3>3. QED
      BY <1>2, <3>2, SeenIs, ZenonT(40)
  <2>2. v[i] = 0 /\ refunded[i] <= p[i] /\ (Alone => refunded[i] = p[i])
    BY <1>2 DEF Takes, PaidFor
  <2> DEFINE a == p[i]
             b == v[i]
             c == SeenItems(r)[i]
  <2>3. a \in Nat /\ b = 0 /\ c \in Nat /\ c <= a /\ (Alone => c = a)
    BY <2>1, <2>2
  <2> HIDE DEF a, b, c
  <2>4. c <= a + b /\ (Alone => c = a + b)
    BY <2>3
  <2>5. QED
    BY <2>4 DEF a, b, c
<1>3. QED
  BY <1>1, <1>2

\* A request that makes no step takes what it took.
LEMMA TakesStays ==
    ASSUME NEW q \in Requests, NEW p \in [Items -> Nat], NEW v \in [Items -> Nat],
           Takes(q, p, v), req'[q] = req[q], Alone' => Alone
    PROVE  Takes(q, p, v)'
BY DEF Takes, Open

\* Books are as they were if nothing is committed and the one request that
\* makes a step takes what its new state says.
LEMMA BooksStay ==
    ASSUME NEW r \in Requests, NEW p \in [Items -> Nat], NEW u \in [Requests -> [Items -> Nat]],
           Books(p, u), \A q \in Others(r) : req'[q] = req[q],
           refunded' = refunded, back' = back, Alone' => Alone,
           NEW v \in [Items -> Nat], Takes(r, p, v)'
    PROVE  BooksInv'
<1> DEFINE w == [u EXCEPT ![r] = v]
<1>1. w \in [Requests -> [Items -> Nat]] /\ w[r] = v /\ \A q \in Others(r) : w[q] = u[q]
  BY DEF Others
<1> HIDE DEF w
<1>2. \A q \in Others(r) : Takes(q, p, w[q])'
  BY <1>1, TakesStays DEF Books, Others
<1>3. \A q \in Requests : Takes(q, p, w[q])'
  BY <1>1, <1>2 DEF Others
<1>4. PaidFor(p)'
  BY DEF Books, PaidFor
<1>5. Books(p, w)'
  BY <1>3, <1>4 DEF Books
<1>6. QED
  BY <1>1, <1>5 DEF BooksInv

\* A step of an open request that reads, and writes no item.
Reads(r) ==
    /\ UNCHANGED <<refunded, back, out, past>>
    /\ req' \in [Requests -> Reqs] /\ \A q \in Others(r) : req'[q] = req[q]
    /\ Open(r) /\ Open(r)' /\ req[r].stage # "paid" /\ req'[r].stage # "paid"
    /\ req'[r].order = req[r].order /\ req'[r].items = req[r].items
    /\ req'[r].due = req[r].due
    /\ req'[r].stage \in {"checked", "freed"} =>
          \/ req'[r].saw = SeenItems(r)[req'[r].item]
          \/ req[r].stage = "checked" /\ req'[r].item = req[r].item /\ req'[r].saw = req[r].saw
    /\ req'[r].stage = "freed" /\ req'[r].withFee =>
          req'[r].sawFee = SeenItems(r)[FeeOf(req'[r].item[2])]

LEMMA ReadsIs ==
    ASSUME TypeInv, NEW r \in Requests,
           \/ \E i \in Items, t \in Tickets : \E c \in Candidates(r, t) : Checks(r, i, t, c)
           \/ Frees(r)
           \/ \E e : TakesFee(r, e)
           \/ GoesOn(r)
           \/ MoveTokens(r)
    PROVE  Reads(r)
<1>1. ASSUME NEW i \in Items, NEW t \in Tickets, NEW c \in Candidates(r, t), Checks(r, i, t, c)
      PROVE  Reads(r)
  <2>1. AfterChecks(r, i, t, c) /\ Untouched
    BY <1>1, ChecksIs DEF Checks
  <2>2. QED
    BY <2>1 DEF AfterChecks, Reads, Untouched, Open, Ended
<1>2. CASE Frees(r)
  <2> DEFINE e == Freeing(r)
  <2>1. req[r].stage = "checked" /\ req' = [req EXCEPT ![r] = e] /\ Untouched
    BY <1>2 DEF Frees
  <2>2. /\ e \in Reqs
        /\ e.stage = "freed" /\ e.order = req[r].order
        /\ e.item = req[r].item /\ e.saw = req[r].saw
        /\ e.withFee => e.sawFee = SeenItems(r)[FeeOf(req[r].item[2])]
        /\ e.items = req[r].items /\ e.due = req[r].due
    BY <2>1, FreeingIs
  <2> HIDE DEF e
  <2>3. req' \in [Requests -> Reqs] /\ req'[r] = e /\ \A q \in Others(r) : req'[q] = req[q]
    BY <2>1, <2>2, Replaced DEF TypeInv
  <2>4. QED
    BY <2>1, <2>2, <2>3 DEF Reads, Untouched, Open, Ended
<1>3. ASSUME NEW e, TakesFee(r, e)
      PROVE  Reads(r)
  <2>1. e \in Reqs /\ req' = [req EXCEPT ![r] = e]
    BY <1>3 DEF TakesFee
  <2>2. req' \in [Requests -> Reqs] /\ req'[r] = e /\ \A q \in Others(r) : req'[q] = req[q]
    BY <2>1, Replaced DEF TypeInv
  <2>3. QED
    BY <1>3, <2>2 DEF TakesFee, Reads, Untouched, Open, Ended
<1>4. CASE GoesOn(r)
  BY <1>4, GoesOnIs DEF GoesOn, Reads, Untouched, Open, Ended
<1>5. CASE MoveTokens(r)
  <2>1. AfterMove(r) /\ req[r].stage = "paying"
    BY <1>5, MovingIs DEF MoveTokens
  <2>2. QED
    BY <1>5, <2>1 DEF MoveTokens, AfterMove, Reads, Open, Ended
<1>6. QED
  BY <1>1, <1>2, <1>3, <1>4, <1>5

\* The item read and its fee are items.
LEMMA ItemsRead ==
    ASSUME NEW r \in Requests, Sound(r)', req'[r].stage \in {"checked", "freed"}
    PROVE  /\ req'[r].item \in Items
           /\ req'[r].withFee => FeeOf(req'[r].item[2]) \in Items
BY FeeFacts DEF Sound

LEMMA ReadsBooks ==
    ASSUME TypeInv, TypeInv', BooksInv, NEW r \in Requests, Reads(r)
    PROVE  BooksInv'
<1>1. PICK p \in [Items -> Nat], u \in [Requests -> [Items -> Nat]] : Books(p, u)
  BY DEF BooksInv
<1> DEFINE v == u[r]
<1>2. v \in [Items -> Nat] /\ PaidFor(p) /\ Takes(r, p, v)
  BY <1>1 DEF Books
<1> HIDE DEF v
<1>3. \A i \in Items : SeenItems(r)[i] <= p[i] + v[i] /\ (Alone => SeenItems(r)[i] = p[i] + v[i])
  BY <1>2, SeenBound
<1>4. Alone' = Alone /\ Sound(r)'
  BY DEF Reads, Alone, TypeInv
<1>5. /\ \A i \in Items : i \notin DOMAIN req'[r].items => v[i] = 0
      /\ \A i \in DOMAIN req'[r].items :
            req'[r].items[i] <= p[i] + v[i] /\ (Alone => req'[r].items[i] = p[i] + v[i])
      /\ req'[r].due = Worth(req'[r].order, v)
  BY <1>2 DEF Takes, Reads
<1>6. ASSUME req'[r].stage \in {"checked", "freed"}
      PROVE  LET item == req'[r].item
             IN  req'[r].saw <= p[item] + v[item] /\ (Alone => req'[r].saw = p[item] + v[item])
  <2>1. CASE req'[r].saw = SeenItems(r)[req'[r].item]
    BY <1>3, <1>4, <1>6, <2>1, ItemsRead
  <2>2. CASE req[r].stage = "checked" /\ req'[r].item = req[r].item /\ req'[r].saw = req[r].saw
    BY <1>2, <2>2 DEF Takes
  <2>3. QED
    BY <1>6, <2>1, <2>2 DEF Reads
<1>7. ASSUME req'[r].stage = "freed", req'[r].withFee
      PROVE  LET fee == FeeOf(req'[r].item[2])
             IN  /\ req'[r].sawFee <= p[fee] + v[fee]
                 /\ Alone => req'[r].sawFee = p[fee] + v[fee]
  <2>1. FeeOf(req'[r].item[2]) \in Items
    BY <1>4, <1>7, ItemsRead
  <2>2. req'[r].sawFee = SeenItems(r)[FeeOf(req'[r].item[2])]
    BY <1>7 DEF Reads
  <2>3. QED
    BY <1>3, <2>1, <2>2
<1>8. Takes(r, p, v)'
  BY <1>4, <1>5, <1>6, <1>7 DEF Takes, Reads
<1>9. QED
  BY <1>1, <1>2, <1>4, <1>8, BooksStay DEF Reads


\* A unit is taken of the item, and of its fee.
LEMMA TakeBooks ==
    ASSUME TypeInv, TypeInv', BooksInv, NEW r \in Requests, TakeUnit(r)
    PROVE  BooksInv'
<1>1. PICK p \in [Items -> Nat], u \in [Requests -> [Items -> Nat]] : Books(p, u)
  BY DEF BooksInv
<1> DEFINE v == u[r]
           W == Written(r)
           o == req[r].order
           item == req[r].item
           fee == FeeOf(item[2])
<1>2. v \in [Items -> Nat] /\ PaidFor(p) /\ Takes(r, p, v)
  BY <1>1 DEF Books
<1>3. Untouched /\ req[r].stage = "freed" /\ req[r] \in Reqs
  BY DEF TakeUnit, TypeInv
<1>4. /\ \A q \in Others(r) : req'[q] = req[q]
      /\ req'[r].stage \in {"open", "paying"} /\ req'[r].order = o
      /\ req'[r].due = req[r].due + Due(r)
      /\ DOMAIN req'[r].items = W \cup DOMAIN req[r].items
      /\ \A i \in W : req'[r].items[i] = IF i = item THEN req[r].saw + 1 ELSE req[r].sawFee + 1
      /\ \A i \in DOMAIN req[r].items \ W : req'[r].items[i] = req[r].items[i]
  BY TakingIs
<1>5. /\ item \in W /\ W \subseteq Items
      /\ \A i \in W : OrderOfItem(i) = o /\ (i # item => req[r].withFee /\ i = fee)
      /\ req[r].withFee => W = {item, fee} /\ fee # item /\ fee[1] = "PerUnitFees"
      /\ ~req[r].withFee => W = {item}
  BY <1>3, WrittenIs
<1>6. PICK w \in [Items -> Nat] : \A i \in Items : w[i] = IF i \in W THEN v[i] + 1 ELSE v[i]
  <2> DEFINE f == [i \in Items |-> IF i \in W THEN v[i] + 1 ELSE v[i]]
  <2>1. f \in [Items -> Nat] /\ \A i \in Items : f[i] = IF i \in W THEN v[i] + 1 ELSE v[i]
    BY <1>2
  <2> HIDE DEF f
  <2>2. QED
    BY <2>1
<1>7. w \in [Items -> Nat] /\ \A i \in Items \ W : w[i] = v[i]
  BY <1>6
<1>8. \A i \in W : w[i] = v[i] + 1
  BY <1>5, <1>6
<1>9. req[r].due = Worth(o, v)
  BY <1>2, <1>3 DEF Takes, Open, Ended
<1> HIDE DEF v, W, o, fee
<1>10. Worth(o, w) = Worth(o, v) + Due(r)
  <2>1. item \in ItemsOf(o) /\ Price[item[1]] \in Nat
    BY <1>5, ItemFacts DEF ItemsOf
  <2>2. CASE ~req[r].withFee
    <3>1. w[item] = v[item] + 1 /\ \A i \in Items \ {item} : w[i] = v[i]
      BY <1>5, <1>7, <1>8, <2>2
    <3>2. Worth(o, w) = Worth(o, v) + Price[item[1]]
      BY <1>2, <1>7, <2>1, <3>1, WorthBump
    <3>3. Due(r) = Price[item[1]] + 0
      BY <2>2 DEF Due
    <3>4. QED
      BY <2>1, <3>2, <3>3
  <2>3. CASE req[r].withFee
    <3> DEFINE x == [v EXCEPT ![item] = v[item] + 1]
    <3>1. item \in Items /\ fee \in W /\ fee \in Items /\ fee # item /\ fee[1] = "PerUnitFees"
      BY <1>5, <2>3
    <3>2. fee \in ItemsOf(o) /\ Price["PerUnitFees"] \in Nat
      BY <1>5, <3>1, ItemFacts DEF ItemsOf
    <3>3. /\ x \in [Items -> Nat]
          /\ x[item] = v[item] + 1 /\ \A i \in Items \ {item} : x[i] = v[i]
      BY <1>2, <3>1
    <3> HIDE DEF x
    <3>4. w[fee] = x[fee] + 1 /\ \A i \in Items \ {fee} : w[i] = x[i]
      BY <1>5, <1>7, <1>8, <2>3, <3>1, <3>3
    <3>5. Worth(o, x) = Worth(o, v) + Price[item[1]]
      BY <1>2, <2>1, <3>3, WorthBump, SMTT(20)
    <3>6. Worth(o, w) = Worth(o, x) + Price["PerUnitFees"]
      <4>1. Worth(o, w) = Worth(o, x) + Price[fee[1]]
        BY <1>7, <3>2, <3>3, <3>4, WorthBump
      <4>2. QED
        BY <3>1, <4>1
    <3>7. Due(r) = Price[item[1]] + Price["PerUnitFees"]
      BY <2>3 DEF Due
    <3>8. Worth(o, v) \in Nat
      BY <1>2, WorthIs
    <3> DEFINE a == Price[item[1]]
               b == Price["PerUnitFees"]
               c == Worth(o, v)
               d == Worth(o, w)
               e == Worth(o, x)
    <3>9. a \in Nat /\ b \in Nat /\ c \in Nat /\ e = c + a /\ d = e + b /\ Due(r) = a + b
      BY <2>1, <3>2, <3>5, <3>6, <3>7, <3>8
    <3> HIDE DEF a, b, c, d, e
    <3>10. d = c + Due(r)
      BY <3>9
    <3>11. QED
      BY <3>10 DEF c, d
  <2>4. QED
    BY <2>2, <2>3
<1>11. ASSUME NEW i \in W
       PROVE  /\ req'[r].items[i] <= p[i] + w[i]
              /\ Alone => req'[r].items[i] = p[i] + w[i]
  <2>1. p[i] \in Nat /\ v[i] \in Nat /\ w[i] = v[i] + 1
    BY <1>2, <1>5, <1>8
  <2>2. \E s \in Nat : /\ req'[r].items[i] = s + 1
                       /\ s <= p[i] + v[i] /\ (Alone => s = p[i] + v[i])
    <3>1. CASE i = item
      <4>1. req[r].saw \in Nat /\ req'[r].items[i] = req[r].saw + 1
        BY <1>3, <1>4, <3>1 DEF Reqs
      <4>2. req[r].saw <= p[i] + v[i] /\ (Alone => req[r].saw = p[i] + v[i])
        BY <1>2, <1>3, <3>1 DEF Takes
      <4>3. QED
        BY <4>1, <4>2
    <3>2. CASE i # item
      <4>1. i = fee /\ req[r].withFee
        BY <1>5, <3>2
      <4>2. req[r].sawFee \in Nat /\ req'[r].items[i] = req[r].sawFee + 1
        BY <1>3, <1>4, <3>2 DEF Reqs
      <4>3. req[r].sawFee <= p[i] + v[i] /\ (Alone => req[r].sawFee = p[i] + v[i])
        BY <1>2, <1>3, <4>1 DEF Takes, fee
      <4>4. QED
        BY <4>2, <4>3
    <3>3. QED
      BY <3>1, <3>2
  <2>3. PICK s \in Nat : /\ req'[r].items[i] = s + 1
                         /\ s <= p[i] + v[i] /\ (Alone => s = p[i] + v[i])
    BY <2>2
  <2> DEFINE a == p[i]
             b == v[i]
             c == w[i]
             d == req'[r].items[i]
  <2>4. a \in Nat /\ b \in Nat /\ c = b + 1 /\ d = s + 1 /\ s <= a + b /\ (Alone => s = a + b)
    BY <2>1, <2>3
  <2> HIDE DEF a, b, c, d
  <2>5. d <= a + c /\ (Alone => d = a + c)
    BY <2>4
  <2>6. QED
    BY <2>5 DEF a, c, d
<1>12. ASSUME NEW i \in DOMAIN req'[r].items
       PROVE  /\ req'[r].items[i] <= p[i] + w[i]
              /\ Alone => req'[r].items[i] = p[i] + w[i]
  <2>1. CASE i \in W
    BY <1>11, <2>1
  <2>2. CASE i \notin W
    <3>1. i \in DOMAIN req[r].items /\ req'[r].items[i] = req[r].items[i]
      BY <1>4, <1>12, <2>2
    <3>2. i \in Items
      BY <3>1, SeenIs
    <3>3. w[i] = v[i]
      BY <1>7, <2>2, <3>2
    <3>4. QED
      BY <1>2, <3>1, <3>3 DEF Takes
  <2>3. QED
    BY <2>1, <2>2
<1>13. \A i \in Items : i \notin DOMAIN req'[r].items => w[i] = 0
  <2>1. ASSUME NEW i \in Items, i \notin DOMAIN req'[r].items
        PROVE  w[i] = 0
    <3>1. i \notin W /\ i \notin DOMAIN req[r].items
      BY <1>4, <2>1
    <3>2. w[i] = v[i] /\ v[i] = 0
      BY <1>2, <1>7, <3>1 DEF Takes
    <3>3. QED
      BY <3>2
  <2>2. QED
    BY <2>1
<1>14. Alone' = Alone /\ refunded' = refunded /\ back' = back
  BY <1>3 DEF Untouched, Alone
<1>15. req'[r].due = Worth(req'[r].order, w)
  BY <1>4, <1>9, <1>10
<1>16. Takes(r, p, w)'
  BY <1>4, <1>7, <1>12, <1>13, <1>14, <1>15 DEF Takes
<1>17. QED
  BY <1>1, <1>4, <1>7, <1>14, <1>16, BooksStay


\* A request that is not open has taken nothing.
LEMMA TakesNothing ==
    ASSUME NEW r \in Requests, Sound(r), ~Open(r),
           NEW p \in [Items -> Nat], NEW v \in [Items -> Nat], \A i \in Items : v[i] = 0
    PROVE  Takes(r, p, v)
<1>1. DOMAIN req[r].items = {}
  BY NothingIs DEF Sound
<1>2. req[r].stage \notin {"checked", "freed", "paid"}
  BY DEF Open, Ended
<1>3. QED
  BY <1>1, <1>2 DEF Takes

LEMMA ZeroIs == \E v \in [Items -> Nat] : \A i \in Items : v[i] = 0
<1>1. [i \in Items |-> 0] \in [Items -> Nat]
  OBVIOUS
<1>2. QED
  BY <1>1

LEMMA DroppedBooks ==
    ASSUME TypeInv, TypeInv', BooksInv, NEW r \in Requests, Dropped(r)
    PROVE  BooksInv'
<1>1. PICK p \in [Items -> Nat], u \in [Requests -> [Items -> Nat]] : Books(p, u)
  BY DEF BooksInv
<1>2. PICK v \in [Items -> Nat] : \A i \in Items : v[i] = 0
  BY ZeroIs
<1>3. AfterDropped(r)
  BY DroppedIs
<1>4. past \subseteq past'
  BY DEF Dropped, Untouched, Crash, GivesUp, PayTooLittle, ProviderRefuses, AnswerLost,
         GiveTokensBack
<1>5. Alone' => Alone
  BY <1>4 DEF Alone
<1>6. DOMAIN req'[r].items = {} /\ ~Open(r)' /\ req'[r].stage \notin {"checked", "freed", "paid"}
  BY <1>3, NothingIs DEF AfterDropped, Open, Ended
<1>7. Takes(r, p, v)'
  BY <1>2, <1>6 DEF Takes
<1>8. QED
  BY <1>1, <1>2, <1>3, <1>5, <1>7, BooksStay DEF AfterDropped

LEMMA BeginBooks ==
    ASSUME TypeInv, TypeInv', BooksInv, NEW r \in Requests, NEW o \in Orders, Begin(r, o)
    PROVE  BooksInv'
<1>1. PICK p \in [Items -> Nat], u \in [Requests -> [Items -> Nat]] : Books(p, u)
  BY DEF BooksInv
<1>2. PICK v \in [Items -> Nat] : \A i \in Items : v[i] = 0
  BY ZeroIs
<1>3. Alone' => Alone
  BY BeginIs DEF Alone
<1>4. DOMAIN req'[r].items = {} /\ req'[r].stage = "open" /\ req'[r].due = 0
  BY BeginIs, NothingIs
<1>5. \A n : Worth(n, v) = 0
  BY <1>2, WorthOfNone DEF ItemsOf
<1>6. Takes(r, p, v)'
  BY <1>2, <1>4, <1>5 DEF Takes
<1>7. QED
  BY <1>1, <1>3, <1>6, BeginIs, BooksStay

LEMMA PayBooks ==
    ASSUME TypeInv, TypeInv', BooksInv, NEW r \in Requests, PayBack(r)
    PROVE  BooksInv'
<1>1. PICK p \in [Items -> Nat], u \in [Requests -> [Items -> Nat]] : Books(p, u)
  BY DEF BooksInv
<1> DEFINE v == u[r]
<1>2. v \in [Items -> Nat] /\ Takes(r, p, v)
  BY <1>1 DEF Books
<1>3. UNCHANGED <<refunded, back, past>> /\ Open(r)
  BY DEF PayBack, Open, Ended
<1>4. /\ \A q \in Others(r) : req'[q] = req[q]
      /\ req'[r].stage = "paid" /\ req'[r].order = req[r].order
      /\ req'[r].items = req[r].items /\ req'[r].due = req[r].due
      /\ req'[r].given = req'[r].due
  BY PayingIs
<1> HIDE DEF v
<1>5. Takes(r, p, v)'
  BY <1>2, <1>3, <1>4 DEF Takes, Alone
<1>6. QED
  BY <1>1, <1>2, <1>3, <1>4, <1>5, BooksStay DEF Alone

\* Nobody else is at work when requests have not met.
LEMMA NobodyElse ==
    ASSUME TypeInv, OneAtATime, Alone, NEW r \in Requests, Open(r), NEW q \in Others(r)
    PROVE  ~Open(q) /\ DOMAIN req[q].items = {}
<1>1. ~Open(q) /\ Sound(q)
  BY DEF OneAtATime, Others, TypeInv
<1>2. QED
  BY <1>1, NothingIs DEF Sound

LEMMA CommitBooks ==
    ASSUME TypeInv, TypeInv', OneAtATime, BooksInv, NEW r \in Requests, Commit(r)
    PROVE  BooksInv'
<1>1. PICK p \in [Items -> Nat], u \in [Requests -> [Items -> Nat]] : Books(p, u)
  BY DEF BooksInv
<1>2. PICK z \in [Items -> Nat] : \A i \in Items : z[i] = 0
  BY ZeroIs
<1> DEFINE v == u[r]
           o == req[r].order
<1>3. v \in [Items -> Nat] /\ PaidFor(p) /\ Takes(r, p, v)
  BY <1>1 DEF Books
<1> HIDE DEF v
<1>4. PICK s \in [Items -> Nat] : \A i \in Items : s[i] = p[i] + v[i]
  <2>1. \A i \in Items : p[i] + v[i] \in Nat
    BY <1>3
  <2> DEFINE f == [i \in Items |-> p[i] + v[i]]
  <2>2. f \in [Items -> Nat] /\ \A i \in Items : f[i] = p[i] + v[i]
    BY <2>1
  <2> HIDE DEF f
  <2>3. QED
    BY <2>2
<1>5. PICK w \in [Requests -> [Items -> Nat]] : w[r] = z /\ \A q \in Others(r) : w[q] = u[q]
  <2> DEFINE f == [u EXCEPT ![r] = z]
  <2>1. f \in [Requests -> [Items -> Nat]] /\ f[r] = z /\ \A q \in Others(r) : f[q] = u[q]
    BY DEF Others
  <2> HIDE DEF f
  <2>2. QED
    BY <2>1
<1>6. AfterCommit(r) /\ Open(r) /\ o \in Orders /\ Alone' = Alone
  BY CommitIs, OpenIs DEF Commit, AfterCommit, Open, Ended, Alone
<1>7. back' = [back EXCEPT ![o] = back[o] + req[r].given] /\ req[r].given = Worth(o, v)
  BY <1>3, <1>6 DEF Commit, Takes
<1>8. ASSUME NEW n \in Orders
      PROVE  back'[n] = Worth(n, s)
  <2>1. Worth(n, s) = Worth(n, p) + Worth(n, v) /\ back[n] = Worth(n, p)
    BY <1>3, <1>4, WorthAdds DEF PaidFor
  <2>2. back \in [Orders -> Nat]
    BY DEF TypeInv, TypeOK
  <2>3. CASE n = o
    BY <1>6, <1>7, <2>1, <2>2, <2>3
  <2>4. CASE n # o
    <3>1. ASSUME NEW i \in ItemsOf(n)
          PROVE  v[i] = 0
      <4>1. i \in Items /\ OrderOfItem(i) = n
        BY DEF ItemsOf
      <4>2. i \notin DOMAIN req[r].items
        BY <2>4, <4>1 DEF TypeInv, Sound
      <4>3. QED
        BY <1>3, <4>1, <4>2 DEF Takes
    <3>2. Worth(n, v) = 0
      BY <1>3, <3>1, WorthOfNone
    <3>3. back'[n] = back[n]
      BY <1>6, <1>7, <2>2, <2>4
    <3>4. Worth(n, p) \in Nat
      BY WorthIs
    <3> DEFINE a == Worth(n, p)
               b == Worth(n, s)
    <3>5. a \in Nat /\ b = a + 0 /\ back'[n] = a
      BY <2>1, <3>2, <3>3, <3>4
    <3> HIDE DEF a, b
    <3>6. back'[n] = b
      BY <3>5
    <3>7. QED
      BY <3>6 DEF b
  <2>5. QED
    BY <2>3, <2>4
<1>9. PaidFor(s)'
  <2>1. \A i \in Items : refunded'[i] <= s[i] /\ (Alone => refunded'[i] = s[i])
    <3>1. \A i \in Items : SeenItems(r)[i] <= p[i] + v[i]
                           /\ (Alone => SeenItems(r)[i] = p[i] + v[i])
      BY <1>3, SeenBound
    <3>2. refunded' = SeenItems(r)
      BY <1>6 DEF AfterCommit
    <3>3. QED
      BY <1>4, <3>1, <3>2
  <2>2. QED
    BY <1>6, <1>8, <2>1 DEF PaidFor
<1>10. Takes(r, s, z)'
  <2>1. DOMAIN req'[r].items = {} /\ ~Open(r)' /\ req'[r].stage = "done"
    BY <1>6, NothingIs DEF AfterCommit, Open, Ended
  <2>2. QED
    BY <1>2, <2>1 DEF Takes
<1>11. ASSUME NEW q \in Others(r)
       PROVE  Takes(q, s, u[q])'
  <2> DEFINE x == u[q]
             item == req[q].item
             fee == FeeOf(req[q].item[2])
  <2>1. q \in Requests /\ x \in [Items -> Nat] /\ Takes(q, p, x) /\ req'[q] = req[q]
        /\ Sound(q) /\ req[q] \in Reqs
    BY <1>1, <1>6 DEF Books, AfterCommit, Others, TypeInv
  <2>2. Alone => ~Open(q) /\ DOMAIN req[q].items = {}
    BY <1>6, NobodyElse
  <2>3. \A i \in Items, n \in Nat : n <= p[i] + x[i] => n <= s[i] + x[i]
    <3> SUFFICES ASSUME NEW i \in Items, NEW n \in Nat, n <= p[i] + x[i]
                 PROVE  n <= s[i] + x[i]
      OBVIOUS
    <3> DEFINE a == p[i]
               b == v[i]
               c == x[i]
               d == s[i]
    <3>1. a \in Nat /\ b \in Nat /\ c \in Nat /\ d = a + b /\ n <= a + c
      BY <1>3, <1>4, <2>1
    <3> HIDE DEF a, b, c, d
    <3>2. n <= d + c
      BY <3>1
    <3>3. QED
      BY <3>2 DEF c, d
  <2> HIDE DEF x
  <2>4. \A i \in DOMAIN req[q].items :
           req[q].items[i] <= s[i] + x[i] /\ (Alone => req[q].items[i] = s[i] + x[i])
    <3> SUFFICES ASSUME NEW i \in DOMAIN req[q].items
                 PROVE  req[q].items[i] <= s[i] + x[i] /\ ~Alone
      OBVIOUS
    <3>1. i \in Items /\ req[q].items[i] \in Nat
      <4>1. i \in Items /\ req[q].items[i] \in 1..QuantityOf(i)
        BY <2>1, SeenIs DEF Sound
      <4>2. QED
        BY <4>1, ItemFacts
    <3>2. QED
      BY <2>1, <2>2, <2>3, <3>1 DEF Takes
  <2>5. ASSUME req[q].stage \in {"checked", "freed"}
        PROVE  req[q].saw <= s[item] + x[item] /\ ~Alone
    <3>1. item \in Items /\ req[q].saw \in Nat
      BY <2>1, <2>5 DEF Sound, Reqs
    <3>2. ~Alone
      BY <2>2, <2>5 DEF Open, Ended
    <3>3. QED
      BY <2>1, <2>3, <2>5, <3>1, <3>2 DEF Takes
  <2>6. ASSUME req[q].stage = "freed", req[q].withFee
        PROVE  req[q].sawFee <= s[fee] + x[fee] /\ ~Alone
    <3>1. fee \in Items /\ req[q].sawFee \in Nat
      BY <2>1, <2>6, FeeFacts DEF Sound, Reqs
    <3>2. ~Alone
      BY <2>2, <2>6 DEF Open, Ended
    <3>3. QED
      BY <2>1, <2>3, <2>6, <3>1, <3>2 DEF Takes
  <2>7. /\ \A i \in Items : i \notin DOMAIN req[q].items => x[i] = 0
        /\ Open(q) => req[q].due = Worth(req[q].order, x)
        /\ req[q].stage = "paid" => req[q].given = req[q].due
    BY <2>1 DEF Takes
  <2>8. Takes(q, s, x)'
    BY <1>6, <2>1, <2>4, <2>5, <2>6, <2>7 DEF Takes, Open
  <2>9. QED
    BY <2>8 DEF x
<1>12. \A q \in Requests : Takes(q, s, w[q])'
  BY <1>5, <1>10, <1>11 DEF Others
<1>13. Books(s, w)'
  BY <1>9, <1>12 DEF Books
<1>14. QED
  BY <1>13 DEF BooksInv


-----------------------------------------------------------------------------
(* One at a time, and the order's fee.                                     *)

\* A step of a request: nobody else moves, and who is open was open.
Goes(r) ==
    /\ \A q \in Others(r) : req'[q] = req[q]
    /\ Open(r)' => Open(r)
    /\ past \subseteq past'

LEMMA StepGoes ==
    ASSUME TypeInv, NEW r \in Requests, Step(r)
    PROVE  Goes(r)
<1>1. CASE Dropped(r)
  <2>1. AfterDropped(r)
    BY <1>1, DroppedIs
  <2>2. past \subseteq past'
    BY <1>1 DEF Dropped, Untouched, Crash, GivesUp, PayTooLittle, ProviderRefuses, AnswerLost,
         GiveTokensBack
  <2>3. QED
    BY <2>1, <2>2 DEF AfterDropped, Goes, Open
<1>2. CASE Reads(r)
  BY <1>2 DEF Reads, Goes
<1>3. CASE TakeUnit(r)
  BY <1>3, TakingIs DEF TakeUnit, Untouched, Goes, Open, Ended
<1>4. CASE PayBack(r)
  BY <1>4, PayingIs DEF PayBack, Goes, Open, Ended
<1>5. CASE Commit(r)
  <2>1. AfterCommit(r)
    BY <1>5, CommitIs
  <2>2. QED
    BY <2>1 DEF AfterCommit, Goes, Open, Ended
<1>6. QED
  BY <1>1, <1>2, <1>3, <1>4, <1>5, StepKinds, ReadsIs

LEMMA OneAtATimeKept ==
    ASSUME TypeInv, OneAtATime, Next
    PROVE  OneAtATime'
<1>1. ASSUME NEW r \in Requests, Goes(r)
      PROVE  OneAtATime'
  <2>1. Alone' => Alone
    BY <1>1 DEF Goes, Alone
  <2>2. \A q \in Requests : Open(q)' => Open(q)
    BY <1>1 DEF Goes, Others, Open
  <2>3. QED
    BY <2>1, <2>2 DEF OneAtATime
<1>2. ASSUME NEW r \in Requests, NEW o \in Orders, Begin(r, o)
      PROVE  OneAtATime'
  <2>1. Alone' => \A q \in Others(r) : ~Open(q)
    BY <1>2, BeginIs DEF Alone
  <2>2. \A q \in Others(r) : Open(q)' => Open(q)
    BY <1>2, BeginIs DEF Open
  <2>3. QED
    BY <2>1, <2>2 DEF OneAtATime, Others
<1>3. ASSUME req' = req, past' = past
      PROVE  OneAtATime'
  BY <1>3 DEF OneAtATime, Open, Alone
<1>4. QED
  BY <1>1, <1>2, <1>3, StepGoes DEF Next, Sell, Redeem

\* A request that makes no step sees what it saw, if none is committed.
LEMMA FeeStays ==
    ASSUME NEW q \in Requests, FeeRight(q), req'[q] = req[q], refunded' = refunded
    PROVE  FeeRight(q)'
BY DEF FeeRight, Emptied, SeenItems

LEMMA ClosedFeeNext ==
    ASSUME NEW q \in Requests, ~Open(q)', ~req'[q].last
    PROVE  FeeRight(q)'
BY DEF FeeRight, Open, Ended

LEMMA ReadsFee ==
    ASSUME TypeInv, NEW r \in Requests, FeeRight(r),
           \/ \E i \in Items, t \in Tickets : \E c \in Candidates(r, t) : Checks(r, i, t, c)
           \/ Frees(r)
           \/ \E e : TakesFee(r, e)
           \/ GoesOn(r)
           \/ MoveTokens(r)
    PROVE  FeeRight(r)'
<1> DEFINE o == req[r].order
<1>1. Reads(r)
  BY ReadsIs
<1>2. SeenItems(r)' = SeenItems(r) /\ req'[r].order = o /\ Emptied(r)' = Emptied(r)
  BY <1>1 DEF Reads, SeenItems, Emptied
<1>3. ASSUME NEW i \in Items, NEW t \in Tickets, NEW c \in Candidates(r, t), Checks(r, i, t, c)
      PROVE  FeeRight(r)'
  <2>1. AfterChecks(r, i, t, c)
    BY <1>3, ChecksIs
  <2>2. QED
    BY <2>1 DEF AfterChecks, FeeRight
<1>4. CASE Frees(r)
  <2>1. AfterFrees(r)
    BY <1>4, FreesIs
  <2>2. QED
    BY <2>1 DEF AfterFrees, FeeRight
<1>5. ASSUME NEW e, TakesFee(r, e)
      PROVE  FeeRight(r)'
  <2>1. e \in Reqs /\ req' = [req EXCEPT ![r] = e]
    BY <1>5 DEF TakesFee
  <2>2. req'[r] = e
    BY <2>1, Replaced DEF TypeInv
  <2>3. QED
    BY <1>2, <1>5, <2>2 DEF TakesFee, FeeRight
<1>6. CASE GoesOn(r)
  <2>1. req[r].stage = "open" /\ req'[r].stage = "paying" /\ ~FeeIsLeft(r) /\ o \in Orders
    BY <1>6, GoesOnIs, OpenIs DEF GoesOn, Open, Ended
  <2>2. Emptied(r) => SeenItems(r)[EventFee(o)] = QuantityOf(EventFee(o))
    BY <2>1 DEF FeeIsLeft, Emptied
  <2>3. QuantityOf(EventFee(o)) = 1
    BY <2>1, FeeFacts
  <2>4. ~req'[r].last
    BY <1>6, <2>1, GoesOnIs DEF FeeRight
  <2>5. QED
    BY <1>2, <2>1, <2>2, <2>3, <2>4 DEF FeeRight
<1>7. CASE MoveTokens(r)
  <2>1. AfterMove(r) /\ req[r].stage = "paying"
    BY <1>7, MovingIs DEF MoveTokens
  <2>2. QED
    BY <1>2, <2>1 DEF AfterMove, FeeRight
<1>8. QED
  BY <1>3, <1>4, <1>5, <1>6, <1>7

\* The last unit taken is the order's fee.
LEMMA TakeFee ==
    ASSUME TypeInv, TypeInv', NEW r \in Requests, FeeRight(r), TakeUnit(r)
    PROVE  FeeRight(r)'
<1>1. req[r].stage = "freed" /\ req[r] \in Reqs
  BY DEF TakeUnit, TypeInv
<1> DEFINE fee == EventFee(req[r].order)
<1>2. /\ req'[r].stage = (IF req[r].last THEN "paying" ELSE "open")
      /\ req'[r].order = req[r].order
      /\ req[r].last => req'[r].last
      /\ ~req[r].last => ~req'[r].last
  BY TakingIs
<1>3. ASSUME req[r].last
      PROVE  SeenItems(r)'[fee] = 1
  <2>1. req[r].item = fee /\ fee \in Written(r)
    BY <1>1, <1>3, WrittenIs DEF FeeRight
  <2>2. fee \in Items /\ QuantityOf(fee) = 1
    BY <1>1, FeeFacts, OpenIs DEF Open, Ended
  <2>3. req[r].saw + 1 \in 1..QuantityOf(fee) /\ req[r].saw \in Nat
    BY <1>1, <2>1, WrittenIs DEF Reqs
  <2>4. fee \in DOMAIN req'[r].items /\ req'[r].items[fee] = req[r].saw + 1
    BY <2>1, TakingIs
  <2>5. req'[r].items[fee] = 1
    BY <2>2, <2>3, <2>4
  <2>6. SeenItems(r)'[fee] = req'[r].items[fee]
    <3> HIDE DEF fee
    <3>1. QED
      BY <2>4 DEF SeenItems, Over
  <2>7. QED
    BY <2>5, <2>6
<1>4. CASE req[r].last
  BY <1>2, <1>3, <1>4 DEF FeeRight
<1>5. CASE ~req[r].last
  BY <1>2, <1>5 DEF FeeRight
<1>6. QED
  BY <1>4, <1>5

LEMMA StepFee ==
    ASSUME TypeInv, TypeInv', OneAtATime, FeeInv, NEW r \in Requests, Step(r)
    PROVE  FeeInv'
<1> SUFFICES ASSUME Alone'
             PROVE  \A q \in Requests : FeeRight(q)'
  BY DEF FeeInv
<1>1. Goes(r) /\ Alone
  BY StepGoes DEF Goes, Alone
<1>2. \A q \in Requests : FeeRight(q)
  BY <1>1 DEF FeeInv
<1>3. CASE Dropped(r)
  <2>1. AfterDropped(r)
    BY <1>3, DroppedIs
  <2>2. FeeRight(r)'
    BY <2>1, ClosedFeeNext DEF AfterDropped, Open
  <2>3. QED
    BY <1>2, <2>1, <2>2, FeeStays DEF AfterDropped, Others
<1>4. CASE FeeRight(r)' /\ refunded' = refunded
  BY <1>1, <1>2, <1>4, FeeStays DEF Goes, Others
<1>5. CASE TakeUnit(r)
  <2>1. FeeRight(r)' /\ refunded' = refunded
    BY <1>2, <1>5, TakeFee DEF TakeUnit, Untouched
  <2>2. QED
    BY <1>4, <2>1
<1>6. CASE PayBack(r)
  <2>1. req[r].stage = "moved" /\ refunded' = refunded
    BY <1>6 DEF PayBack
  <2>2. SeenItems(r)' = SeenItems(r) /\ Emptied(r)' = Emptied(r)
    BY <1>6, <2>1, PayingIs DEF SeenItems, Emptied
  <2>3. FeeRight(r)'
    BY <1>2, <1>6, <2>1, <2>2, PayingIs DEF FeeRight
  <2>4. QED
    BY <1>4, <2>1, <2>3
<1>7. CASE Commit(r)
  <2>1. AfterCommit(r) /\ Open(r)
    BY <1>7, CommitIs DEF Commit, Open, Ended
  <2>2. FeeRight(r)'
    BY <2>1, ClosedFeeNext DEF AfterCommit, Open, Ended
  <2>3. ASSUME NEW q \in Others(r)
        PROVE  FeeRight(q)'
    <3>1. ~Open(q) /\ q \in Requests /\ req'[q] = req[q]
      BY <1>1, <2>1, NobodyElse DEF Others, AfterCommit
    <3>2. ~req[q].last
      BY <3>1 DEF TypeInv, Sound
    <3>3. QED
      BY <3>1, <3>2, ClosedFeeNext DEF Open
  <2>4. QED
    BY <2>2, <2>3 DEF Others
<1>8. ASSUME \/ \E i \in Items, t \in Tickets : \E c \in Candidates(r, t) : Checks(r, i, t, c)
             \/ Frees(r)
             \/ \E e : TakesFee(r, e)
             \/ GoesOn(r)
             \/ MoveTokens(r)
      PROVE  FeeRight(r)' /\ refunded' = refunded
  <2>1. Reads(r) /\ FeeRight(r)'
    BY <1>2, <1>8, ReadsIs, ReadsFee
  <2>2. QED
    BY <2>1 DEF Reads
<1>9. QED
  BY <1>3, <1>4, <1>5, <1>6, <1>7, <1>8, StepKinds

LEMMA FeeKept ==
    ASSUME TypeInv, TypeInv', OneAtATime, FeeInv, Next
    PROVE  FeeInv'
<1>1. ASSUME NEW r \in Requests, NEW o \in Orders, Begin(r, o)
      PROVE  FeeInv'
  <2>1. Alone' => Alone
    BY <1>1, BeginIs DEF Alone
  <2>2. FeeRight(r)'
    BY <1>1, BeginIs DEF FeeRight
  <2>3. QED
    BY <1>1, <2>1, <2>2, BeginIs, FeeStays DEF FeeInv, Others
<1>2. ASSUME req' = req, past' = past, refunded' = refunded
      PROVE  FeeInv'
  BY <1>2, FeeStays DEF FeeInv, Alone
<1>3. QED
  BY <1>1, <1>2, StepFee DEF Next, Sell, Redeem

\* The committed items: an order all of whose other items went back has had its
\* fee back.
LEMMA FeeFollowed ==
    ASSUME TypeInv, OneAtATime, FeeInv, EventFeeFollows, NEW r \in Requests, Commit(r)
    PROVE  EventFeeFollows'
<1> SUFFICES ASSUME Alone, NEW o \in Orders,
                    \A i \in ItemsOf(o) : i[1] # "EventFees" => refunded'[i] = QuantityOf(i)
             PROVE  refunded'[EventFee(o)] = 1
  BY DEF EventFeeFollows, Commit, Alone
<1>1. refunded' = SeenItems(r) /\ req[r].stage = "paid" /\ FeeRight(r)
  BY DEF Commit, FeeInv
<1>2. CASE req[r].order = o
  BY <1>1, <1>2 DEF FeeRight, Emptied
<1>3. CASE req[r].order # o
  <2>1. \A i \in ItemsOf(o) : refunded'[i] = refunded[i]
    <3>1. ASSUME NEW i \in ItemsOf(o)
          PROVE  i \in Items \ DOMAIN req[r].items
      BY <1>3 DEF ItemsOf, TypeInv, Sound
    <3>2. QED
      BY <1>1, <3>1, SeenIs
  <2>2. EventFee(o) \in ItemsOf(o)
    BY FeeFacts DEF ItemsOf
  <2>3. QED
    BY <2>1, <2>2 DEF EventFeeFollows
<1>4. QED
  BY <1>2, <1>3


-----------------------------------------------------------------------------
(* What the provider has paid.                                             *)

LEMMA GivenIs ==
    ASSUME TypeInv, NEW o
    PROVE  /\ \A r \in Requests : GivenTo(o, r) \in Nat
           /\ AllGiven(o) \in Nat
<1> DEFINE f == [r \in Requests |-> GivenTo(o, r)]
<1>1. \A r \in Requests : GivenTo(o, r) \in Nat
  BY DEF GivenTo, TypeInv, Reqs
<1>2. \A r \in Requests : f[r] \in Nat
  BY <1>1
<1> HIDE DEF f
<1>3. SumFunctionOnSet(f, Requests) \in Nat
  BY <1>2, FiniteAssumption, SumIsNat
<1>4. QED
  BY <1>1, <1>3 DEF AllGiven, f

LEMMA GivenNext ==
    ASSUME TypeInv', NEW o
    PROVE  \A r \in Requests : GivenTo(o, r)' \in Nat
BY DEF GivenTo, TypeInv, Reqs

\* What was given changes by what the request that makes a step is given.
LEMMA GivenChanges ==
    ASSUME TypeInv, TypeInv', NEW o, NEW r \in Requests, \A q \in Others(r) : req'[q] = req[q]
    PROVE  AllGiven(o)' = AllGiven(o) + (GivenTo(o, r)' - GivenTo(o, r))
<1> DEFINE f == [q \in Requests |-> GivenTo(o, q)]
           g == [q \in Requests |-> GivenTo(o, q)']
<1>1. \A q \in Requests : f[q] \in Int /\ g[q] \in Int
  BY GivenIs, GivenNext
<1>2. \A q \in Requests \ {r} : f[q] = g[q]
  BY DEF GivenTo, Others
<1>3. f[r] = GivenTo(o, r) /\ g[r] = GivenTo(o, r)'
  OBVIOUS
<1>4. AllGiven(o) = SumFunctionOnSet(f, Requests) /\ AllGiven(o)' = SumFunctionOnSet(g, Requests)
  BY DEF AllGiven
<1> HIDE DEF f, g
<1>5. SumFunctionOnSet(g, Requests) = SumFunctionOnSet(f, Requests) + (g[r] - f[r])
  BY <1>1, <1>2, FiniteAssumption, SumChanged
<1>6. QED
  BY <1>3, <1>4, <1>5

LEMMA GivenStays ==
    ASSUME TypeInv, TypeInv', NEW o, NEW r \in Requests, \A q \in Others(r) : req'[q] = req[q],
           req[r].stage # "paid", req'[r].stage # "paid"
    PROVE  AllGiven(o)' = AllGiven(o)
<1>1. GivenTo(o, r) = 0 /\ GivenTo(o, r)' = 0
  BY DEF GivenTo
<1>2. AllGiven(o) \in Nat
  BY GivenIs
<1>3. AllGiven(o)' = AllGiven(o) + (GivenTo(o, r)' - GivenTo(o, r))
  BY GivenChanges
<1> DEFINE a == AllGiven(o)
<1>4. AllGiven(o)' = a + (0 - 0) /\ a \in Nat
  BY <1>1, <1>2, <1>3
<1> HIDE DEF a
<1>5. AllGiven(o)' = a
  BY <1>4
<1>6. QED
  BY <1>5 DEF a

\* A request that nobody meets asks for no more than is left of the payment.
LEMMA EnoughIsLeft ==
    ASSUME TypeInv, BooksInv, Alone, NEW r \in Requests, Open(r)
    PROVE  Amount(r) = req[r].due
<1> DEFINE o == req[r].order
           all == [i \in Items |-> QuantityOf(i)]
<1>1. PICK p \in [Items -> Nat], u \in [Requests -> [Items -> Nat]] : Books(p, u)
  BY DEF BooksInv
<1> DEFINE v == u[r]
<1>2. v \in [Items -> Nat] /\ PaidFor(p) /\ Takes(r, p, v)
  BY <1>1 DEF Books
<1> HIDE DEF v
<1>3. all \in [Items -> Nat] /\ \A i \in Items : all[i] = QuantityOf(i)
  BY ItemFacts
<1> DEFINE s == [i \in Items |-> p[i] + v[i]]
<1>4. s \in [Items -> Nat] /\ \A i \in Items : s[i] = p[i] + v[i]
  <2>1. \A i \in Items : p[i] + v[i] \in Nat
    BY <1>2
  <2>2. QED
    BY <2>1
<1> HIDE DEF s, all
<1>5. \A i \in ItemsOf(o) : s[i] <= all[i]
  <2> SUFFICES ASSUME NEW i \in ItemsOf(o)
               PROVE  s[i] <= all[i]
    OBVIOUS
  <2>1. i \in Items
    BY DEF ItemsOf
  <2>2. SeenItems(r)[i] = s[i]
    BY <1>2, <1>4, <2>1, SeenBound
  <2>3. SeenItems(r)[i] \in 0..QuantityOf(i) /\ QuantityOf(i) \in Nat
    BY <2>1, SeenIs, ItemFacts
  <2>4. SeenItems(r)[i] <= QuantityOf(i)
    BY <2>3
  <2>5. QED
    BY <1>3, <2>1, <2>2, <2>4
<1>6. Worth(o, s) <= Worth(o, all) /\ Worth(o, s) = Worth(o, p) + Worth(o, v)
  <2>1. Worth(o, s) <= Worth(o, all)
    BY <1>3, <1>4, <1>5, WorthMonotone
  <2>2. Worth(o, s) = Worth(o, p) + Worth(o, v)
    BY <1>2, <1>4, WorthAdds
  <2>3. QED
    BY <2>1, <2>2
<1>7. Paid(o) = Worth(o, all)
  BY DEF Paid, all
<1>8. o \in Orders /\ back[o] = Worth(o, p) /\ req[r].due = Worth(o, v)
  BY <1>2, OpenIs DEF PaidFor, Takes
<1>9. Worth(o, p) \in Nat /\ Worth(o, v) \in Nat /\ Worth(o, all) \in Nat
  BY <1>2, <1>3, WorthIs
<1> DEFINE a == Worth(o, p)
           b == Worth(o, v)
           c == Worth(o, all)
<1>10. a \in Nat /\ b \in Nat /\ c \in Nat /\ a + b <= c
  BY <1>6, <1>9
<1> HIDE DEF a, b, c
<1>11. c - a >= b
  BY <1>10
<1>12. Paid(o) - back[o] >= req[r].due
  BY <1>7, <1>8, <1>11 DEF a, b, c
<1>13. QED
  BY <1>12, AmountIs

\* Nothing is paid and nothing is given up.
LEMMA OutStays ==
    ASSUME TypeInv, TypeInv', OutInv, NEW r \in Requests,
           \A q \in Others(r) : req'[q] = req[q],
           req[r].stage # "paid", req'[r].stage # "paid",
           out' = out, back' = back, past \subseteq past'
    PROVE  OutInv'
<1>1. \A o : AllGiven(o)' = AllGiven(o)
  BY GivenStays
<1>2. Told' => Told
  BY DEF Told, Alone
<1>3. QED
  BY <1>1, <1>2 DEF OutInv

\* What the provider pays on one order.
LEMMA PaysIs ==
    ASSUME TypeInv, NEW r \in Requests, Open(r), ProviderPays(r)
    PROVE  /\ \A o \in Orders : o # req[r].order => out'[o] = out[o]
           /\ out'[req[r].order] = out[req[r].order] + Amount(r)
<1> DEFINE n == req[r].order
<1>1. n \in Orders /\ out \in [Orders -> Nat] /\ Amount(r) \in Nat /\ (~AsksProvider(r) => Amount(r) = 0)
  BY OpenIs, AmountIs DEF TypeInv, TypeOK
<1>2. out' = IF AsksProvider(r) THEN [out EXCEPT ![n] = out[n] + Amount(r)] ELSE out
  BY DEF ProviderPays
<1> HIDE DEF n
<1>3. out[n] \in Nat /\ out[n] + 0 = out[n]
  BY <1>1
<1>4. /\ \A o \in Orders : o # n => out'[o] = out[o]
      /\ out'[n] = out[n] + Amount(r)
  <2>1. CASE AsksProvider(r)
    BY <1>1, <1>2, <2>1
  <2>2. CASE ~AsksProvider(r)
    <3>1. out' = out /\ Amount(r) = 0
      BY <1>1, <1>2, <2>2
    <3>2. QED
      BY <1>3, <3>1
  <2>3. QED
    BY <2>1, <2>2
<1>5. QED
  BY <1>4 DEF n

LEMMA GivesUpOut ==
    ASSUME TypeInv, TypeInv', BooksInv, OutInv, NEW r \in Requests, Dropped(r), GivesUp(r)
    PROVE  OutInv'
<1>1. AfterDropped(r) /\ req[r].stage = "moved" /\ Open(r)
  BY DroppedIs DEF GivesUp, PayTooLittle, ProviderRefuses, AnswerLost, Open, Ended
<1>2. past \subseteq past'
  BY DEF GivesUp, PayTooLittle, ProviderRefuses, AnswerLost, GiveTokensBack
<1>3. Told' => Told /\ Alone
  BY <1>2 DEF Told, Alone
<1>4. \A o : AllGiven(o)' = AllGiven(o)
  BY <1>1, GivenStays DEF AfterDropped, Ended
<1>5. back' = back /\ out \in [Orders -> Nat] /\ Amount(r) \in Nat
  BY <1>1, AmountIs DEF AfterDropped, TypeInv, TypeOK
<1>6. \A o \in Orders : out'[o] >= out[o] /\ (Told' => out'[o] = out[o])
  <2>1. CASE ProviderRefuses(r)
    BY <1>5, <2>1 DEF ProviderRefuses
  <2>2. CASE ProviderPays(r) /\ ~Told'
    <3>1. /\ \A o \in Orders : o # req[r].order => out'[o] = out[o]
          /\ out'[req[r].order] = out[req[r].order] + Amount(r)
      BY <1>1, <2>2, PaysIs
    <3>2. \A o \in Orders : out'[o] = out[o] \/ out'[o] = out[o] + Amount(r)
      BY <3>1
    <3>3. \A o \in Orders : out[o] \in Nat
      BY <1>5
    <3>4. QED
      BY <1>5, <2>2, <3>2, <3>3
  <2>3. CASE PayTooLittle(r)
    <3>1. ~Alone
      <4>1. Amount(r) < req[r].due /\ req[r].due \in Nat
        BY <2>3 DEF PayTooLittle, TypeInv, Reqs
      <4>2. Alone => Amount(r) = req[r].due
        BY <1>1, EnoughIsLeft
      <4>3. QED
        BY <1>5, <4>1, <4>2
    <3>2. QED
      BY <1>3, <2>2, <2>3, <3>1 DEF PayTooLittle
  <2>4. CASE AnswerLost(r)
    <3>1. "answer" \in past'
      BY <2>4 DEF AnswerLost, GiveTokensBack
    <3>2. QED
      BY <2>2, <2>4, <3>1 DEF AnswerLost, Told
  <2>5. QED
    BY <2>1, <2>3, <2>4 DEF GivesUp
<1>7. ASSUME NEW o \in Orders
      PROVE  out'[o] >= back'[o] + AllGiven(o)' /\ (Told' => out'[o] = back'[o] + AllGiven(o)')
  <2>1. out[o] >= back[o] + AllGiven(o) /\ (Told => out[o] = back[o] + AllGiven(o))
    BY DEF OutInv
  <2>2. out[o] \in Nat /\ back[o] \in Nat /\ AllGiven(o) \in Nat /\ out'[o] \in Nat
    BY GivenIs DEF TypeInv, TypeOK
  <2>3. out'[o] >= out[o] /\ (Told' => out'[o] = out[o]) /\ back'[o] = back[o]
        /\ AllGiven(o)' = AllGiven(o)
    BY <1>4, <1>5, <1>6
  <2> DEFINE w == out'[o]
             x == out[o]
             y == back[o]
             z == AllGiven(o)
  <2>4. /\ w \in Nat /\ x \in Nat /\ y \in Nat /\ z \in Nat /\ x >= y + z
        /\ w >= x /\ (Told' => w = x) /\ (Told => x = y + z)
    BY <2>1, <2>2, <2>3
  <2> HIDE DEF w, x, y, z
  <2>5. w >= y + z /\ (Told' => w = y + z)
    BY <1>3, <2>4
  <2>6. QED
    BY <2>3, <2>5 DEF w, y, z
<1>8. QED
  BY <1>7 DEF OutInv


\* What is dropped was paid: the provider's answer was lost or the server died.
LEMMA CrashOut ==
    ASSUME TypeInv, TypeInv', OutInv, NEW r \in Requests, Dropped(r), Crash(r)
    PROVE  OutInv'
<1>1. AfterDropped(r) /\ out' = out /\ ~Told'
  BY DroppedIs DEF Crash, Told
<1>2. ASSUME NEW o \in Orders
      PROVE  out'[o] >= back'[o] + AllGiven(o)'
  <2>1. AllGiven(o)' = AllGiven(o) + (GivenTo(o, r)' - GivenTo(o, r)) /\ GivenTo(o, r)' = 0
    BY <1>1, GivenChanges DEF AfterDropped, GivenTo, Ended
  <2>2. /\ out[o] \in Nat /\ back[o] \in Nat /\ AllGiven(o) \in Nat /\ GivenTo(o, r) \in Nat
        /\ out[o] >= back[o] + AllGiven(o) /\ back' = back
    BY <1>1, GivenIs DEF TypeInv, TypeOK, OutInv, AfterDropped
  <2> DEFINE x == out[o]
             y == back[o]
             z == AllGiven(o)
             g == GivenTo(o, r)
  <2>3. /\ x \in Nat /\ y \in Nat /\ z \in Nat /\ g \in Nat /\ x >= y + z
        /\ AllGiven(o)' = z + (0 - g)
    BY <2>1, <2>2
  <2> HIDE DEF x, y, z, g
  <2>4. x >= y + AllGiven(o)'
    BY <2>3
  <2>5. QED
    BY <1>1, <2>2, <2>4 DEF x, y
<1>3. QED
  BY <1>1, <1>2 DEF OutInv

LEMMA DroppedOut ==
    ASSUME TypeInv, TypeInv', BooksInv, OutInv, NEW r \in Requests, Dropped(r)
    PROVE  OutInv'
<1>1. CASE req[r].stage \notin Late /\ Untouched
  <2>1. AfterDropped(r)
    BY DroppedIs
  <2>2. QED
    BY <1>1, <2>1, OutStays DEF Untouched, Late, AfterDropped, Ended
<1>2. QED
  BY <1>1, CrashOut, GivesUpOut DEF Dropped

\* What the provider pays is what the request is given.
LEMMA PayOut ==
    ASSUME TypeInv, TypeInv', OutInv, NEW r \in Requests, PayBack(r)
    PROVE  OutInv'
<1> DEFINE n == req[r].order
<1>1. req[r].stage = "moved" /\ Open(r) /\ ProviderPays(r) /\ back' = back /\ Told' = Told
  BY DEF PayBack, Open, Ended, Told, Alone
<1>2. /\ \A q \in Others(r) : req'[q] = req[q]
      /\ req'[r].stage = "paid" /\ req'[r].order = n /\ req'[r].given = Amount(r)
  BY PayingIs
<1>3. /\ \A o \in Orders : o # n => out'[o] = out[o]
      /\ out'[n] = out[n] + Amount(r)
  BY <1>1, PaysIs
<1>4. ASSUME NEW o \in Orders
      PROVE  out'[o] >= back'[o] + AllGiven(o)' /\ (Told' => out'[o] = back'[o] + AllGiven(o)')
  <2>1. /\ AllGiven(o)' = AllGiven(o) + (GivenTo(o, r)' - GivenTo(o, r))
        /\ GivenTo(o, r) = 0 /\ GivenTo(o, r)' = (IF o = n THEN Amount(r) ELSE 0)
    BY <1>1, <1>2, GivenChanges DEF GivenTo
  <2>2. /\ out[o] \in Nat /\ back[o] \in Nat /\ AllGiven(o) \in Nat /\ Amount(r) \in Nat
        /\ out[o] >= back[o] + AllGiven(o)
        /\ Told => out[o] = back[o] + AllGiven(o)
    BY <1>1, GivenIs, AmountIs DEF TypeInv, TypeOK, OutInv
  <2>3. out'[o] = out[o] + (IF o = n THEN Amount(r) ELSE 0)
    BY <1>3, <2>2
  <2> DEFINE x == out[o]
             y == back[o]
             z == AllGiven(o)
             g == IF o = n THEN Amount(r) ELSE 0
  <2>4. /\ x \in Nat /\ y \in Nat /\ z \in Nat /\ g \in Nat
        /\ x >= y + z /\ (Told => x = y + z)
        /\ AllGiven(o)' = z + (g - 0) /\ out'[o] = x + g
    BY <2>1, <2>2, <2>3
  <2> HIDE DEF x, y, z, g
  <2>5. out'[o] >= y + AllGiven(o)' /\ (Told => out'[o] = y + AllGiven(o)')
    BY <2>4
  <2>6. QED
    BY <1>1, <2>5 DEF y
<1>5. QED
  BY <1>4 DEF OutInv

\* What the request was given is written in the books.
LEMMA CommitOut ==
    ASSUME TypeInv, TypeInv', OutInv, NEW r \in Requests, Commit(r)
    PROVE  OutInv'
<1> DEFINE n == req[r].order
<1>1. /\ AfterCommit(r) /\ req[r].stage = "paid" /\ out' = out /\ Told' = Told /\ n \in Orders
      /\ back' = [back EXCEPT ![n] = back[n] + req[r].given]
  BY CommitIs, OpenIs DEF Commit, Open, Ended, Told, Alone
<1>2. back \in [Orders -> Nat]
  BY DEF TypeInv, TypeOK
<1> HIDE DEF n
<1>3. /\ \A o \in Orders : o # n => back'[o] = back[o]
      /\ back'[n] = back[n] + req[r].given
  BY <1>1, <1>2
<1>4. ASSUME NEW o \in Orders
      PROVE  out'[o] >= back'[o] + AllGiven(o)' /\ (Told' => out'[o] = back'[o] + AllGiven(o)')
  <2>1. /\ AllGiven(o)' = AllGiven(o) + (GivenTo(o, r)' - GivenTo(o, r))
        /\ GivenTo(o, r)' = 0 /\ GivenTo(o, r) = (IF o = n THEN req[r].given ELSE 0)
    BY <1>1, GivenChanges DEF GivenTo, AfterCommit, n
  <2>2. /\ out[o] \in Nat /\ back[o] \in Nat /\ AllGiven(o) \in Nat /\ GivenTo(o, r) \in Nat
        /\ out[o] >= back[o] + AllGiven(o)
        /\ Told => out[o] = back[o] + AllGiven(o)
    BY GivenIs DEF TypeInv, TypeOK, OutInv
  <2>3. back'[o] = back[o] + GivenTo(o, r)
    <3>1. CASE o = n
      BY <1>3, <2>1, <3>1
    <3>2. CASE o # n
      BY <1>3, <2>1, <2>2, <3>2
    <3>3. QED
      BY <3>1, <3>2
  <2> DEFINE x == out[o]
             y == back[o]
             z == AllGiven(o)
             g == GivenTo(o, r)
  <2>4. /\ x \in Nat /\ y \in Nat /\ z \in Nat /\ g \in Nat
        /\ x >= y + z /\ (Told => x = y + z)
        /\ AllGiven(o)' = z + (0 - g) /\ back'[o] = y + g
    BY <2>1, <2>2, <2>3
  <2> HIDE DEF x, y, z, g
  <2>5. x >= back'[o] + AllGiven(o)' /\ (Told => x = back'[o] + AllGiven(o)')
    BY <2>4
  <2>6. QED
    BY <1>1, <2>5 DEF x
<1>5. QED
  BY <1>4 DEF OutInv

-----------------------------------------------------------------------------
(* The money: the theorems.                                                *)

Bookkeeping ==
    TypeInv /\ OneAtATime /\ FeeInv /\ EventFeeFollows /\ BooksInv /\ OutInv

LEMMA StepMoney ==
    ASSUME Bookkeeping, TypeInv', NEW r \in Requests, Step(r)
    PROVE  BooksInv' /\ OutInv' /\ EventFeeFollows'
<1>1. TypeInv /\ OneAtATime /\ FeeInv /\ EventFeeFollows /\ BooksInv /\ OutInv
  BY DEF Bookkeeping
<1>2. Alone' => Alone
  BY <1>1, StepGoes DEF Goes, Alone
<1>3. refunded' = refunded => EventFeeFollows'
  BY <1>1, <1>2 DEF EventFeeFollows
<1>4. CASE Dropped(r)
  <2>1. refunded' = refunded
    BY <1>4 DEF Dropped
  <2>2. QED
    BY <1>1, <1>3, <1>4, <2>1, DroppedBooks, DroppedOut
<1>5. CASE Reads(r)
  <2>1. OutInv'
    BY <1>1, <1>5, OutStays DEF Reads
  <2>2. BooksInv'
    BY <1>1, <1>5, ReadsBooks
  <2>3. QED
    BY <1>3, <1>5, <2>1, <2>2 DEF Reads
<1>6. CASE TakeUnit(r)
  <2>1. req[r].stage = "freed" /\ req'[r].stage \in {"open", "paying"} /\ Untouched
    BY <1>1, <1>6, TakingIs DEF TakeUnit
  <2>2. OutInv'
    BY <1>1, <1>6, <2>1, TakingIs, OutStays DEF Untouched
  <2>3. BooksInv'
    BY <1>1, <1>6, TakeBooks
  <2>4. QED
    BY <1>3, <2>1, <2>2, <2>3 DEF Untouched
<1>7. CASE PayBack(r)
  <2>1. refunded' = refunded
    BY <1>7 DEF PayBack
  <2>2. QED
    BY <1>1, <1>3, <1>7, <2>1, PayBooks, PayOut
<1>8. CASE Commit(r)
  BY <1>1, <1>8, CommitBooks, CommitOut, FeeFollowed
<1>9. QED
  BY <1>1, <1>4, <1>5, <1>6, <1>7, <1>8, StepKinds, ReadsIs

LEMMA NextBookkeeping == Bookkeeping /\ [Next]_vars => Bookkeeping'
<1> SUFFICES ASSUME Bookkeeping, [Next]_vars
             PROVE  Bookkeeping'
  OBVIOUS
<1>1. TypeInv /\ OneAtATime /\ FeeInv /\ EventFeeFollows /\ BooksInv /\ OutInv
  BY DEF Bookkeeping
<1>2. TypeInv'
  BY <1>1, NextTypes
<1>3. ASSUME UNCHANGED <<refunded, back, out, req, past>>
      PROVE  /\ OneAtATime' /\ FeeInv' /\ EventFeeFollows' /\ BooksInv' /\ OutInv'
  <2>1. OneAtATime' /\ EventFeeFollows'
    BY <1>1, <1>3 DEF OneAtATime, EventFeeFollows, Open, Alone
  <2>2. FeeInv'
    BY <1>1, <1>3, FeeStays DEF FeeInv, Alone
  <2>3. BooksInv'
    <3>1. PICK p \in [Items -> Nat], u \in [Requests -> [Items -> Nat]] : Books(p, u)
      BY <1>1 DEF BooksInv
    <3>2. \A r \in Requests : Takes(r, p, u[r])'
      BY <1>3, <3>1, TakesStays DEF Books, Alone
    <3>3. PaidFor(p)'
      BY <1>3, <3>1 DEF Books, PaidFor, Alone
    <3>4. Books(p, u)'
      BY <3>2, <3>3 DEF Books
    <3>5. QED
      BY <3>4 DEF BooksInv
  <2>4. OutInv'
    BY <1>1, <1>3 DEF OutInv, AllGiven, GivenTo, Told, Alone
  <2>5. QED
    BY <2>1, <2>2, <2>3, <2>4
<1>4. ASSUME Next
      PROVE  BooksInv' /\ OutInv' /\ EventFeeFollows'
  <2>1. ASSUME NEW r \in Requests, NEW o \in Orders, Begin(r, o)
        PROVE  BooksInv' /\ OutInv' /\ EventFeeFollows'
    <3>1. BooksInv'
      BY <1>1, <1>2, <2>1, BeginBooks
    <3>2. OutInv'
      BY <1>1, <1>2, <2>1, BeginIs, OutStays
    <3>3. EventFeeFollows'
      BY <1>1, <2>1, BeginIs DEF EventFeeFollows, Alone
    <3>4. QED
      BY <3>1, <3>2, <3>3
  <2>2. QED
    BY <1>2, <1>3, <1>4, <2>1, StepMoney DEF Next, Sell, Redeem
<1>5. CASE Next
  BY <1>1, <1>2, <1>4, <1>5, OneAtATimeKept, FeeKept DEF Bookkeeping
<1>6. CASE UNCHANGED vars
  BY <1>2, <1>3, <1>6 DEF vars, Bookkeeping
<1>7. QED
  BY <1>5, <1>6

LEMMA InitBookkeeping == Init => Bookkeeping
<1> SUFFICES ASSUME Init PROVE Bookkeeping
  OBVIOUS
<1>1. TypeInv
  BY InitTypes
<1>2. \A r \in Requests : req[r] = NoRequest /\ ~Open(r)
  BY DEF Init, Open, NoRequest
<1>3. OneAtATime
  BY <1>2 DEF OneAtATime
<1>4. FeeInv
  BY <1>2 DEF FeeInv, FeeRight, NoRequest
<1>5. EventFeeFollows
  <2> SUFFICES ASSUME NEW o \in Orders
               PROVE  ~ \A i \in ItemsOf(o) : i[1] # "EventFees" => refunded[i] = QuantityOf(i)
    BY DEF EventFeeFollows
  <2>1. PICK l \in Lines : OrderOf[l] = o
    BY LineAssumption
  <2> DEFINE i == <<"Tickets", l>>
  <2>2. i \in Items /\ OrderOfItem(i) = o /\ i[1] # "EventFees"
    BY <2>1, FeeFacts
  <2> HIDE DEF i
  <2>3. refunded[i] = 0 /\ QuantityOf(i) # 0
    BY <2>2, ItemFacts DEF Init
  <2>4. QED
    BY <2>2, <2>3 DEF ItemsOf
<1>6. BooksInv
  <2>1. PICK z \in [Items -> Nat] : \A i \in Items : z[i] = 0
    BY ZeroIs
  <2> DEFINE u == [r \in Requests |-> z]
  <2>2. u \in [Requests -> [Items -> Nat]] /\ \A r \in Requests : u[r] = z
    OBVIOUS
  <2> HIDE DEF u
  <2>3. \A r \in Requests : Takes(r, z, u[r])
    BY <1>1, <1>2, <2>1, <2>2, TakesNothing DEF TypeInv
  <2>4. \A o \in Orders : Worth(o, z) = 0
    BY <2>1, WorthOfNone DEF ItemsOf
  <2>5. PaidFor(z)
    BY <2>1, <2>4 DEF PaidFor, Init
  <2>6. Books(z, u)
    BY <2>3, <2>5 DEF Books
  <2>7. QED
    BY <2>2, <2>6 DEF BooksInv
<1>7. OutInv
  <2> SUFFICES ASSUME NEW o \in Orders
               PROVE  AllGiven(o) = 0 /\ out[o] = 0 /\ back[o] = 0
    BY DEF OutInv
  <2>1. \A r \in Requests : GivenTo(o, r) = 0
    BY <1>2 DEF GivenTo, NoRequest
  <2>2. AllGiven(o) = 0
    BY <2>1, FiniteAssumption, SumOfZeros DEF AllGiven
  <2>3. QED
    BY <2>2 DEF Init
<1>8. QED
  BY <1>1, <1>3, <1>4, <1>5, <1>6, <1>7 DEF Bookkeeping


LEMMA AlwaysKept == Spec => []Bookkeeping
BY InitBookkeeping, NextBookkeeping, PTL DEF Spec

\* However requests overlap, no unit counts as refunded that was not paid for
\* (refund_one_unit's absolute quantities; log_refund's amounts).
THEOREM NothingRefundedUnpaid == Spec => []NothingUnpaid
<1>1. Bookkeeping => NothingUnpaid
  <2> SUFFICES ASSUME Bookkeeping, NEW o \in Orders
               PROVE  back[o] >= Worth(o, refunded)
    BY DEF NothingUnpaid
  <2>1. PICK p \in [Items -> Nat], u \in [Requests -> [Items -> Nat]] : Books(p, u)
    BY DEF Bookkeeping, BooksInv
  <2>2. back[o] = Worth(o, p) /\ \A i \in Items : refunded[i] <= p[i]
    BY <2>1 DEF Books, PaidFor
  <2> DEFINE f == [i \in Items |-> refunded[i]]
  <2>3. f \in [Items -> Nat] /\ (\A i \in Items : f[i] = refunded[i]) /\ Worth(o, f) = Worth(o, refunded)
    <3>1. \A i \in Items : refunded[i] \in 0..QuantityOf(i) /\ QuantityOf(i) \in Nat
      BY ItemFacts DEF Bookkeeping, TypeInv, TypeOK
    <3>2. \A i \in Items : refunded[i] \in Nat
      BY <3>1
    <3>3. Worth(o, f) = Worth(o, refunded)
      BY DEF Worth
    <3>4. QED
      BY <3>2, <3>3
  <2> HIDE DEF f
  <2>4. Worth(o, f) <= Worth(o, p)
    BY <2>2, <2>3, WorthMonotone DEF ItemsOf
  <2>5. Worth(o, f) \in Nat /\ Worth(o, p) \in Nat
    BY <2>3, WorthIs
  <2>6. QED
    BY <2>2, <2>3, <2>4, <2>5
<1>2. QED
  BY <1>1, AlwaysKept, PTL

\* One request after the other, what was paid back is the price of the units
\* refunded, and the order's fee goes back with its last unit (Order::refund,
\* event_fee_items_with_no_associated_items).
THEOREM LedgersAgree == Spec => []LedgerAgrees
<1>1. Bookkeeping => LedgerAgrees
  <2> SUFFICES ASSUME Bookkeeping
               PROVE  LedgerAgrees
    OBVIOUS
  <2>1. TypeOK /\ EventFeeFollows
    BY DEF Bookkeeping, TypeInv
  <2>2. ASSUME Alone, NEW o \in Orders
        PROVE  back[o] = Worth(o, refunded)
    <3>1. PICK p \in [Items -> Nat], u \in [Requests -> [Items -> Nat]] : Books(p, u)
      BY DEF Bookkeeping, BooksInv
    <3>2. back[o] = Worth(o, p) /\ \A i \in Items : refunded[i] = p[i]
      BY <2>2, <3>1 DEF Books, PaidFor
    <3>3. DOMAIN refunded = Items
      BY DEF Bookkeeping, TypeInv, TypeOK
    <3> DEFINE f == [i \in Items |-> refunded[i] * Price[i[1]]]
               g == [i \in Items |-> p[i] * Price[i[1]]]
    <3>4. f = g
      BY <3>2
    <3> HIDE DEF f, g
    <3>5. SumFunctionOnSet(f, ItemsOf(o)) = SumFunctionOnSet(g, ItemsOf(o))
      BY <3>4
    <3>6. Worth(o, refunded) = Worth(o, p)
      BY <3>5 DEF Worth, f, g
    <3>7. QED
      BY <3>2, <3>6
  <2>3. BooksAgree
    BY <2>2 DEF BooksAgree
  <2>4. QED
    BY <2>1, <2>3 DEF LedgerAgrees
<1>2. QED
  BY <1>1, AlwaysKept, PTL

\* What the outside did is what the database says it did: the provider never
\* paid less than the books say, nor more, one request after the other and with
\* no answer lost and no crash; and the tokens follow the tickets (the handler
\* of controllers/orders.rs, which no rollback undoes).
THEOREM OutsideFollows == Spec => []OutsideAgrees
<1>1. Bookkeeping => MoneyAgrees
  <2> SUFFICES ASSUME Bookkeeping
               PROVE  MoneyAgrees
    OBVIOUS
  <2>1. /\ TypeInv
        /\ \A o \in Orders : out[o] >= back[o] + AllGiven(o) /\ (Told => out[o] = back[o] + AllGiven(o))
    BY DEF Bookkeeping, OutInv
  <2>2. \A o \in Orders : out[o] \in Nat /\ back[o] \in Nat /\ AllGiven(o) \in Nat
    BY <2>1, GivenIs DEF TypeInv, TypeOK
  <2>3. \A o \in Orders : out[o] >= back[o]
    BY <2>1, <2>2
  <2>4. ASSUME Told, Quiet
        PROVE  out = back
    <3>1. ASSUME NEW o \in Orders
          PROVE  out[o] = back[o]
      <4>1. \A r \in Requests : GivenTo(o, r) = 0
        BY <2>4 DEF Quiet, Open, Ended, GivenTo
      <4>2. AllGiven(o) = 0
        BY <4>1, FiniteAssumption, SumOfZeros DEF AllGiven
      <4>3. QED
        BY <2>1, <2>2, <2>4, <4>2
    <3>2. out \in [Orders -> Nat] /\ back \in [Orders -> Nat]
      BY <2>1 DEF TypeInv, TypeOK
    <3>3. QED
      BY <3>1, <3>2
  <2>5. QED
    BY <2>3, <2>4 DEF MoneyAgrees, Told
<1>2. Bookkeeping /\ Refundable => OutsideAgrees
  BY <1>1, TokensAgree DEF OutsideAgrees
<1>3. QED
  BY <1>2, AlwaysKept, AlwaysRefundable, PTL

=============================================================================
